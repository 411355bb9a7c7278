---------------------------- MODULE HostsProofs ----------------------------
(***************************************************************************)
(* The safety properties of what spans several hosts - the connections,    *)
(* the list of workspaces and the file tabs - for every set of hosts and   *)
(* machines and every value of the bounds.                                 *)
(*                                                                         *)
(* RemoteHosts keeps its state in one record, so each operator of it gets  *)
(* a lemma about the record it returns, and a step is a lemma's conclusion *)
(* about gui'.  The list and the tabs are instances; MCGui runs them.      *)
(***************************************************************************)
EXTENDS RemoteHosts, FiniteSetTheorems, SequenceTheorems, TLAPS

CONSTANTS
  Local, MaxIds,                                   \* of the list
  Path, Viewable, Chunks, MaxTabs, FileClicks      \* of the file tabs

VARIABLES
  workspaces, activeId, stored, known, tasks, reachable, minted,
  net, version, tabs, shown, texts, links, reads, opened

List == INSTANCE WorkspaceList
Files == INSTANCE FileTabs WITH MaxClicks <- FileClicks

-----------------------------------------------------------------------------
(* Connections                                                             *)

\* What ends a call of connectProfile.
Enders == {"duplicate", "abort", "undo"}

\* An awaited disconnect of h that ends its call.
Ends(c, h) == c.conn[1] = h /\ c.then \in Enders

\* The two tables agree, and a connection is listed for its own host.
TablesAgree(g) ==
  \A h \in Host : /\ g.hosts[h] # None <=> g.devices[DeviceOf[h]] = h
                  /\ g.hosts[h] # None => g.hosts[h][1] = h

\* A call that has yet to connect, or that ends, has no connection in the table.
CallsAlone(g) == \A h \in Host : g.call[h] \in {"connect", "ending"} => g.hosts[h] = None

\* Only a call that lists the workspaces holds a connection of a paused host.
PausedLists(g) ==
  \A h \in Host : h \in g.paused /\ g.hosts[h] # None => g.call[h] = "list"

ListsTried(g) == \A h \in Host : g.call[h] = "list" => g.tries[h] # 0

\* At most one disconnect is awaited by a call, and the call is ending.
EndsOnce(g) ==
  \A h \in Host : \A c, d \in g.closing :
    Ends(c, h) => g.call[h] = "ending" /\ (Ends(d, h) => c = d)

\* The inductive invariant, of whatever the user does.
Sound(g) ==
  /\ g \in Gui
  /\ TablesAgree(g) /\ CallsAlone(g) /\ PausedLists(g) /\ ListsTried(g) /\ EndsOnce(g)

\* The invariant while the user's pause of h has yet to disconnect it.
SoundBut(g, h) ==
  /\ g \in Gui
  /\ TablesAgree(g) /\ CallsAlone(g) /\ ListsTried(g) /\ EndsOnce(g)
  /\ \A i \in Host \ {h} : i \in g.paused /\ g.hosts[i] # None => g.call[i] = "list"

-----------------------------------------------------------------------------
(* Types: each operator returns a state of the GUI.                        *)

LEMMA SetRuntimeType ==
  ASSUME NEW g \in Gui, NEW h \in Host, NEW s \in {"offline", "connecting", "online", "error"}
  PROVE  setRuntime(g, h, s) \in Gui
  BY DEF setRuntime, Gui

LEMMA TimerType ==
  ASSUME NEW g \in Gui, NEW h \in Host
  PROVE  clearRetry(g, h) \in Gui /\ scheduleRetry(g, h) \in Gui
  BY DEF clearRetry, scheduleRetry, Gui

LEMMA UnlistType ==
  ASSUME HostsAssumption, NEW g \in Gui, NEW h \in Host
  PROVE  Unlist(g, h) \in Gui
  BY DEF Unlist, Gui, HostsAssumption

LEMMA CloseType ==
  ASSUME NEW g \in Gui, NEW conn \in Conn, NEW then \in Thens
  PROVE  Close(g, conn, then) \in Gui
  BY DEF Close, Gui

LEMMA ForgetType ==
  ASSUME NEW g \in Gui, NEW h
  PROVE  Forget(g, h) \in Gui
  BY DEF Forget, Gui

LEMMA EndingType ==
  ASSUME NEW g \in Gui, NEW h \in Host, NEW s \in Calls
  PROVE  [g EXCEPT !.call[h] = s] \in Gui
  BY DEF Gui

-----------------------------------------------------------------------------
(* The invariant and each operator.                                        *)

\* The invariant is about these parts of the state.
LEMMA SameSound ==
  ASSUME NEW g, Sound(g), NEW k \in Gui,
         k.call = g.call, k.hosts = g.hosts, k.devices = g.devices,
         k.paused = g.paused, k.closing = g.closing, k.tries = g.tries
  PROVE  Sound(k)
  BY DEF Sound, TablesAgree, CallsAlone, PausedLists, ListsTried, EndsOnce

LEMMA QuietSound ==
  ASSUME NEW g, Sound(g), NEW h \in Host
  PROVE  /\ \A s \in {"offline", "connecting", "online", "error"} : Sound(setRuntime(g, h, s))
         /\ Sound(clearRetry(g, h)) /\ Sound(scheduleRetry(g, h))
         /\ Sound(Forget(g, h))
<1>1. g \in Gui
  BY DEF Sound
<1>2. ASSUME NEW s \in {"offline", "connecting", "online", "error"}
      PROVE  Sound(setRuntime(g, h, s))
  <2>1. setRuntime(g, h, s) \in Gui
    BY <1>1, SetRuntimeType
  <2>. QED BY <1>1, <2>1, SameSound DEF setRuntime, Gui
<1>3. Sound(clearRetry(g, h))
  <2>1. clearRetry(g, h) \in Gui
    BY <1>1, TimerType
  <2>. QED BY <1>1, <2>1, SameSound DEF clearRetry, Gui
<1>4. Sound(scheduleRetry(g, h))
  <2>1. scheduleRetry(g, h) \in Gui
    BY <1>1, TimerType
  <2>. QED BY <1>1, <2>1, SameSound DEF scheduleRetry, Gui
<1>5. Sound(Forget(g, h))
  <2>1. Forget(g, h) \in Gui
    BY <1>1, ForgetType
  <2>. QED BY <1>1, <2>1, SameSound DEF Forget, Gui
<1>. QED BY <1>2, <1>3, <1>4, <1>5

LEMMA UnlistEffect ==
  ASSUME HostsAssumption, NEW g \in Gui, NEW h \in Host
  PROVE  LET k == Unlist(g, h) IN
         /\ k.call = g.call /\ k.paused = g.paused /\ k.closing = g.closing
         /\ k.tries = g.tries /\ k.shown = g.shown /\ k.profiles = g.profiles
         /\ k.forgotten = g.forgotten
         /\ k.hosts[h] = None
         /\ \A i \in Host \ {h} : k.hosts[i] = g.hosts[i]
         /\ \A d \in Device : k.devices[d] =
              IF d = DeviceOf[h] /\ g.devices[d] = h THEN None ELSE g.devices[d]
  BY DEF Unlist, Gui, HostsAssumption

LEMMA SoundIsBut ==
  ASSUME NEW g, NEW h \in Host
  PROVE  /\ Sound(g) => SoundBut(g, h)
         /\ SoundBut(g, h) /\ g.hosts[h] = None => Sound(g)
  BY DEF Sound, SoundBut, PausedLists

LEMMA UnlistSound ==
  ASSUME HostsAssumption, NEW g, NEW h \in Host, SoundBut(g, h)
  PROVE  Sound(Unlist(g, h))
<1> DEFINE k == Unlist(g, h)
<1>1. g \in Gui /\ k \in Gui
  BY UnlistType DEF SoundBut
<1>2. /\ k.call = g.call /\ k.paused = g.paused /\ k.closing = g.closing
      /\ k.tries = g.tries
      /\ k.hosts[h] = None
      /\ \A i \in Host \ {h} : k.hosts[i] = g.hosts[i]
      /\ \A d \in Device : k.devices[d] =
           IF d = DeviceOf[h] /\ g.devices[d] = h THEN None ELSE g.devices[d]
  BY <1>1, UnlistEffect
<1> HIDE DEF k
<1>3. TablesAgree(k)
  <2> SUFFICES ASSUME NEW i \in Host
               PROVE  /\ k.hosts[i] # None <=> k.devices[DeviceOf[i]] = i
                      /\ k.hosts[i] # None => k.hosts[i][1] = i
    BY DEF TablesAgree
  <2>1. DeviceOf[i] \in Device /\ None # i
    BY DEF HostsAssumption
  <2>2. /\ g.hosts[i] # None <=> g.devices[DeviceOf[i]] = i
        /\ g.hosts[i] # None => g.hosts[i][1] = i
    BY DEF SoundBut, TablesAgree
  <2>3. CASE i = h
    BY <1>2, <2>1, <2>3
  <2>4. CASE i # h
    BY <1>2, <2>1, <2>2, <2>4
  <2>. QED BY <2>3, <2>4
<1>4. CallsAlone(k) /\ PausedLists(k)
  BY <1>2 DEF SoundBut, CallsAlone, PausedLists
<1>5. ListsTried(k) /\ EndsOnce(k)
  BY <1>2 DEF SoundBut, ListsTried, EndsOnce
<1>. QED BY <1>1, <1>3, <1>4, <1>5 DEF Sound, k

LEMMA CloseEffect ==
  ASSUME NEW g \in Gui, NEW conn, NEW then
  PROVE  LET k == Close(g, conn, then) IN
         /\ k.call = g.call /\ k.hosts = g.hosts /\ k.devices = g.devices
         /\ k.paused = g.paused /\ k.tries = g.tries /\ k.shown = g.shown
         /\ k.profiles = g.profiles /\ k.forgotten = g.forgotten
         /\ k.closing = g.closing \cup {[conn |-> conn, then |-> then]}
  BY DEF Close, Gui

LEMMA CloseSound ==
  ASSUME NEW g, Sound(g), NEW conn \in Conn, NEW then \in Thens \ Enders
  PROVE  Sound(Close(g, conn, then))
<1> DEFINE k == Close(g, conn, then)
           new == [conn |-> conn, then |-> then]
<1>1. g \in Gui /\ k \in Gui
  BY CloseType DEF Sound
<1>2. /\ k.call = g.call /\ k.hosts = g.hosts /\ k.devices = g.devices
      /\ k.paused = g.paused /\ k.tries = g.tries
      /\ k.closing = g.closing \cup {new}
  BY <1>1, CloseEffect
<1>3. \A h \in Host : ~Ends(new, h)
  BY DEF Ends
<1> HIDE DEF k, new
<1>4. EndsOnce(k)
  BY <1>2, <1>3 DEF Sound, EndsOnce
<1>5. TablesAgree(k) /\ CallsAlone(k) /\ PausedLists(k) /\ ListsTried(k)
  BY <1>2 DEF Sound, TablesAgree, CallsAlone, PausedLists, ListsTried
<1>. QED BY <1>1, <1>4, <1>5 DEF Sound, k

LEMMA CallEffect ==
  ASSUME NEW g \in Gui, NEW h \in Host, NEW s
  PROVE  LET k == [g EXCEPT !.call[h] = s] IN
         /\ k.hosts = g.hosts /\ k.devices = g.devices
         /\ k.paused = g.paused /\ k.tries = g.tries /\ k.shown = g.shown
         /\ k.profiles = g.profiles /\ k.forgotten = g.forgotten
         /\ k.closing = g.closing
         /\ k.call[h] = s
         /\ \A i \in Host \ {h} : k.call[i] = g.call[i]
  BY DEF Gui

\* A call begins or is over: no disconnect of it is awaited.
LEMMA CallSound ==
  ASSUME NEW g, Sound(g), NEW h \in Host, NEW s \in {"idle", "connect"},
         \A c \in g.closing : ~Ends(c, h),
         s = "connect" \/ h \in g.paused => g.hosts[h] = None
  PROVE  Sound([g EXCEPT !.call[h] = s])
<1> DEFINE k == [g EXCEPT !.call[h] = s]
<1>1. g \in Gui /\ k \in Gui
  BY EndingType DEF Sound, Calls
<1>2. /\ k.hosts = g.hosts /\ k.devices = g.devices
      /\ k.paused = g.paused /\ k.tries = g.tries /\ k.closing = g.closing
      /\ k.call[h] = s
      /\ \A i \in Host \ {h} : k.call[i] = g.call[i]
  BY <1>1, CallEffect
<1> HIDE DEF k
<1>3. TablesAgree(k)
  BY <1>2 DEF Sound, TablesAgree
<1>4. CallsAlone(k) /\ PausedLists(k) /\ ListsTried(k)
  BY <1>2 DEF Sound, CallsAlone, PausedLists, ListsTried
<1>5. EndsOnce(k)
  BY <1>2 DEF Sound, EndsOnce
<1>. QED BY <1>1, <1>3, <1>4, <1>5 DEF Sound, k

\* A call ends with a disconnect that it awaits.
LEMMA EndSound ==
  ASSUME NEW g, Sound(g), NEW h \in Host, g.call[h] # "ending", g.hosts[h] = None,
         NEW conn \in Conn, conn[1] = h, NEW then \in Enders
  PROVE  Sound(Close([g EXCEPT !.call[h] = "ending"], conn, then))
<1> DEFINE m == [g EXCEPT !.call[h] = "ending"]
           k == Close(m, conn, then)
           new == [conn |-> conn, then |-> then]
<1>1. g \in Gui /\ m \in Gui
  BY EndingType DEF Sound, Calls
<1>2. k \in Gui
  BY <1>1, CloseType DEF Enders, Thens
<1>3. /\ k.hosts = g.hosts /\ k.devices = g.devices
      /\ k.paused = g.paused /\ k.tries = g.tries /\ k.closing = g.closing \cup {new}
      /\ k.call[h] = "ending"
      /\ \A i \in Host \ {h} : k.call[i] = g.call[i]
  <2>1. /\ m.hosts = g.hosts /\ m.devices = g.devices
        /\ m.paused = g.paused /\ m.tries = g.tries /\ m.closing = g.closing
        /\ m.call[h] = "ending"
        /\ \A i \in Host \ {h} : m.call[i] = g.call[i]
    BY <1>1, CallEffect
  <2> HIDE DEF m
  <2>. QED BY <1>1, <2>1, CloseEffect
<1>4. /\ \A i \in Host : Ends(new, i) => i = h
      /\ \A c \in g.closing : ~Ends(c, h)
  BY DEF Ends, Sound, EndsOnce
<1> HIDE DEF k, m, new
<1>5. TablesAgree(k)
  BY <1>3 DEF Sound, TablesAgree
<1>6. CallsAlone(k) /\ PausedLists(k) /\ ListsTried(k)
  BY <1>3 DEF Sound, CallsAlone, PausedLists, ListsTried
<1>7. EndsOnce(k)
  <2> SUFFICES ASSUME NEW i \in Host, NEW c \in k.closing, NEW d \in k.closing, Ends(c, i)
               PROVE  k.call[i] = "ending" /\ (Ends(d, i) => c = d)
    BY DEF EndsOnce
  <2>1. CASE i = h
    BY <1>3, <1>4, <2>1
  <2>2. CASE i # h
    BY <1>3, <1>4, <2>2 DEF Sound, EndsOnce
  <2>. QED BY <2>1, <2>2
<1>. QED BY <1>2, <1>5, <1>6, <1>7 DEF Sound, k, m

LEMMA OfflineSound ==
  ASSUME HostsAssumption, NEW g, Sound(g), NEW h \in Host
  PROVE  Sound(Offline(g, h))
<1> DEFINE off == setRuntime(g, h, "offline")
<1>1. Sound(off) /\ off.hosts = g.hosts /\ g.hosts[h] \in Conn \cup {None}
  BY QuietSound DEF setRuntime, Sound, Gui
<1> HIDE DEF off
<1>2. Sound(scheduleRetry(off, h)) /\ Sound(Unlist(off, h))
  BY <1>1, QuietSound, UnlistSound, SoundIsBut
<1>3. CASE g.hosts[h] = None
  BY <1>2, <1>3 DEF Offline, off
<1>4. CASE g.hosts[h] # None
  <2>1. Sound(Close(Unlist(off, h), g.hosts[h], "retry"))
    BY <1>1, <1>2, <1>4, CloseSound DEF Thens, Enders
  <2>. QED BY <1>4, <2>1 DEF Offline, off
<1>. QED BY <1>3, <1>4

\* What has connected is listed, or taken back when the user has paused it.
LEMMA ConnectedSound ==
  ASSUME HostsAssumption, NEW g, Sound(g), NEW h \in Host, NEW conn \in Conn,
         g.call[h] # "ending"
  PROVE  Sound(Connected(g, h, conn))
<1>1. g \in Gui /\ (g.hosts[h] # None => g.hosts[h] \in Conn /\ g.hosts[h][1] = h)
  BY DEF Sound, Gui, TablesAgree
<1>2. CASE h \in g.paused /\ g.hosts[h] # None
  <2>1. Sound(Unlist(g, h)) /\ Unlist(g, h).hosts[h] = None
        /\ Unlist(g, h).call[h] # "ending"
    BY <1>1, UnlistSound, SoundIsBut, UnlistEffect
  <2>2. Sound(Close([Unlist(g, h) EXCEPT !.call[h] = "ending"], g.hosts[h], "undo"))
    BY <1>1, <1>2, <2>1, EndSound DEF Enders
  <2>. QED BY <1>2, <2>2 DEF Connected
<1>3. CASE h \in g.paused /\ g.hosts[h] = None
  <2> DEFINE over == [g EXCEPT !.call[h] = "idle"]
             i == IF h \in g.forgotten THEN h ELSE None
  <2>1. Sound(over)
    <3>1. \A c \in g.closing : ~Ends(c, h)
      BY DEF Sound, EndsOnce
    <3>. QED BY <1>3, <3>1, CallSound
  <2>2. Connected(g, h, conn) = Forget(over, i)
    BY <1>3 DEF Connected
  <2> HIDE DEF over, i
  <2>3. Sound(Forget(over, i))
    <3>1. over \in Gui /\ Forget(over, i) \in Gui
      BY <2>1, ForgetType DEF Sound
    <3>. QED BY <2>1, <3>1, SameSound DEF Forget, Gui
  <2>. QED BY <2>2, <2>3
<1>4. CASE h \notin g.paused
  <2> DEFINE told == setRuntime(g, h, "online")
             heard == [told EXCEPT !.heard = @ \cup {conn}]
             up == [told EXCEPT !.heard = @ \cup {conn}, !.call[h] = "idle"]
  <2>1. Sound(told)
    BY QuietSound
  <2>2. Sound(heard) /\ heard.paused = g.paused /\ heard.call = g.call /\ heard.closing = g.closing
    <3>1. /\ heard \in Gui /\ told \in Gui
          /\ heard.call = told.call /\ heard.hosts = told.hosts /\ heard.devices = told.devices
          /\ heard.paused = told.paused /\ heard.closing = told.closing /\ heard.tries = told.tries
      <4>1. told \in Gui
        BY <2>1 DEF Sound
      <4> HIDE DEF told
      <4>. QED BY <1>1, <4>1 DEF Gui
    <3>2. told.paused = g.paused /\ told.call = g.call /\ told.closing = g.closing
      BY <1>1 DEF setRuntime, Gui
    <3> HIDE DEF heard, told
    <3>. QED BY <2>1, <3>1, <3>2, SameSound
  <2>3. up = [heard EXCEPT !.call[h] = "idle"]
    BY <1>1, SetRuntimeType DEF Gui
  <2>4. Sound(up)
    <3>1. \A c \in heard.closing : ~Ends(c, h)
      BY <2>2 DEF Sound, EndsOnce
    <3> HIDE DEF heard, up
    <3>. QED BY <1>4, <2>2, <2>3, <3>1, CallSound
  <2>5. Sound(Offline(up, h))
    BY <2>4, OfflineSound
  <2>. QED BY <1>4, <2>4, <2>5 DEF Connected
<1>. QED BY <1>2, <1>3, <1>4

LEMMA FailedSound ==
  ASSUME NEW g, Sound(g), NEW h \in Host, g.hosts[h] = None,
         \A c \in g.closing : ~Ends(c, h), NEW permanent \in BOOLEAN
  PROVE  Sound(Failed(g, h, permanent))
<1> DEFINE over == [g EXCEPT !.call[h] = "idle"]
           told == setRuntime(over, h, "error")
           stopped == [told EXCEPT !.paused = @ \cup {h}]
<1>0. g \in Gui
  BY DEF Sound
<1>1. Sound(over) /\ over.hosts = g.hosts
  <2>1. Sound(over)
    BY CallSound
  <2>2. over.hosts = g.hosts
    BY <1>0, CallEffect
  <2>. QED BY <2>1, <2>2
<1>2. Sound(told) /\ told.hosts = g.hosts
  <2>1. over \in Gui
    BY <1>1 DEF Sound
  <2> HIDE DEF over
  <2>. QED BY <1>1, <2>1, QuietSound DEF setRuntime, Gui
<1> HIDE DEF over, told
<1>3. Sound(scheduleRetry(told, h))
  BY <1>2, QuietSound
<1>4. Sound(stopped)
  <2>1. /\ told \in Gui /\ stopped \in Gui
        /\ stopped.call = told.call /\ stopped.hosts = told.hosts
        /\ stopped.devices = told.devices /\ stopped.paused = told.paused \cup {h}
        /\ stopped.closing = told.closing /\ stopped.tries = told.tries
    BY <1>2 DEF Sound, Gui
  <2> HIDE DEF stopped
  <2>2. TablesAgree(stopped) /\ CallsAlone(stopped) /\ ListsTried(stopped) /\ EndsOnce(stopped)
    BY <1>2, <2>1 DEF Sound, TablesAgree, CallsAlone, ListsTried, EndsOnce
  <2>3. PausedLists(stopped)
    BY <1>2, <2>1 DEF Sound, PausedLists
  <2>. QED BY <2>1, <2>2, <2>3 DEF Sound
<1>. QED BY <1>1, <1>3, <1>4 DEF Failed, over, told

LEMMA ConnectSound ==
  ASSUME HostsAssumption, NEW g, Sound(g), NEW h \in Host
  PROVE  Sound(connectProfile(g, h))
<1> DEFINE cleared == clearRetry(g, h)
           trying == setRuntime(cleared, h, "connecting")
<1>1. g \in Gui /\ Sound(cleared) /\ Sound(setRuntime(g, h, "error"))
  BY QuietSound DEF Sound
<1>2. Sound(trying) /\ trying \in Gui
  BY <1>1, QuietSound DEF Sound
<1>3. trying.hosts = g.hosts /\ trying.call = g.call /\ trying.closing = g.closing
  BY <1>1 DEF setRuntime, clearRetry, Gui
<1> HIDE DEF trying
<1>4. CASE g.call[h] # "idle" \/ h \in g.paused \/ h \notin g.target
  BY <1>1, <1>4 DEF connectProfile
<1>5. CASE g.call[h] = "idle" /\ g.hosts[h] # None
  <2>1. g.hosts[h] \in Conn
    BY <1>1, <1>5 DEF Gui
  <2>2. Sound(Connected(trying, h, g.hosts[h]))
    BY <1>2, <1>3, <1>5, <2>1, ConnectedSound
  <2>. QED BY <1>1, <1>5, <2>2 DEF connectProfile, trying
<1>6. CASE g.call[h] = "idle" /\ g.hosts[h] = None
  <2>1. \A c \in trying.closing : ~Ends(c, h)
    BY <1>3, <1>6 DEF Sound, EndsOnce
  <2>2. Sound([trying EXCEPT !.call[h] = "connect"])
    BY <1>2, <1>3, <1>6, <2>1, CallSound
  <2>. QED BY <1>1, <1>6, <2>2 DEF connectProfile, trying
<1>. QED BY <1>4, <1>5, <1>6

\* After a disconnect: a call that awaited it is over.
LEMMA ThenSound ==
  ASSUME HostsAssumption, NEW g, Sound(g), NEW h \in Host, NEW then \in Thens,
         then \in Enders => g.hosts[h] = None /\ \A c \in g.closing : ~Ends(c, h)
  PROVE  Sound(Then(g, h, then))
<1>1. CASE then \in {"retry", "pause"}
  BY <1>1, QuietSound DEF Then
<1>2. CASE then = "remove"
  <2> DEFINE m == Forget(g, h)
             k == [m EXCEPT !.profiles = @ \ {h}]
  <2>1. Sound(m) /\ m \in Gui
    BY QuietSound DEF Sound
  <2> HIDE DEF m
  <2>2. /\ k \in Gui
        /\ k.call = m.call /\ k.hosts = m.hosts /\ k.devices = m.devices
        /\ k.paused = m.paused /\ k.closing = m.closing /\ k.tries = m.tries
    BY <2>1 DEF Gui
  <2>3. Sound(setRuntime(k, h, "offline"))
    <3> HIDE DEF k
    <3>1. Sound(k)
      BY <2>1, <2>2, SameSound
    <3>. QED BY <3>1, QuietSound
  <2>. QED BY <1>2, <2>3 DEF Then, m
<1>3. CASE then = "reconnect"
  BY <1>3, ConnectSound DEF Then
<1>4. CASE then \in {"duplicate", "abort"}
  BY <1>4, FailedSound DEF Then, Enders
<1>5. CASE then = "undo"
  <2>1. Sound([g EXCEPT !.call[h] = "idle"])
    BY <1>5, CallSound DEF Enders
  <2>. QED BY <1>5, <2>1, QuietSound DEF Then
<1>. QED BY <1>1, <1>2, <1>3, <1>4, <1>5 DEF Thens

LEMMA DisconnectSound ==
  ASSUME HostsAssumption, NEW g, NEW h \in Host, SoundBut(g, h), NEW then \in Thens \ Enders
  PROVE  Sound(Disconnect(g, h, then))
<1>1. CASE g.hosts[h] = None
  BY <1>1, SoundIsBut, ThenSound DEF Disconnect
<1>2. CASE g.hosts[h] # None
  <2>1. g.hosts[h] \in Conn /\ Sound(Unlist(g, h))
    BY <1>2, UnlistSound DEF SoundBut, Gui
  <2>. QED BY <1>2, <2>1, CloseSound DEF Disconnect
<1>. QED BY <1>1, <1>2

-----------------------------------------------------------------------------
(* The invariant and each step.                                            *)

LEMMA InitSound == HostsAssumption /\ Init => Sound(gui)
<1> SUFFICES ASSUME HostsAssumption, Init PROVE Sound(gui)
  OBVIOUS
<1>1. PICK target \in SUBSET Host :
       gui = [profiles |-> Host, target |-> target,
              status |-> [h \in Host |-> IF h \in target THEN "connecting" ELSE "error"],
              paused |-> {}, forgotten |-> {}, timer |-> {},
              call |-> [h \in Host |-> IF h \in target THEN "connect" ELSE "idle"],
              hosts |-> [h \in Host |-> None], devices |-> [d \in Device |-> None],
              shown |-> {}, online |-> {}, heard |-> {}, closing |-> {},
              tries |-> [h \in Host |-> 0]]
  BY DEF Init
<1>2. gui \in Gui
  BY <1>1 DEF HostsAssumption, Gui, Calls
<1>3. /\ TablesAgree(gui) /\ CallsAlone(gui) /\ PausedLists(gui)
      /\ ListsTried(gui) /\ EndsOnce(gui)
  BY <1>1 DEF HostsAssumption, TablesAgree, CallsAlone, PausedLists, ListsTried, EndsOnce
<1>. QED BY <1>2, <1>3 DEF Sound

\* What the clicks on h change before they disconnect it.
LEMMA MarksSoundBut ==
  ASSUME Sound(gui), NEW h \in Host, NEW P \in SUBSET Host, NEW F \in SUBSET Host,
         P \subseteq gui.paused \cup {h}
  PROVE  SoundBut(clearRetry([gui EXCEPT !.paused = P, !.forgotten = F], h), h)
<1> DEFINE g == clearRetry([gui EXCEPT !.paused = P, !.forgotten = F], h)
<1>1. gui \in Gui
  BY DEF Sound
<1>2. /\ g \in Gui
      /\ g.call = gui.call /\ g.hosts = gui.hosts /\ g.devices = gui.devices
      /\ g.paused = P /\ g.closing = gui.closing /\ g.tries = gui.tries
  BY <1>1 DEF Gui, clearRetry
<1> HIDE DEF g
<1>3. TablesAgree(g) /\ CallsAlone(g) /\ ListsTried(g) /\ EndsOnce(g)
  BY <1>2 DEF Sound, TablesAgree, CallsAlone, ListsTried, EndsOnce
<1>4. \A i \in Host \ {h} : i \in g.paused /\ g.hosts[i] # None => g.call[i] = "list"
  BY <1>2 DEF Sound, PausedLists
<1>. QED BY <1>2, <1>3, <1>4 DEF SoundBut, g

LEMMA UserSound ==
  ASSUME HostsAssumption, Sound(gui), NEW h \in Host, User(h)
  PROVE  Sound(gui')
<1>1. gui \in Gui
  BY DEF Sound
<1>2. /\ gui.paused \cup {h} \in SUBSET Host /\ gui.forgotten \cup {h} \in SUBSET Host
      /\ gui.paused \ {h} \in SUBSET Host /\ gui.forgotten \ {h} \in SUBSET Host
      /\ gui.forgotten \in SUBSET Host
  BY <1>1 DEF Gui
<1>3. CASE Reconnect(h)
  <2>1. SoundBut(clearRetry([gui EXCEPT !.paused = @ \ {h}, !.forgotten = @ \ {h}], h), h)
    BY <1>2, MarksSoundBut
  <2>. QED BY <1>3, <2>1, DisconnectSound DEF Reconnect, Click, Thens, Enders
<1>4. CASE Pause(h)
  <2>1. [gui EXCEPT !.paused = @ \cup {h}]
          = [gui EXCEPT !.paused = @ \cup {h}, !.forgotten = gui.forgotten]
    BY <1>1 DEF Gui
  <2>2. SoundBut(clearRetry([gui EXCEPT !.paused = @ \cup {h}], h), h)
    BY <1>2, <2>1, MarksSoundBut
  <2>. QED BY <1>4, <2>2, DisconnectSound DEF Pause, Click, Thens, Enders
<1>5. CASE Remove(h)
  <2>1. SoundBut(clearRetry([gui EXCEPT !.paused = @ \cup {h}, !.forgotten = @ \cup {h}], h), h)
    BY <1>2, MarksSoundBut
  <2>. QED BY <1>5, <2>1, DisconnectSound DEF Remove, Click, Thens, Enders
<1>6. CASE SetTarget(h)
  <2>1. gui' = [gui EXCEPT !.target = @ \cup {h}]
    BY <1>6 DEF SetTarget, Click
  <2>2. /\ gui' \in Gui
        /\ gui'.call = gui.call /\ gui'.hosts = gui.hosts /\ gui'.devices = gui.devices
        /\ gui'.paused = gui.paused /\ gui'.closing = gui.closing /\ gui'.tries = gui.tries
    BY <1>1, <2>1 DEF Gui
  <2>. QED BY <2>2, SameSound
<1>. QED BY <1>3, <1>4, <1>5, <1>6 DEF User

\* A connection is opened: it is listed, or the machine is another host's.
LEMMA ConnectsSound ==
  ASSUME HostsAssumption, Sound(gui), NEW h \in Host, Connects(h)
  PROVE  Sound(gui')
<1> DEFINE conn == <<h, gui.tries[h] + 1>>
           owner == gui.devices[DeviceOf[h]]
           g == [gui EXCEPT !.tries[h] = @ + 1, !.online = @ \cup {conn}]
           k == [g EXCEPT !.call[h] = "list", !.hosts[h] = conn, !.devices[DeviceOf[h]] = h]
<1>1. gui \in Gui /\ gui.call[h] = "connect" /\ gui.hosts[h] = None
  BY DEF Sound, CallsAlone, Connects
<1>2. gui.tries[h] + 1 \in 1..MaxTries
  BY <1>1 DEF Connects, Gui, HostsAssumption
<1>3. conn \in Conn /\ conn # None /\ conn[1] = h
  BY <1>2 DEF Conn, HostsAssumption
<1>4. /\ g \in Gui
      /\ g.call = gui.call /\ g.hosts = gui.hosts /\ g.devices = gui.devices
      /\ g.paused = gui.paused /\ g.closing = gui.closing
      /\ g.tries[h] = gui.tries[h] + 1
      /\ \A i \in Host \ {h} : g.tries[i] = gui.tries[i]
  <2> HIDE DEF conn
  <2>1. [gui.tries EXCEPT ![h] = @ + 1] \in [Host -> 0..MaxTries]
    BY <1>1, <1>2 DEF Gui
  <2>2. gui.online \cup {conn} \in SUBSET Conn
    BY <1>1, <1>3 DEF Gui
  <2>3. g \in Gui
    BY <1>1, <2>1, <2>2 DEF Gui
  <2>4. g.tries = [gui.tries EXCEPT ![h] = @ + 1]
    BY <1>1 DEF Gui
  <2>5. /\ g.call = gui.call /\ g.hosts = gui.hosts /\ g.devices = gui.devices
        /\ g.paused = gui.paused /\ g.closing = gui.closing
    BY <1>1 DEF Gui
  <2> HIDE DEF g
  <2>. QED BY <1>1, <2>3, <2>4, <2>5 DEF Gui
<1>5. CASE owner \notin {None, h}
  <2>1. gui' = Close([g EXCEPT !.call[h] = "ending"], conn, "duplicate")
    BY <1>5 DEF Connects, Fate
  <2> HIDE DEF g, conn
  <2>2. Sound(g)
    BY <1>1, <1>4 DEF Sound, TablesAgree, CallsAlone, PausedLists, ListsTried, EndsOnce
  <2>3. g.call[h] # "ending" /\ g.hosts[h] = None
    BY <1>1, <1>4
  <2>. QED BY <1>3, <2>1, <2>2, <2>3, EndSound DEF Enders
<1>6. CASE owner \in {None, h}
  <2>1. gui' = k
    BY <1>6 DEF Connects, Fate
  <2> HIDE DEF g, conn
  <2>2. /\ k \in Gui
        /\ k.paused = gui.paused /\ k.closing = gui.closing /\ k.tries = g.tries
        /\ k.call[h] = "list" /\ \A i \in Host \ {h} : k.call[i] = gui.call[i]
        /\ k.hosts[h] = conn /\ \A i \in Host \ {h} : k.hosts[i] = gui.hosts[i]
        /\ k.devices[DeviceOf[h]] = h
        /\ \A d \in Device \ {DeviceOf[h]} : k.devices[d] = gui.devices[d]
    <3>1. /\ [g.call EXCEPT ![h] = "list"] \in [Host -> Calls]
          /\ [g.hosts EXCEPT ![h] = conn] \in [Host -> Conn \cup {None}]
          /\ [g.devices EXCEPT ![DeviceOf[h]] = h] \in [Device -> Host \cup {None}]
      BY <1>3, <1>4 DEF Gui, Calls
    <3>2. k \in Gui
      BY <1>4, <3>1 DEF Gui
    <3>3. /\ k.call = [g.call EXCEPT ![h] = "list"]
          /\ k.hosts = [g.hosts EXCEPT ![h] = conn]
          /\ k.devices = [g.devices EXCEPT ![DeviceOf[h]] = h]
          /\ k.paused = g.paused /\ k.closing = g.closing /\ k.tries = g.tries
      BY <1>4 DEF Gui
    <3>4. DeviceOf[h] \in Device
      BY DEF HostsAssumption
    <3> HIDE DEF k
    <3>. QED BY <1>1, <1>4, <3>2, <3>3, <3>4 DEF Gui
  <2> HIDE DEF k
  <2>3. TablesAgree(k)
    <3> SUFFICES ASSUME NEW i \in Host
                 PROVE  /\ k.hosts[i] # None <=> k.devices[DeviceOf[i]] = i
                        /\ k.hosts[i] # None => k.hosts[i][1] = i
      BY DEF TablesAgree
    <3>1. DeviceOf[i] \in Device /\ i # None
      BY DEF HostsAssumption
    <3>2. /\ gui.hosts[i] # None <=> gui.devices[DeviceOf[i]] = i
          /\ gui.hosts[i] # None => gui.hosts[i][1] = i
      BY DEF Sound, TablesAgree
    <3>3. CASE i = h
      BY <1>3, <2>2, <3>3
    <3>4. CASE i # h
      BY <1>6, <2>2, <3>1, <3>2, <3>4
    <3>. QED BY <3>3, <3>4
  <2>4. CallsAlone(k) /\ PausedLists(k)
    BY <2>2 DEF Sound, CallsAlone, PausedLists
  <2>5. ListsTried(k)
    <3>1. k.tries[h] # 0
      BY <1>1, <1>4, <2>2 DEF Gui
    <3>. QED BY <1>4, <2>2, <3>1 DEF Sound, ListsTried
  <2>6. EndsOnce(k)
    BY <1>1, <2>2 DEF Sound, EndsOnce
  <2>. QED BY <2>1, <2>2, <2>3, <2>4, <2>5, <2>6 DEF Sound
<1>. QED BY <1>5, <1>6

\* A call that lists has made its connection.
LEMMA ListingIs ==
  ASSUME HostsAssumption, Sound(gui), NEW h \in Host, gui.call[h] = "list"
  PROVE  Listing(h) \in Conn /\ Listing(h)[1] = h
<1>1. gui.tries[h] \in 0..MaxTries /\ gui.tries[h] # 0
  BY DEF Sound, ListsTried, Gui
<1>. QED BY <1>1 DEF Listing, Conn, HostsAssumption

LEMMA AwaitSound ==
  ASSUME HostsAssumption, Sound(gui), NEW h \in Host, Await(h)
  PROVE  Sound(gui')
<1>1. gui \in Gui
  BY DEF Sound
<1>2. CASE ConnectFails(h)
  <2>1. PICK permanent \in BOOLEAN : gui' = Failed(gui, h, permanent)
    BY <1>2 DEF ConnectFails, Fate
  <2>2. gui.hosts[h] = None /\ \A c \in gui.closing : ~Ends(c, h)
    BY <1>2 DEF ConnectFails, Sound, CallsAlone, EndsOnce
  <2>. QED BY <2>1, <2>2, FailedSound
<1>3. CASE Lists(h)
  <2> DEFINE g == [gui EXCEPT !.shown = @ \cup {h}]
  <2>1. /\ g \in Gui
        /\ g.call = gui.call /\ g.hosts = gui.hosts /\ g.devices = gui.devices
        /\ g.paused = gui.paused /\ g.closing = gui.closing /\ g.tries = gui.tries
    BY <1>1 DEF Gui
  <2>2. gui' = Connected(g, h, Listing(h)) /\ gui.call[h] = "list"
    BY <1>3 DEF Lists, Fate
  <2>3. Listing(h) \in Conn
    BY <2>2, ListingIs
  <2> HIDE DEF g
  <2>4. Sound(g)
    BY <2>1, SameSound
  <2>. QED BY <2>1, <2>2, <2>3, <2>4, ConnectedSound
<1>4. CASE ListFails(h)
  <2>1. gui' = Close([Unlist(gui, h) EXCEPT !.call[h] = "ending"], Listing(h), "abort")
    BY <1>4 DEF ListFails, Fate
  <2>2. Sound(Unlist(gui, h)) /\ Unlist(gui, h).hosts[h] = None
        /\ Unlist(gui, h).call[h] # "ending"
    BY <1>1, <1>4, UnlistSound, SoundIsBut, UnlistEffect DEF ListFails
  <2>3. Listing(h) \in Conn /\ Listing(h)[1] = h
    BY <1>4, ListingIs DEF ListFails
  <2>. QED BY <2>1, <2>2, <2>3, EndSound DEF Enders
<1>5. CASE Retry(h)
  <2>1. Sound(clearRetry(gui, h))
    BY QuietSound
  <2>2. Sound(connectProfile(clearRetry(gui, h), h))
    BY <2>1, ConnectSound
  <2>. QED BY <1>5, <2>1, <2>2 DEF Retry, Fate
<1>. QED BY <1>2, <1>3, <1>4, <1>5, ConnectsSound DEF Await

LEMMA LostSound ==
  ASSUME HostsAssumption, Sound(gui), NEW conn \in gui.online, Lost(conn)
  PROVE  Sound(gui')
<1> DEFINE off == [gui EXCEPT !.online = @ \ {conn}]
<1>1. gui \in Gui /\ conn[1] \in Host
  BY DEF Sound, Gui, Conn
<1>2. /\ off \in Gui
      /\ off.call = gui.call /\ off.hosts = gui.hosts /\ off.devices = gui.devices
      /\ off.paused = gui.paused /\ off.closing = gui.closing /\ off.tries = gui.tries
  BY <1>1 DEF Gui
<1>3. gui' = IF conn \in gui.heard THEN Offline(off, conn[1]) ELSE off
  BY DEF Lost, Fate
<1> HIDE DEF off
<1>4. Sound(off)
  BY <1>2, SameSound
<1>. QED BY <1>1, <1>3, <1>4, OfflineSound

\* What a call of connectProfile awaited is over with it.
LEMMA ClosedSound ==
  ASSUME HostsAssumption, Sound(gui), NEW c \in gui.closing, Closed(c)
  PROVE  Sound(gui')
<1> DEFINE h == c.conn[1]
           off == [gui EXCEPT !.closing = @ \ {c}, !.online = @ \ {c.conn}]
           g == IF c.conn \in gui.heard THEN Offline(off, h) ELSE off
<1>1. gui \in Gui /\ h \in Host /\ c.then \in Thens
  BY DEF Sound, Gui, Conn
<1>2. /\ off \in Gui
      /\ off.call = gui.call /\ off.hosts = gui.hosts /\ off.devices = gui.devices
      /\ off.paused = gui.paused /\ off.closing = gui.closing \ {c} /\ off.tries = gui.tries
  BY <1>1 DEF Gui
<1>3. gui' = Then(g, h, c.then)
  BY DEF Closed, Fate
<1> HIDE DEF off, h
<1>4. Sound(off)
  BY <1>2 DEF Sound, TablesAgree, CallsAlone, PausedLists, ListsTried, EndsOnce
<1>5. Sound(g)
  BY <1>1, <1>4, OfflineSound
<1>6. ASSUME c.then \in Enders
      PROVE  g.hosts[h] = None /\ \A d \in g.closing : ~Ends(d, h)
  <2>1. Ends(c, h) /\ gui.call[h] = "ending"
    BY <1>1, <1>6 DEF Ends, h, Sound, EndsOnce
  <2>2. off.hosts[h] = None /\ \A d \in off.closing : ~Ends(d, h)
    BY <1>1, <1>2, <2>1 DEF Sound, CallsAlone, EndsOnce
  <2>3. Offline(off, h) = scheduleRetry(setRuntime(off, h, "offline"), h)
    BY <2>2 DEF Offline
  <2>4. /\ Offline(off, h).hosts = off.hosts
        /\ Offline(off, h).closing = off.closing
    BY <1>2, <2>3 DEF scheduleRetry, setRuntime, Gui
  <2>. QED BY <2>2, <2>4
<1> HIDE DEF g
<1>. QED BY <1>1, <1>3, <1>5, <1>6, ThenSound

LEMMA NextSound == HostsAssumption /\ Sound(gui) /\ [Next]_hostVars => Sound(gui')
<1> SUFFICES ASSUME HostsAssumption, Sound(gui), [Next]_hostVars PROVE Sound(gui')
  OBVIOUS
<1>1. CASE UNCHANGED hostVars
  BY <1>1 DEF hostVars
<1>2. CASE Next
  BY <1>2, UserSound, AwaitSound, LostSound, ClosedSound DEF Next
<1>. QED BY <1>1, <1>2

LEMMA SoundInvariant == HostsAssumption /\ Spec => []Sound(gui)
<1> SUFFICES ASSUME HostsAssumption PROVE Spec => []Sound(gui)
  OBVIOUS
<1>1. Init => Sound(gui)
  BY InitSound
<1>2. Sound(gui) /\ [Next]_hostVars => Sound(gui)'
  BY NextSound
<1>. QED BY <1>1, <1>2, PTL DEF Spec

-----------------------------------------------------------------------------
(* The theorems of every user.                                             *)

\* Neither failures nor clicks exceed their bounds.
Bounded == fails \in 0 .. MaxFails /\ clicks \in 0 .. MaxClicks

LEMMA InitBounded == HostsAssumption /\ Init => Bounded
  BY DEF Init, HostsAssumption, Bounded

LEMMA NextBounded == HostsAssumption /\ Bounded /\ [Next]_hostVars => Bounded'
<1> SUFFICES ASSUME HostsAssumption, Bounded, [Next]_hostVars PROVE Bounded'
  OBVIOUS
<1>1. ASSUME NEW failed, NEW g, Fate(failed, g) PROVE Bounded'
  BY <1>1 DEF Fate, HostsAssumption, Bounded
<1>2. ASSUME NEW h \in Host, NEW g, Click(h, g) PROVE Bounded'
  BY <1>2 DEF Click, HostsAssumption, Bounded
<1>3. ASSUME NEW h \in Host, User(h) PROVE Bounded'
  BY <1>2, <1>3 DEF User, Reconnect, Pause, Remove, SetTarget
<1>4. ASSUME NEW h \in Host, Await(h) PROVE Bounded'
  BY <1>1, <1>4 DEF Await, Connects, ConnectFails, Lists, ListFails, Retry
<1>5. ASSUME NEW conn \in gui.online, Lost(conn) PROVE Bounded'
  BY <1>1, <1>5 DEF Lost
<1>6. ASSUME NEW c \in gui.closing, Closed(c) PROVE Bounded'
  BY <1>1, <1>6 DEF Closed
<1>7. CASE UNCHANGED hostVars
  BY <1>7 DEF hostVars, Bounded
<1>. QED BY <1>3, <1>4, <1>5, <1>6, <1>7 DEF Next

LEMMA SoundTyped == Sound(gui) /\ Bounded => TypeOK
  BY DEF Sound, Bounded, TypeOK

\* Every reachable state of the GUI is well typed.
THEOREM TypeCorrect == HostsAssumption /\ Spec => []TypeOK
<1> SUFFICES ASSUME HostsAssumption PROVE Spec => []TypeOK
  OBVIOUS
<1>. QED BY SoundInvariant, InitBounded, NextBounded, SoundTyped, PTL DEF Spec

LEMMA SoundUnique == Sound(gui) => OneHostPerDevice
  BY DEF Sound, TablesAgree, OneHostPerDevice

\* Whatever connects, is lost, retried, paused or removed in whatever order, one
\* machine is attached through one host at a time and the tables agree.
THEOREM DevicesUnique == HostsAssumption /\ Spec => []OneHostPerDevice
<1>. QED BY SoundUnique, SoundInvariant, PTL

-----------------------------------------------------------------------------
(* What a removed host leaves behind, for a user who waits for the         *)
(* connections of a host to close before acting on it again.               *)

Marked(g, h) == h \in g.paused /\ h \in g.forgotten

\* A host that is removed, or about to be, is marked; its workspaces are listed
\* only while a call that found the mark takes its connection back.
Gone(g) ==
  /\ \A h \in Host : h \notin g.profiles => Marked(g, h)
  /\ \A c \in g.closing : c.then = "remove" => Marked(g, c.conn[1])
  /\ \A h \in Host : h \notin g.profiles /\ h \in g.shown =>
       \E c \in g.closing : c.conn[1] = h /\ c.then = "undo"

\* What most operators do: no host, no mark and no awaited disconnect goes, no
\* workspaces are listed and nothing new is removed.
Steady(g, k) ==
  /\ g \in Gui /\ k \in Gui
  /\ k.profiles = g.profiles /\ k.forgotten = g.forgotten
  /\ g.paused \subseteq k.paused /\ k.shown \subseteq g.shown
  /\ g.closing \subseteq k.closing
  /\ \A c \in k.closing \ g.closing : c.then # "remove"

LEMMA SteadyGone ==
  ASSUME NEW g, NEW k, Gone(g), Steady(g, k)
  PROVE  Gone(k)
<1>1. \A h \in Host : Marked(g, h) => Marked(k, h)
  BY DEF Steady, Marked
<1>2. \A c \in k.closing : c.then = "remove" => c \in g.closing
  BY DEF Steady
<1>3. \A h \in Host : h \notin k.profiles => Marked(k, h)
  BY <1>1 DEF Gone, Steady
<1>4. \A c \in k.closing : c.then = "remove" => Marked(k, c.conn[1])
  <2> SUFFICES ASSUME NEW c \in k.closing, c.then = "remove" PROVE Marked(k, c.conn[1])
    OBVIOUS
  <2>1. Marked(g, c.conn[1])
    BY <1>2 DEF Gone
  <2>. QED BY <2>1 DEF Steady, Marked
<1>5. \A h \in Host : h \notin k.profiles /\ h \in k.shown =>
        \E c \in k.closing : c.conn[1] = h /\ c.then = "undo"
  BY DEF Gone, Steady
<1>. QED BY <1>3, <1>4, <1>5 DEF Gone

LEMMA SteadyTransitive ==
  ASSUME NEW g, NEW k, NEW m, Steady(g, k), Steady(k, m)
  PROVE  Steady(g, m)
  BY DEF Steady

LEMMA QuietSteady ==
  ASSUME NEW g \in Gui, NEW h \in Host
  PROVE  /\ \A s \in {"offline", "connecting", "online", "error"} : Steady(g, setRuntime(g, h, s))
         /\ Steady(g, clearRetry(g, h)) /\ Steady(g, scheduleRetry(g, h))
         /\ \A s \in Calls : Steady(g, [g EXCEPT !.call[h] = s])
         /\ \A i : Steady(g, Forget(g, i))
<1>1. \A s \in {"offline", "connecting", "online", "error"} : Steady(g, setRuntime(g, h, s))
  BY SetRuntimeType DEF Steady, setRuntime, Gui
<1>2. Steady(g, clearRetry(g, h)) /\ Steady(g, scheduleRetry(g, h))
  BY TimerType DEF Steady, clearRetry, scheduleRetry, Gui
<1>3. \A s \in Calls : Steady(g, [g EXCEPT !.call[h] = s])
  BY EndingType DEF Steady, Gui
<1>4. \A i : Steady(g, Forget(g, i))
  BY ForgetType DEF Steady, Forget, Gui
<1>. QED BY <1>1, <1>2, <1>3, <1>4

LEMMA CloseSteady ==
  ASSUME NEW g \in Gui, NEW conn \in Conn, NEW then \in Thens \ {"remove"}
  PROVE  Steady(g, Close(g, conn, then))
<1>1. Close(g, conn, then) \in Gui
  BY CloseType
<1>. QED BY <1>1, CloseEffect DEF Steady

LEMMA UnlistSteady ==
  ASSUME HostsAssumption, NEW g \in Gui, NEW h \in Host
  PROVE  Steady(g, Unlist(g, h))
  BY UnlistType, UnlistEffect DEF Steady

LEMMA OfflineSteady ==
  ASSUME HostsAssumption, NEW g \in Gui, NEW h \in Host
  PROVE  Steady(g, Offline(g, h))
<1> DEFINE off == setRuntime(g, h, "offline")
<1>1. Steady(g, off) /\ off \in Gui
  BY QuietSteady, SetRuntimeType
<1> HIDE DEF off
<1>2. CASE g.hosts[h] = None
  <2>1. Steady(off, scheduleRetry(off, h))
    BY <1>1, QuietSteady
  <2>. QED BY <1>1, <1>2, <2>1, SteadyTransitive DEF Offline, off
<1>3. CASE g.hosts[h] # None
  <2>1. Steady(off, Unlist(off, h)) /\ Unlist(off, h) \in Gui /\ g.hosts[h] \in Conn
    BY <1>1, <1>3, UnlistSteady, UnlistType DEF Gui
  <2>2. Steady(Unlist(off, h), Close(Unlist(off, h), g.hosts[h], "retry"))
    BY <2>1, CloseSteady DEF Thens
  <2>3. Steady(g, Close(Unlist(off, h), g.hosts[h], "retry"))
    BY <1>1, <2>1, <2>2, SteadyTransitive
  <2>. QED BY <1>3, <2>3 DEF Offline, off
<1>. QED BY <1>2, <1>3

\* A call that ends with a disconnect which it awaits.
LEMMA EndSteady ==
  ASSUME HostsAssumption, NEW g \in Gui, NEW h \in Host, NEW conn \in Conn, NEW then \in Enders
  PROVE  Steady(g, Close([g EXCEPT !.call[h] = "ending"], conn, then))
<1> DEFINE m == [g EXCEPT !.call[h] = "ending"]
<1>1. m \in Gui /\ Steady(g, m)
  BY EndingType, QuietSteady DEF Calls
<1> HIDE DEF m
<1>2. Steady(m, Close(m, conn, then))
  BY <1>1, CloseSteady DEF Enders, Thens
<1>3. Steady(g, Close(m, conn, then))
  BY <1>1, <1>2, SteadyTransitive
<1>. QED BY <1>3 DEF m

LEMMA ConnectedSteady ==
  ASSUME HostsAssumption, NEW g \in Gui, NEW h \in Host, NEW conn \in Conn
  PROVE  Steady(g, Connected(g, h, conn))
<1>1. g.hosts[h] # None => g.hosts[h] \in Conn
  BY DEF Gui
<1>2. CASE h \in g.paused /\ g.hosts[h] # None
  <2>1. Steady(g, Unlist(g, h)) /\ Unlist(g, h) \in Gui
    BY UnlistSteady, UnlistType
  <2>2. Steady(Unlist(g, h),
               Close([Unlist(g, h) EXCEPT !.call[h] = "ending"], g.hosts[h], "undo"))
    BY <1>1, <1>2, <2>1, EndSteady DEF Enders
  <2>3. Steady(g, Close([Unlist(g, h) EXCEPT !.call[h] = "ending"], g.hosts[h], "undo"))
    BY <2>1, <2>2, SteadyTransitive
  <2>. QED BY <1>2, <2>3 DEF Connected
<1>3. CASE h \in g.paused /\ g.hosts[h] = None
  <2> DEFINE over == [g EXCEPT !.call[h] = "idle"]
  <2>1. Steady(g, over) /\ over \in Gui
    BY QuietSteady, EndingType DEF Calls
  <2>2. Connected(g, h, conn) = Forget(over, IF h \in g.forgotten THEN h ELSE None)
    BY <1>3 DEF Connected
  <2> HIDE DEF over
  <2>. QED BY <2>1, <2>2, QuietSteady, SteadyTransitive
<1>4. CASE h \notin g.paused
  <2> DEFINE up == [setRuntime(g, h, "online") EXCEPT !.heard = @ \cup {conn},
                                                      !.call[h] = "idle"]
  <2>1. Steady(g, up) /\ up \in Gui
    <3>1. setRuntime(g, h, "online") \in Gui /\ Steady(g, setRuntime(g, h, "online"))
      BY SetRuntimeType, QuietSteady
    <3>2. ASSUME NEW a \in Gui
          PROVE  Steady(a, [a EXCEPT !.heard = @ \cup {conn}, !.call[h] = "idle"])
      <4>1. [a EXCEPT !.heard = @ \cup {conn}, !.call[h] = "idle"] \in Gui
        BY <1>1 DEF Gui, Calls
      <4>. QED BY <4>1 DEF Steady, Gui
    <3>3. Steady(g, up)
      BY <3>1, <3>2, SteadyTransitive
    <3>. QED BY <3>3 DEF Steady
  <2> HIDE DEF up
  <2>2. Steady(g, Offline(up, h))
    BY <2>1, OfflineSteady, SteadyTransitive
  <2>. QED BY <1>4, <2>1, <2>2 DEF Connected, up
<1>. QED BY <1>2, <1>3, <1>4

LEMMA FailedSteady ==
  ASSUME NEW g \in Gui, NEW h \in Host, NEW permanent \in BOOLEAN
  PROVE  Steady(g, Failed(g, h, permanent))
<1> DEFINE over == [g EXCEPT !.call[h] = "idle"]
           told == setRuntime(over, h, "error")
<1>1. Steady(g, over) /\ over \in Gui
  BY QuietSteady, EndingType DEF Calls
<1> HIDE DEF over
<1>2. Steady(over, told) /\ told \in Gui
  BY <1>1, QuietSteady, SetRuntimeType
<1> HIDE DEF told
<1>3. Steady(told, scheduleRetry(told, h))
  BY <1>2, QuietSteady
<1>4. Steady(told, [told EXCEPT !.paused = @ \cup {h}])
  BY <1>2 DEF Steady, Gui
<1>5. Steady(g, told)
  BY <1>1, <1>2, SteadyTransitive
<1>6. Steady(g, scheduleRetry(told, h)) /\ Steady(g, [told EXCEPT !.paused = @ \cup {h}])
  BY <1>3, <1>4, <1>5, SteadyTransitive
<1>. QED BY <1>1, <1>6 DEF Failed, over, told

LEMMA ConnectSteady ==
  ASSUME HostsAssumption, NEW g \in Gui, NEW h \in Host
  PROVE  Steady(g, connectProfile(g, h))
<1> DEFINE cleared == clearRetry(g, h)
           trying == setRuntime(cleared, h, "connecting")
<1>1. Steady(g, g) /\ Steady(g, setRuntime(g, h, "error"))
  BY QuietSteady DEF Steady
<1>2. Steady(g, trying) /\ trying \in Gui /\ trying.hosts = g.hosts
  <2>1. cleared \in Gui /\ Steady(g, cleared) /\ cleared.hosts = g.hosts
    BY TimerType, QuietSteady DEF clearRetry, Gui
  <2> HIDE DEF cleared
  <2>2. Steady(cleared, trying) /\ trying \in Gui
    BY <2>1, QuietSteady, SetRuntimeType
  <2>3. trying.hosts = cleared.hosts
    BY <2>1 DEF setRuntime, Gui
  <2>. QED BY <2>1, <2>2, <2>3, SteadyTransitive
<1> HIDE DEF trying
<1>3. Steady(g, [trying EXCEPT !.call[h] = "connect"])
  BY <1>2, QuietSteady, SteadyTransitive DEF Calls
<1>4. g.hosts[h] # None => Steady(g, Connected(trying, h, g.hosts[h]))
  <2>1. g.hosts[h] # None => g.hosts[h] \in Conn
    BY DEF Gui
  <2>. QED BY <1>2, <2>1, ConnectedSteady, SteadyTransitive
<1>. QED BY <1>1, <1>3, <1>4 DEF connectProfile, trying

LEMMA ThenSteady ==
  ASSUME HostsAssumption, NEW g \in Gui, NEW h \in Host, NEW then \in Thens \ {"remove"}
  PROVE  Steady(g, Then(g, h, then))
<1>1. CASE then \in {"retry", "pause"}
  BY <1>1, QuietSteady DEF Then
<1>2. CASE then = "reconnect"
  <2>1. Steady(g, g)
    BY DEF Steady
  <2>. QED BY <1>2, <2>1, ConnectSteady DEF Then
<1>3. CASE then \in {"duplicate", "abort"}
  BY <1>3, FailedSteady DEF Then
<1>4. CASE then = "undo"
  <2> DEFINE m == [g EXCEPT !.call[h] = "idle"]
  <2>1. Steady(g, m) /\ m \in Gui
    BY QuietSteady, EndingType DEF Calls
  <2> HIDE DEF m
  <2>2. Steady(g, Forget(m, h))
    BY <2>1, QuietSteady, SteadyTransitive
  <2>. QED BY <1>4, <2>1, <2>2 DEF Then, m
<1>. QED BY <1>1, <1>2, <1>3, <1>4 DEF Thens

LEMMA DisconnectSteady ==
  ASSUME HostsAssumption, NEW g \in Gui, NEW h \in Host, NEW then \in Thens \ {"remove"}
  PROVE  Steady(g, Disconnect(g, h, then))
<1>1. CASE g.hosts[h] = None
  BY <1>1, ThenSteady DEF Disconnect
<1>2. CASE g.hosts[h] # None
  <2>1. Steady(g, Unlist(g, h)) /\ Unlist(g, h) \in Gui /\ g.hosts[h] \in Conn
    BY <1>2, UnlistSteady, UnlistType DEF Gui
  <2>2. Steady(g, Close(Unlist(g, h), g.hosts[h], then))
    BY <2>1, CloseSteady, SteadyTransitive
  <2>. QED BY <1>2, <2>2 DEF Disconnect
<1>. QED BY <1>1, <1>2

\* The click that removes h marks it; what it awaits is marked too.
LEMMA RemoveGone ==
  ASSUME HostsAssumption, Sound(gui), Gone(gui), NEW h \in Host, Remove(h)
  PROVE  Gone(gui')
<1> DEFINE m == [gui EXCEPT !.paused = @ \cup {h}, !.forgotten = @ \cup {h}]
           g == clearRetry(m, h)
<1>1. gui \in Gui
  BY DEF Sound
<1>2. /\ g \in Gui /\ g.profiles = gui.profiles /\ g.shown = gui.shown
      /\ g.closing = gui.closing /\ g.hosts = gui.hosts
      /\ g.paused = gui.paused \cup {h} /\ g.forgotten = gui.forgotten \cup {h}
  BY <1>1 DEF clearRetry, Gui
<1>3. gui' = Disconnect(g, h, "remove")
  BY DEF Remove, Click
<1> HIDE DEF g, m
<1>4. Gone(g)
  BY <1>2 DEF Gone, Marked
<1>5. CASE g.hosts[h] = None
  <2> DEFINE f == Forget(g, h)
             d == [f EXCEPT !.profiles = @ \ {h}]
  <2>1. gui' = setRuntime(d, h, "offline")
    BY <1>3, <1>5 DEF Disconnect, Then
  <2>2. /\ d \in Gui /\ d.profiles = g.profiles \ {h} /\ d.shown = g.shown \ {h}
        /\ d.closing = g.closing /\ d.paused = g.paused /\ d.forgotten = g.forgotten
    BY <1>2 DEF Forget, Gui
  <2> HIDE DEF d
  <2>3. Gone(d)
    BY <1>2, <1>4, <2>2 DEF Gone, Marked
  <2>. QED BY <2>1, <2>2, <2>3, QuietSteady, SteadyGone
<1>6. CASE g.hosts[h] # None
  <2> DEFINE u == Unlist(g, h)
             k == Close(u, g.hosts[h], "remove")
  <2>1. gui' = k
    BY <1>3, <1>6 DEF Disconnect
  <2>2. u \in Gui /\ Gone(u) /\ u.paused = g.paused /\ u.forgotten = g.forgotten
    BY <1>2, <1>4, UnlistType, UnlistSteady, UnlistEffect, SteadyGone
  <2> HIDE DEF u
  <2>3. /\ k.paused = u.paused /\ k.shown = u.shown
        /\ k.profiles = u.profiles /\ k.forgotten = u.forgotten
        /\ k.closing = u.closing \cup {[conn |-> g.hosts[h], then |-> "remove"]}
    BY <2>2, CloseEffect
  <2>4. g.hosts[h][1] = h
    BY <1>2, <1>6 DEF Sound, TablesAgree
  <2> HIDE DEF k
  <2>5. Marked(k, h)
    BY <1>2, <2>2, <2>3 DEF Marked
  <2>6. \A i \in Host : i \notin k.profiles => Marked(k, i)
    BY <2>2, <2>3 DEF Gone, Marked
  <2>7. \A c \in k.closing : c.then = "remove" => Marked(k, c.conn[1])
    <3> SUFFICES ASSUME NEW c \in k.closing, c.then = "remove" PROVE Marked(k, c.conn[1])
      OBVIOUS
    <3>1. CASE c \in u.closing
      BY <2>2, <2>3, <3>1 DEF Gone, Marked
    <3>2. CASE c = [conn |-> g.hosts[h], then |-> "remove"]
      BY <2>4, <2>5, <3>2
    <3>. QED BY <2>3, <3>1, <3>2
  <2>8. \A i \in Host : i \notin k.profiles /\ i \in k.shown =>
          \E c \in k.closing : c.conn[1] = i /\ c.then = "undo"
    BY <2>2, <2>3 DEF Gone
  <2>. QED BY <2>1, <2>6, <2>7, <2>8 DEF Gone
<1>. QED BY <1>5, <1>6

\* Resuming h takes its marks: nothing of it is being removed.
LEMMA UserGone ==
  ASSUME HostsAssumption, ~Hasty, Sound(gui), Gone(gui), NEW h \in Host, User(h)
  PROVE  Gone(gui')
<1>1. gui \in Gui
  BY DEF Sound
<1>2. CASE Reconnect(h)
  <2> DEFINE g == clearRetry([gui EXCEPT !.paused = @ \ {h}, !.forgotten = @ \ {h}], h)
  <2>1. /\ g \in Gui /\ g.profiles = gui.profiles /\ g.shown = gui.shown
        /\ g.closing = gui.closing
        /\ g.paused = gui.paused \ {h} /\ g.forgotten = gui.forgotten \ {h}
    BY <1>1 DEF clearRetry, Gui
  <2>2. /\ gui' = Disconnect(g, h, "reconnect")
        /\ h \in gui.profiles /\ \A c \in gui.closing : c.conn[1] # h
    BY <1>2 DEF Reconnect, Click, Calm
  <2> HIDE DEF g
  <2>3. Gone(g)
    BY <2>1, <2>2 DEF Gone, Marked
  <2>. QED BY <2>1, <2>2, <2>3, DisconnectSteady, SteadyGone DEF Thens
<1>3. CASE Pause(h)
  <2> DEFINE g == clearRetry([gui EXCEPT !.paused = @ \cup {h}], h)
  <2>1. g \in Gui /\ Steady(gui, g)
    BY <1>1 DEF Steady, clearRetry, Gui
  <2>2. gui' = Disconnect(g, h, "pause")
    BY <1>3 DEF Pause, Click
  <2> HIDE DEF g
  <2>. QED BY <2>1, <2>2, DisconnectSteady, SteadyGone DEF Thens
<1>4. CASE Remove(h)
  BY <1>4, RemoveGone
<1>5. CASE SetTarget(h)
  <2>1. gui' = [gui EXCEPT !.target = @ \cup {h}]
    BY <1>5 DEF SetTarget, Click
  <2>2. Steady(gui, gui')
    BY <1>1, <2>1 DEF Steady, Gui
  <2>. QED BY <2>2, SteadyGone
<1>. QED BY <1>2, <1>3, <1>4, <1>5 DEF User

\* The workspaces of a host that was removed meanwhile are listed: its connection
\* is taken back, and if it is closing already they go at once.
LEMMA ListsGone ==
  ASSUME HostsAssumption, Sound(gui), Gone(gui), NEW h \in Host, Lists(h)
  PROVE  Gone(gui')
<1> DEFINE g == [gui EXCEPT !.shown = @ \cup {h}]
<1>1. gui \in Gui
  BY DEF Sound
<1>2. /\ g \in Gui /\ g.profiles = gui.profiles /\ g.shown = gui.shown \cup {h}
      /\ g.closing = gui.closing /\ g.hosts = gui.hosts
      /\ g.paused = gui.paused /\ g.forgotten = gui.forgotten
  BY <1>1 DEF Gui
<1>3. gui' = Connected(g, h, Listing(h)) /\ Listing(h) \in Conn
  BY ListingIs DEF Lists, Fate
<1> HIDE DEF g
<1>4. CASE h \in gui.profiles
  <2>1. Gone(g)
    BY <1>2, <1>4 DEF Gone, Marked
  <2>. QED BY <1>2, <1>3, <2>1, ConnectedSteady, SteadyGone
<1>5. CASE h \notin gui.profiles /\ g.hosts[h] = None
  <2> DEFINE m == [g EXCEPT !.call[h] = "idle"]
             k == Forget(m, h)
  <2>1. h \in g.paused /\ h \in g.forgotten
    BY <1>2, <1>5 DEF Gone, Marked
  <2>2. gui' = k
    BY <1>3, <1>5, <2>1 DEF Connected
  <2>3. /\ m \in Gui /\ m.profiles = g.profiles /\ m.shown = g.shown
        /\ m.closing = g.closing /\ m.paused = g.paused /\ m.forgotten = g.forgotten
    <3>1. m \in Gui
      BY <1>2, EndingType DEF Calls
    <3>. QED BY <1>2, <3>1, CallEffect
  <2> HIDE DEF m
  <2>4. /\ k.profiles = m.profiles /\ k.shown = m.shown \ {h}
        /\ k.closing = m.closing /\ k.paused = m.paused /\ k.forgotten = m.forgotten
    BY <2>3 DEF Forget, Gui
  <2> HIDE DEF k
  <2>. QED BY <1>2, <2>2, <2>3, <2>4 DEF Gone, Marked
<1>6. CASE h \notin gui.profiles /\ g.hosts[h] # None
  <2> DEFINE new == [conn |-> g.hosts[h], then |-> "undo"]
             u == Unlist(g, h)
             m == [u EXCEPT !.call[h] = "ending"]
             k == Close(m, g.hosts[h], "undo")
  <2>1. h \in g.paused
    BY <1>2, <1>6 DEF Gone, Marked
  <2>2. gui' = k
    BY <1>3, <1>6, <2>1 DEF Connected
  <2>3. /\ u \in Gui /\ u.profiles = g.profiles /\ u.shown = g.shown
        /\ u.closing = g.closing /\ u.paused = g.paused /\ u.forgotten = g.forgotten
    BY <1>2, UnlistType, UnlistEffect
  <2> HIDE DEF u
  <2>4. /\ m \in Gui /\ m.profiles = u.profiles /\ m.shown = u.shown
        /\ m.closing = u.closing /\ m.paused = u.paused /\ m.forgotten = u.forgotten
    <3>1. m \in Gui
      BY <2>3, EndingType DEF Calls
    <3>. QED BY <2>3, <3>1, CallEffect
  <2> HIDE DEF m
  <2>5. /\ k.profiles = m.profiles /\ k.shown = m.shown /\ k.closing = m.closing \cup {new}
        /\ k.paused = m.paused /\ k.forgotten = m.forgotten
    BY <2>4, CloseEffect
  <2>6. new.conn[1] = h /\ new.then = "undo"
    BY <1>2, <1>6 DEF Sound, TablesAgree
  <2> HIDE DEF k, new
  <2>7. \A i \in Host : i \notin k.profiles => Marked(k, i)
    BY <1>2, <2>3, <2>4, <2>5 DEF Gone, Marked
  <2>8. \A c \in k.closing : c.then = "remove" => Marked(k, c.conn[1])
    BY <1>2, <2>3, <2>4, <2>5, <2>6 DEF Gone, Marked
  <2>9. \A i \in Host : i \notin k.profiles /\ i \in k.shown =>
          \E c \in k.closing : c.conn[1] = i /\ c.then = "undo"
    BY <1>2, <2>3, <2>4, <2>5, <2>6 DEF Gone
  <2>. QED BY <2>2, <2>7, <2>8, <2>9 DEF Gone
<1>. QED BY <1>4, <1>5, <1>6

LEMMA AwaitGone ==
  ASSUME HostsAssumption, Sound(gui), Gone(gui), NEW h \in Host, Await(h)
  PROVE  Gone(gui')
<1>1. gui \in Gui
  BY DEF Sound
<1>2. CASE Connects(h)
  <2> DEFINE conn == <<h, gui.tries[h] + 1>>
             g == [gui EXCEPT !.tries[h] = @ + 1, !.online = @ \cup {conn}]
             k == [g EXCEPT !.call[h] = "list", !.hosts[h] = conn, !.devices[DeviceOf[h]] = h]
  <2>1. Sound(gui') /\ gui' \in Gui
    BY <1>2, ConnectsSound DEF Sound
  <2>2. \/ gui' = k
        \/ gui' = Close([g EXCEPT !.call[h] = "ending"], conn, "duplicate")
    BY <1>2 DEF Connects, Fate
  <2>3. /\ k.profiles = gui.profiles /\ k.shown = gui.shown /\ k.closing = gui.closing
        /\ k.paused = gui.paused /\ k.forgotten = gui.forgotten
    BY <1>1 DEF Gui
  <2>4. LET d == Close([g EXCEPT !.call[h] = "ending"], conn, "duplicate") IN
        /\ d.profiles = gui.profiles /\ d.shown = gui.shown
        /\ d.closing = gui.closing \cup {[conn |-> conn, then |-> "duplicate"]}
        /\ d.paused = gui.paused /\ d.forgotten = gui.forgotten
    BY <1>1 DEF Gui, Close
  <2>5. Steady(gui, gui')
    <3> HIDE DEF k, g, conn
    <3>1. CASE gui' = k
      BY <1>1, <2>1, <2>3, <3>1 DEF Steady
    <3>2. CASE gui' = Close([g EXCEPT !.call[h] = "ending"], conn, "duplicate")
      BY <1>1, <2>1, <2>4, <3>2 DEF Steady
    <3>. QED BY <2>2, <3>1, <3>2
  <2>. QED BY <2>5, SteadyGone
<1>3. CASE ConnectFails(h)
  <2>1. PICK permanent \in BOOLEAN : gui' = Failed(gui, h, permanent)
    BY <1>3 DEF ConnectFails, Fate
  <2>. QED BY <1>1, <2>1, FailedSteady, SteadyGone
<1>4. CASE ListFails(h)
  <2>1. gui' = Close([Unlist(gui, h) EXCEPT !.call[h] = "ending"], Listing(h), "abort")
    BY <1>4 DEF ListFails, Fate
  <2>2. Listing(h) \in Conn
    BY <1>4, ListingIs DEF ListFails
  <2>3. Steady(gui, Unlist(gui, h)) /\ Unlist(gui, h) \in Gui
    BY <1>1, UnlistSteady, UnlistType
  <2>4. Steady(Unlist(gui, h), gui')
    BY <2>1, <2>2, <2>3, EndSteady DEF Enders
  <2>. QED BY <2>3, <2>4, SteadyTransitive, SteadyGone
<1>5. CASE Retry(h)
  <2> DEFINE g == clearRetry(gui, h)
  <2>1. Steady(gui, g) /\ g \in Gui
    BY <1>1, QuietSteady, TimerType
  <2>2. gui' = connectProfile(g, h) \/ gui' = g
    BY <1>5 DEF Retry, Fate
  <2> HIDE DEF g
  <2>3. Steady(g, connectProfile(g, h))
    BY <2>1, ConnectSteady
  <2>. QED BY <2>1, <2>2, <2>3, SteadyTransitive, SteadyGone
<1>. QED BY <1>2, <1>3, <1>4, <1>5, ListsGone DEF Await

LEMMA LostGone ==
  ASSUME HostsAssumption, Sound(gui), Gone(gui), NEW conn \in gui.online, Lost(conn)
  PROVE  Gone(gui')
<1> DEFINE off == [gui EXCEPT !.online = @ \ {conn}]
<1>1. gui \in Gui /\ conn[1] \in Host
  BY DEF Sound, Gui, Conn
<1>2. Steady(gui, off) /\ off \in Gui
  BY <1>1 DEF Steady, Gui
<1>3. gui' = IF conn \in gui.heard THEN Offline(off, conn[1]) ELSE off
  BY DEF Lost, Fate
<1> HIDE DEF off
<1>4. Steady(off, Offline(off, conn[1]))
  BY <1>1, <1>2, OfflineSteady
<1>. QED BY <1>2, <1>3, <1>4, SteadyTransitive, SteadyGone

\* A disconnect has come back: the removal is done, or a connection is taken back
\* and the workspaces that were listed on it go.
LEMMA ClosedGone ==
  ASSUME HostsAssumption, Sound(gui), Gone(gui), NEW c \in gui.closing, Closed(c)
  PROVE  Gone(gui')
<1> DEFINE h == c.conn[1]
           off == [gui EXCEPT !.closing = @ \ {c}, !.online = @ \ {c.conn}]
           g == IF c.conn \in gui.heard THEN Offline(off, h) ELSE off
<1>1. gui \in Gui /\ h \in Host /\ c.then \in Thens
  BY DEF Sound, Gui, Conn
<1>2. /\ off \in Gui /\ off.profiles = gui.profiles /\ off.shown = gui.shown
      /\ off.closing = gui.closing \ {c}
      /\ off.paused = gui.paused /\ off.forgotten = gui.forgotten
  BY <1>1 DEF Gui
<1>3. gui' = Then(g, h, c.then)
  BY DEF Closed, Fate
<1> HIDE DEF off, h
<1>4. Steady(off, g) /\ g \in Gui
  <2>1. Steady(off, off)
    BY <1>2 DEF Steady
  <2>2. Steady(off, g)
    BY <1>1, <1>2, <2>1, OfflineSteady
  <2>. QED BY <2>2 DEF Steady
<1> HIDE DEF g
<1>5. CASE c.then = "undo"
  <2> DEFINE m == [g EXCEPT !.call[h] = "idle"]
             k == IF h \in m.forgotten THEN Forget(m, h) ELSE m
  <2>1. Steady(off, m) /\ m \in Gui
    BY <1>1, <1>4, QuietSteady, EndingType, SteadyTransitive DEF Calls
  <2>2. m.forgotten = g.forgotten
    BY <1>1, <1>4, CallEffect
  <2>3. gui' = k
    BY <1>3, <1>5, <2>2 DEF Then
  <2> HIDE DEF m
  <2>4. Steady(off, k)
    BY <1>1, <2>1, QuietSteady, SteadyTransitive
  <2>5. h \in k.forgotten => h \notin k.shown
    BY <2>1 DEF Forget, Gui
  <2> HIDE DEF k
  <2>6. \A i \in Host : i \notin k.profiles => Marked(k, i)
    BY <1>2, <2>4 DEF Gone, Marked, Steady
  <2>7. \A d \in k.closing : d.then = "remove" => Marked(k, d.conn[1])
    <3> SUFFICES ASSUME NEW d \in k.closing, d.then = "remove" PROVE Marked(k, d.conn[1])
      OBVIOUS
    <3>1. d \in gui.closing
      BY <1>2, <2>4 DEF Steady
    <3>2. Marked(gui, d.conn[1])
      BY <3>1 DEF Gone
    <3>. QED BY <1>2, <2>4, <3>2 DEF Marked, Steady
  <2>8. \A i \in Host : i \notin k.profiles /\ i \in k.shown =>
          \E d \in k.closing : d.conn[1] = i /\ d.then = "undo"
    <3> SUFFICES ASSUME NEW i \in Host, i \notin k.profiles, i \in k.shown
                 PROVE  \E d \in k.closing : d.conn[1] = i /\ d.then = "undo"
      OBVIOUS
    <3>1. i # h
      BY <2>5, <2>6 DEF Marked
    <3>2. i \notin gui.profiles /\ i \in gui.shown
      BY <1>2, <2>4 DEF Steady
    <3>3. PICK d \in gui.closing : d.conn[1] = i /\ d.then = "undo"
      BY <3>2 DEF Gone
    <3>4. d \in k.closing
      BY <1>2, <2>4, <3>1, <3>3 DEF Steady, h
    <3>. QED BY <3>3, <3>4
  <2>. QED BY <2>3, <2>6, <2>7, <2>8 DEF Gone
<1>6. ASSUME c.then # "undo" PROVE Gone(g)
  <2>1. \A i \in Host : i \notin off.profiles => Marked(off, i)
    BY <1>2 DEF Gone, Marked
  <2>2. \A d \in off.closing : d.then = "remove" => Marked(off, d.conn[1])
    BY <1>2 DEF Gone, Marked
  <2>3. \A i \in Host : i \notin off.profiles /\ i \in off.shown =>
          \E d \in off.closing : d.conn[1] = i /\ d.then = "undo"
    BY <1>2, <1>6 DEF Gone
  <2>. QED BY <1>4, <2>1, <2>2, <2>3, SteadyGone DEF Gone
<1>7. CASE c.then = "remove"
  <2> DEFINE f == Forget(g, h)
             d == [f EXCEPT !.profiles = @ \ {h}]
  <2>1. gui' = setRuntime(d, h, "offline")
    BY <1>3, <1>7 DEF Then
  <2>2. /\ d \in Gui /\ d.profiles = g.profiles \ {h} /\ d.shown = g.shown \ {h}
        /\ d.closing = g.closing /\ d.paused = g.paused /\ d.forgotten = g.forgotten
    BY <1>4 DEF Forget, Gui
  <2>3. Marked(g, h)
    <3>1. Marked(gui, h)
      BY <1>7 DEF Gone, h
    <3>. QED BY <1>2, <1>4, <3>1 DEF Marked, Steady
  <2> HIDE DEF d
  <2>4. Gone(d)
    BY <1>6, <1>7, <2>2, <2>3 DEF Gone, Marked
  <2>. QED BY <1>1, <2>1, <2>2, <2>4, QuietSteady, SteadyGone
<1>8. CASE c.then \notin {"undo", "remove"}
  BY <1>1, <1>3, <1>4, <1>6, <1>8, ThenSteady, SteadyGone
<1>. QED BY <1>5, <1>7, <1>8

LEMMA InitGone == Init => Gone(gui)
  BY DEF Init, Gone

LEMMA NextGone ==
  ASSUME HostsAssumption, ~Hasty, Sound(gui), Gone(gui), [Next]_hostVars
  PROVE  Gone(gui')
<1>1. CASE UNCHANGED hostVars
  BY <1>1 DEF hostVars
<1>2. CASE Next
  BY <1>2, UserGone, AwaitGone, LostGone, ClosedGone DEF Next
<1>. QED BY <1>1, <1>2

LEMMA GoneStops == Sound(gui) /\ Gone(gui) => StoppedIsStopped
  BY DEF Sound, PausedLists, Gone, StoppedIsStopped, Calm

\* What the user paused or removed is, once nothing of it is under way, not
\* connected, and of a removed host no workspace is listed: however connecting,
\* listing, retrying and closing overlapped the clicks.
THEOREM StoppedHostsStop == HostsAssumption /\ ~Hasty /\ Spec => []StoppedIsStopped
<1> SUFFICES ASSUME HostsAssumption, ~Hasty PROVE Spec => []StoppedIsStopped
  OBVIOUS
<1>1. Spec => []Sound(gui)
  BY SoundInvariant
<1>2. Sound(gui) /\ Gone(gui) /\ [Next]_hostVars => Gone(gui)'
  BY NextGone
<1>. QED BY <1>1, <1>2, InitGone, GoneStops, PTL DEF Spec

-----------------------------------------------------------------------------
(* Workspace list                                                          *)

Workspace == [id : Nat \ {0}, host : Host, pinned : BOOLEAN]

\* A list in which no id occurs twice.
WellList(list) ==
  list \in Seq(Workspace) /\ \A i, j \in DOMAIN list : list[i].id = list[j].id => i = j

\* What a list shows of which host.
Pair(w) == <<w.id, w.host>>

Shown(list) == {Pair(list[i]) : i \in DOMAIN list}

IdsOf(list) == {list[i].id : i \in DOMAIN list}

Task == [id : Nat \ {0}, host : Host, op : {"create", "delete"}]

\* What a list shows of an id is its home, and the active one is one of the list.
Truthful(list, home) == \A x \in Shown(list) : home[x[1]] = x[2]

ActiveIn(list, act) == (act = None <=> list = <<>>) /\ (act # None => act \in IdsOf(list))

ListShapes ==
  /\ WellList(workspaces) /\ minted \in Nat /\ IdsOf(workspaces) \subseteq 1 .. minted
  /\ stored \in [Host -> SUBSET (1 .. minted)]
  /\ known \subseteq Host \X (1 .. minted) /\ reachable \subseteq Host
  /\ tasks \subseteq Task /\ \A t \in tasks : t.id \in 1 .. minted

\* Every id has one home, on the screen, on the agents and in the tasks; of a host
\* that is there, an id without a task is on the screen exactly when it is stored.
Homed(home) ==
  /\ Truthful(workspaces, home)
  /\ \A h \in Host : \A id \in stored[h] : home[id] = h
  /\ \A t \in tasks : home[t.id] = t.host
  /\ \A id \in 1 .. minted : home[id] \in reachable /\ (\A t \in tasks : t.id # id)
       => (id \in IdsOf(workspaces) <=> id \in stored[home[id]])

OffScreen == \A t \in tasks : t.op = "delete" => t.id \notin IdsOf(workspaces)

ListInv ==
  /\ ListShapes /\ OffScreen /\ ActiveIn(workspaces, activeId)
  /\ \E home \in [Nat -> Host] : Homed(home)

-----------------------------------------------------------------------------
(* Lists.                                                                  *)

LEMMA SizeSame ==
  ASSUME NEW S
  PROVE  List!Cardinality(S) = Cardinality(S)
  BY DEF List!Cardinality, Cardinality

\* A one-to-one map of a finite set to the numbers up to its size reaches them all.
LEMMA RanksReach ==
  ASSUME NEW S, IsFiniteSet(S), NEW f \in [S -> 1 .. List!Cardinality(S)],
         \A x, y \in S : f[x] = f[y] => x = y
  PROVE  List!Cardinality(S) \in Nat /\ \A k \in 1 .. List!Cardinality(S) : \E x \in S : f[x] = k
<1> DEFINE T == 1 .. List!Cardinality(S)
<1>1. List!Cardinality(S) \in Nat
  BY SizeSame, FS_CardinalityType
<1>2. IsFiniteSet(T) /\ List!Cardinality(T) = List!Cardinality(S)
  BY <1>1, SizeSame, FS_Interval
<1>3. f \in Injection(S, T)
  BY DEF Injection, IsInjective
<1>4. f \in Surjection(S, T)
  <2> HIDE DEF T
  <2> QED  BY <1>2, <1>3, SizeSame, FS_Injection
<1> QED  BY <1>1, <1>4 DEF Surjection

\* And one to a set of the size of its domain.
LEMMA SeqReaches ==
  ASSUME NEW S, IsFiniteSet(S), NEW f \in List!SetToSeqs(S)
  PROVE  /\ List!Cardinality(S) \in Nat /\ f \in [1 .. List!Cardinality(S) -> S]
         /\ \A i, j \in 1 .. List!Cardinality(S) : f[i] = f[j] => i = j
         /\ \A x \in S : \E i \in 1 .. List!Cardinality(S) : f[i] = x
<1> DEFINE T == 1 .. List!Cardinality(S)
<1>1. List!Cardinality(S) \in Nat
  BY SizeSame, FS_CardinalityType
<1>2. f \in [T -> S] /\ \A i, j \in T : f[i] = f[j] => i = j
  BY DEF List!SetToSeqs
<1>3. IsFiniteSet(T) /\ List!Cardinality(T) = List!Cardinality(S)
  BY <1>1, SizeSame, FS_Interval
<1>4. f \in Injection(T, S)
  BY <1>2 DEF Injection, IsInjective
<1>5. f \in Surjection(T, S)
  <2> HIDE DEF T
  <2> QED  BY <1>3, <1>4, SizeSame, FS_Injection
<1> QED  BY <1>1, <1>2, <1>5 DEF Surjection

\* The positions that are kept, by their ranks.
LEMMA RankIs ==
  ASSUME NEW n \in Nat, NEW at \in SUBSET (1 .. n)
  PROVE  /\ List!Cardinality(at) \in Nat
         /\ \A k \in 1 .. List!Cardinality(at) :
              \E i \in at : List!Cardinality({j \in at : j <= i}) = k
         /\ \A i \in at : List!Cardinality({j \in at : j <= i}) \in 1 .. List!Cardinality(at)
         /\ \A i, j \in at :
              List!Cardinality({k \in at : k <= i}) = List!Cardinality({k \in at : k <= j}) => i = j
<1> DEFINE below(i) == {j \in at : j <= i}
<1>1. IsFiniteSet(1 .. n)
  BY FS_Interval
<1>2. IsFiniteSet(at)
  BY <1>1, FS_Subset
<1>3. List!Cardinality(at) \in Nat
  BY <1>2, SizeSame, FS_CardinalityType
<1>4. ASSUME NEW i \in at
      PROVE  /\ IsFiniteSet(below(i)) /\ List!Cardinality(below(i)) \in Nat
             /\ List!Cardinality(below(i)) \in 1 .. List!Cardinality(at)
  <2>1. below(i) \in SUBSET at /\ i \in below(i)
    OBVIOUS
  <2> HIDE DEF below
  <2>2. IsFiniteSet(below(i)) /\ List!Cardinality(below(i)) <= List!Cardinality(at)
    BY <1>2, <2>1, SizeSame, FS_Subset
  <2>3. List!Cardinality(below(i)) \in Nat /\ List!Cardinality(below(i)) # 0
    BY <2>1, <2>2, SizeSame, FS_CardinalityType, FS_EmptySet
  <2> QED  BY <1>3, <2>2, <2>3
<1>5. ASSUME NEW i \in at, NEW j \in at, List!Cardinality(below(i)) = List!Cardinality(below(j)), i <= j
      PROVE  i = j
  <2> at \subseteq Nat
    OBVIOUS
  <2>0. \A k \in at : k <= i => k <= j
    BY <1>5
  <2>1. below(i) \in SUBSET below(j) /\ j \in below(j) /\ \A k \in below(i) : k <= i
    <3>1. i \in Nat /\ j \in Nat
      OBVIOUS
    <3>2. below(i) \in SUBSET below(j)
      BY <2>0
    <3>3. j <= j
      BY <3>1
    <3> QED  BY <3>2, <3>3
  <2>2. IsFiniteSet(below(j))
    BY <1>4
  <2>3. below(i) = below(j)
    <3> HIDE DEF below
    <3> QED  BY <1>5, <2>1, <2>2, SizeSame, FS_Subset
  <2>4. j <= i
    <3> HIDE DEF below
    <3> QED  BY <2>1, <2>3
  <2> QED  BY <1>5, <2>4
<1>6. \A i, j \in at : List!Cardinality(below(i)) = List!Cardinality(below(j)) => i = j
  <2>1. \A i, j \in at : i <= j \/ j <= i
    OBVIOUS
  <2> HIDE DEF below
  <2> QED  BY <1>5, <2>1
<1> DEFINE f == [i \in at |-> List!Cardinality(below(i))]
<1>7. f \in [at -> 1 .. List!Cardinality(at)] /\ \A x, y \in at : f[x] = f[y] => x = y
  <2> HIDE DEF below
  <2> QED  BY <1>4, <1>6
<1>8. \A k \in 1 .. List!Cardinality(at) : \E i \in at : List!Cardinality(below(i)) = k
  <2>1. \A k \in 1 .. List!Cardinality(at) : \E i \in at : f[i] = k
    <3> HIDE DEF f
    <3> QED  BY <1>2, <1>7, RanksReach
  <2> HIDE DEF below
  <2> QED  BY <2>1
<1> QED  BY <1>3, <1>4, <1>6, <1>8

LEMMA KeptIs ==
  ASSUME NEW list, WellList(list), NEW at \in SUBSET DOMAIN list
  PROVE  /\ WellList(List!Kept(list, at))
         /\ Shown(List!Kept(list, at)) = {Pair(list[i]) : i \in at}
         /\ IdsOf(List!Kept(list, at)) = {list[i].id : i \in at}
<1> DEFINE rank(i) == List!Cardinality({j \in at : j <= i})
           n == List!Cardinality(at)
           nth(k) == CHOOSE i \in at : rank(i) = k
           kept1 == List!Kept(list, at)
<1>1. list \in Seq(Workspace) /\ Len(list) \in Nat /\ DOMAIN list = 1 .. Len(list)
  BY DEF WellList
<1>2. /\ n \in Nat /\ (\A k \in 1 .. n : \E i \in at : rank(i) = k)
      /\ (\A i \in at : rank(i) \in 1 .. n) /\ (\A i, j \in at : rank(i) = rank(j) => i = j)
  BY <1>1, RankIs
<1>3. kept1 = [k \in 1 .. n |-> list[nth(k)]]
  BY DEF List!Kept
<1> HIDE DEF rank, n, kept1
<1>4. \A k \in 1 .. n : nth(k) \in at /\ rank(nth(k)) = k
  BY <1>2
<1>5. \A i \in at : nth(rank(i)) = i
  BY <1>2, <1>4
<1> HIDE DEF nth
<1>6. \A k \in 1 .. n : kept1[k] = list[nth(k)] /\ list[nth(k)] \in Workspace
  BY <1>1, <1>3, <1>4
<1>7. kept1 \in Seq(Workspace) /\ DOMAIN kept1 = 1 .. n
  <2>1. kept1 \in [1 .. n -> Workspace]
    BY <1>3, <1>6
  <2> QED  BY <1>2, <2>1
<1>8. WellList(kept1)
  <2>1. ASSUME NEW k \in 1 .. n, NEW m \in 1 .. n, kept1[k].id = kept1[m].id PROVE k = m
    <3>1. list[nth(k)].id = list[nth(m)].id
      BY <1>6, <2>1
    <3>2. nth(k) = nth(m)
      BY <1>4, <3>1 DEF WellList
    <3> QED  BY <1>4, <3>2
  <2> QED  BY <1>7, <2>1 DEF WellList
<1>9. Shown(kept1) = {Pair(list[i]) : i \in at} /\ IdsOf(kept1) = {list[i].id : i \in at}
  <2>1. \A k \in 1 .. n : \E i \in at : kept1[k] = list[i]
    BY <1>4, <1>6
  <2>2. \A i \in at : \E k \in 1 .. n : kept1[k] = list[i]
    BY <1>2, <1>5, <1>6
  <2>3. Shown(kept1) = {Pair(kept1[k]) : k \in 1 .. n} /\ IdsOf(kept1) = {kept1[k].id : k \in 1 .. n}
    BY <1>7 DEF Shown, IdsOf
  <2>4. {Pair(kept1[k]) : k \in 1 .. n} = {Pair(list[i]) : i \in at}
    BY <2>1, <2>2
  <2>5. {kept1[k].id : k \in 1 .. n} = {list[i].id : i \in at}
    BY <2>1, <2>2
  <2> QED  BY <2>3, <2>4, <2>5
<1> QED  BY <1>8, <1>9 DEF kept1

LEMMA ConcatIs ==
  ASSUME NEW l1, WellList(l1), NEW l2, WellList(l2), IdsOf(l1) \cap IdsOf(l2) = {}
  PROVE  /\ WellList(l1 \o l2)
         /\ Shown(l1 \o l2) = Shown(l1) \cup Shown(l2)
         /\ IdsOf(l1 \o l2) = IdsOf(l1) \cup IdsOf(l2)
<1> DEFINE m == Len(l1)
           n == Len(l2)
           both == l1 \o l2
<1>1. /\ l1 \in Seq(Workspace) /\ l2 \in Seq(Workspace) /\ m \in Nat /\ n \in Nat
      /\ DOMAIN l1 = 1 .. m /\ DOMAIN l2 = 1 .. n
  BY DEF WellList
<1>2. /\ both \in Seq(Workspace) /\ DOMAIN both = 1 .. m + n
      /\ \A k \in 1 .. m + n : both[k] = IF k <= m THEN l1[k] ELSE l2[k - m]
  BY <1>1
<1> HIDE DEF m, n, both
<1>3. \A k \in 1 .. m : k \in 1 .. m + n /\ both[k] = l1[k]
  BY <1>1, <1>2
<1>4. \A k \in 1 .. n : k + m \in 1 .. m + n /\ both[k + m] = l2[k]
  BY <1>1, <1>2
<1>5. \A k \in 1 .. m + n : k \in 1 .. m \/ (k - m \in 1 .. n /\ both[k] = l2[k - m] /\ k > m)
  BY <1>1, <1>2
<1>6. Shown(both) = Shown(l1) \cup Shown(l2) /\ IdsOf(both) = IdsOf(l1) \cup IdsOf(l2)
  <2>1. \A k \in 1 .. m + n : \/ \E i \in 1 .. m : both[k] = l1[i]
                              \/ \E i \in 1 .. n : both[k] = l2[i]
    BY <1>3, <1>5
  <2>2. /\ \A i \in 1 .. m : \E k \in 1 .. m + n : both[k] = l1[i]
        /\ \A i \in 1 .. n : \E k \in 1 .. m + n : both[k] = l2[i]
    BY <1>3, <1>4
  <2>3. Shown(both) = {Pair(both[k]) : k \in 1 .. m + n} /\ IdsOf(both) = {both[k].id : k \in 1 .. m + n}
    BY <1>2 DEF Shown, IdsOf
  <2>4. /\ Shown(l1) = {Pair(l1[k]) : k \in 1 .. m} /\ IdsOf(l1) = {l1[k].id : k \in 1 .. m}
        /\ Shown(l2) = {Pair(l2[k]) : k \in 1 .. n} /\ IdsOf(l2) = {l2[k].id : k \in 1 .. n}
    BY <1>1 DEF Shown, IdsOf
  <2>5. Shown(both) = Shown(l1) \cup Shown(l2)
    BY <2>1, <2>2, <2>3, <2>4
  <2> QED  BY <2>1, <2>2, <2>3, <2>4, <2>5
<1>7. WellList(both)
  <2>1. ASSUME NEW k \in 1 .. m + n, NEW i \in 1 .. m + n, both[k].id = both[i].id PROVE k = i
    <3>1. CASE k \in 1 .. m /\ i \in 1 .. m
      BY <1>1, <1>3, <2>1, <3>1 DEF WellList
    <3>2. CASE k \notin 1 .. m /\ i \notin 1 .. m
      <4>1. k - m = i - m
        BY <1>1, <1>5, <2>1, <3>2 DEF WellList
      <4> QED  BY <1>1, <4>1
    <3>3. CASE k \in 1 .. m /\ i \notin 1 .. m
      <4>1. both[k].id \in IdsOf(l1) /\ both[i].id \in IdsOf(l2)
        BY <1>1, <1>3, <1>5, <3>3 DEF IdsOf
      <4> QED  BY <2>1, <4>1
    <3>4. CASE k \notin 1 .. m /\ i \in 1 .. m
      <4>1. both[i].id \in IdsOf(l1) /\ both[k].id \in IdsOf(l2)
        BY <1>1, <1>3, <1>5, <3>4 DEF IdsOf
      <4> QED  BY <2>1, <4>1
    <3> QED  BY <3>1, <3>2, <3>3, <3>4
  <2> QED  BY <1>2, <2>1 DEF WellList
<1> QED  BY <1>6, <1>7 DEF both

LEMMA SingleIs ==
  ASSUME NEW w \in Workspace
  PROVE  WellList(<<w>>) /\ Shown(<<w>>) = {Pair(w)} /\ IdsOf(<<w>>) = {w.id}
<1>1. <<w>> \in Seq(Workspace) /\ DOMAIN <<w>> = {1} /\ <<w>>[1] = w
  OBVIOUS
<1> QED  BY <1>1 DEF WellList, Shown, IdsOf

LEMMA AppendIs ==
  ASSUME NEW list, WellList(list), NEW w \in Workspace, w.id \notin IdsOf(list)
  PROVE  /\ WellList(Append(list, w))
         /\ Shown(Append(list, w)) = Shown(list) \cup {Pair(w)}
         /\ IdsOf(Append(list, w)) = IdsOf(list) \cup {w.id}
<1>1. Append(list, w) = list \o <<w>>
  BY DEF WellList
<1> QED  BY <1>1, SingleIs, ConcatIs

\* A part of a list, from one position to another.
LEMMA PartIs ==
  ASSUME NEW list, WellList(list), NEW lo \in 1 .. Len(list) + 1, NEW hi \in 0 .. Len(list), lo <= hi + 1
  PROVE  /\ WellList(SubSeq(list, lo, hi))
         /\ Shown(SubSeq(list, lo, hi)) = {Pair(list[i]) : i \in lo .. hi}
         /\ IdsOf(SubSeq(list, lo, hi)) = {list[i].id : i \in lo .. hi}
<1> DEFINE part1 == SubSeq(list, lo, hi)
           n == hi + 1 - lo
<1>1. list \in Seq(Workspace) /\ Len(list) \in Nat /\ DOMAIN list = 1 .. Len(list)
  BY DEF WellList
<1>2. /\ part1 \in Seq(Workspace) /\ DOMAIN part1 = 1 .. n
      /\ \A k \in 1 .. n : part1[k] = list[lo + k - 1]
  BY <1>1
<1> HIDE DEF part1
<1>3. \A k \in 1 .. n : lo + k - 1 \in lo .. hi /\ lo + k - 1 \in DOMAIN list
  BY <1>1
<1>4. \A i \in lo .. hi : i - lo + 1 \in 1 .. n /\ lo + (i - lo + 1) - 1 = i
  BY <1>1
<1>5. Shown(part1) = {Pair(list[i]) : i \in lo .. hi} /\ IdsOf(part1) = {list[i].id : i \in lo .. hi}
  <2>1. \A k \in 1 .. n : \E i \in lo .. hi : part1[k] = list[i]
    BY <1>2, <1>3
  <2>2. \A i \in lo .. hi : \E k \in 1 .. n : part1[k] = list[i]
    BY <1>2, <1>4
  <2>3. Shown(part1) = {Pair(part1[k]) : k \in 1 .. n} /\ IdsOf(part1) = {part1[k].id : k \in 1 .. n}
    BY <1>2 DEF Shown, IdsOf
  <2> HIDE DEF n
  <2>4. {Pair(part1[k]) : k \in 1 .. n} = {Pair(list[i]) : i \in lo .. hi}
    BY <2>1, <2>2
  <2>5. {part1[k].id : k \in 1 .. n} = {list[i].id : i \in lo .. hi}
    <3> DEFINE at == lo .. hi
    <3>1. \A k \in 1 .. n : \E i \in at : part1[k].id = list[i].id
      BY <2>1
    <3>2. \A i \in at : \E k \in 1 .. n : part1[k].id = list[i].id
      BY <2>2
    <3> HIDE DEF at
    <3>3. {part1[k].id : k \in 1 .. n} = {list[i].id : i \in at}
      BY <3>1, <3>2
    <3> QED  BY <3>3 DEF at
  <2> QED  BY <2>3, <2>4, <2>5
<1>6. WellList(part1)
  <2>1. ASSUME NEW k \in 1 .. n, NEW m \in 1 .. n, part1[k].id = part1[m].id PROVE k = m
    <3> DEFINE i == lo + k - 1
               j == lo + m - 1
    <3>1. i \in DOMAIN list /\ j \in DOMAIN list /\ part1[k] = list[i] /\ part1[m] = list[j]
      BY <1>2, <1>3
    <3>2. i = j
      <4> HIDE DEF i, j
      <4> QED  BY <2>1, <3>1 DEF WellList
    <3> QED  BY <1>1, <3>2
  <2> QED  BY <1>2, <2>1 DEF WellList
<1> QED  BY <1>5, <1>6 DEF part1

\* An entry taken out, an entry put in.
LEMMA RemoveIs ==
  ASSUME NEW list, WellList(list), NEW p \in DOMAIN list
  PROVE  /\ WellList(List!RemoveAt(list, p)) /\ Len(List!RemoveAt(list, p)) = Len(list) - 1
         /\ Shown(List!RemoveAt(list, p)) = {Pair(list[i]) : i \in DOMAIN list \ {p}}
         /\ IdsOf(List!RemoveAt(list, p)) = IdsOf(list) \ {list[p].id}
<1> DEFINE n == Len(list)
           before1 == SubSeq(list, 1, p - 1)
           after1 == SubSeq(list, p + 1, n)
<1>1. list \in Seq(Workspace) /\ n \in Nat /\ DOMAIN list = 1 .. n /\ p \in 1 .. n
  BY DEF WellList
<1>2. List!RemoveAt(list, p) = before1 \o after1
  BY DEF List!RemoveAt
<1>3. /\ WellList(before1) /\ Shown(before1) = {Pair(list[i]) : i \in 1 .. p - 1}
      /\ IdsOf(before1) = {list[i].id : i \in 1 .. p - 1}
  <2>1. 1 \in 1 .. n + 1 /\ p - 1 \in 0 .. n /\ 1 <= (p - 1) + 1
    BY <1>1
  <2> QED  BY <2>1, PartIs
<1>4. /\ WellList(after1) /\ Shown(after1) = {Pair(list[i]) : i \in p + 1 .. n}
      /\ IdsOf(after1) = {list[i].id : i \in p + 1 .. n}
  <2>1. p + 1 \in 1 .. n + 1 /\ n \in 0 .. n /\ p + 1 <= n + 1
    BY <1>1
  <2> QED  BY <2>1, PartIs
<1>5. Len(before1) = p - 1 /\ Len(after1) = n - p
  BY <1>1
<1>6. \A i \in 1 .. n : \A j \in 1 .. n : list[i].id = list[j].id => i = j
  BY <1>1 DEF WellList
<1>7. IdsOf(list) = {list[i].id : i \in 1 .. n}
  BY <1>1 DEF IdsOf
<1> HIDE DEF before1, after1, n
<1>8. /\ \A i \in 1 .. p - 1 : i \in 1 .. n /\ i # p
      /\ \A i \in p + 1 .. n : i \in 1 .. n /\ i # p
      /\ \A i \in 1 .. n : i # p => i \in 1 .. p - 1 \/ i \in p + 1 .. n
      /\ \A i \in 1 .. p - 1 : i \notin p + 1 .. n
  BY <1>1
<1> DEFINE low == 1 .. p - 1
           high == p + 1 .. n
           dom == 1 .. n
<1>9. /\ low \subseteq dom /\ high \subseteq dom /\ p \in dom
      /\ p \notin low /\ p \notin high
      /\ \A i \in dom : i # p => i \in low \/ i \in high
      /\ \A i \in low : i \notin high
  BY <1>1, <1>8
<1>10. /\ Shown(before1) = {Pair(list[i]) : i \in low} /\ Shown(after1) = {Pair(list[i]) : i \in high}
       /\ IdsOf(before1) = {list[i].id : i \in low} /\ IdsOf(after1) = {list[i].id : i \in high}
       /\ IdsOf(list) = {list[i].id : i \in dom} /\ DOMAIN list = dom
  BY <1>1, <1>3, <1>4, <1>7
<1>11. \A i, j \in dom : list[i].id = list[j].id => i = j
  BY <1>6
<1> HIDE DEF low, high, dom
<1>12. IdsOf(before1) \cap IdsOf(after1) = {}
  <2> SUFFICES ASSUME NEW i \in low, NEW j \in high, list[i].id = list[j].id PROVE FALSE
    BY <1>10
  <2> QED  BY <1>9, <1>11
<1>13. /\ WellList(before1 \o after1)
       /\ Shown(before1 \o after1) = Shown(before1) \cup Shown(after1)
       /\ IdsOf(before1 \o after1) = IdsOf(before1) \cup IdsOf(after1)
  BY <1>3, <1>4, <1>12, ConcatIs
<1>14. low \cup high = dom \ {p}
  BY <1>9
<1>15. Shown(before1) \cup Shown(after1) = {Pair(list[i]) : i \in dom \ {p}}
  BY <1>10, <1>14
<1>16. IdsOf(before1) \cup IdsOf(after1) = IdsOf(list) \ {list[p].id}
  <2>1. \A i \in dom \ {p} : list[i].id # list[p].id
    BY <1>9, <1>11
  <2>2. IdsOf(before1) \cup IdsOf(after1) = {list[i].id : i \in dom \ {p}}
    BY <1>10, <1>14
  <2> QED  BY <1>9, <1>10, <2>1, <2>2
<1>17. Len(before1 \o after1) = Len(before1) + Len(after1)
  BY <1>3, <1>4 DEF WellList
<1>18. Len(before1 \o after1) = n - 1
  BY <1>1, <1>5, <1>17
<1>19. Shown(before1 \o after1) = {Pair(list[i]) : i \in DOMAIN list \ {p}}
  BY <1>10, <1>13, <1>15
<1> QED  BY <1>2, <1>13, <1>16, <1>18, <1>19 DEF n

LEMMA InsertIs ==
  ASSUME NEW list, WellList(list), NEW p \in 1 .. Len(list) + 1,
         NEW w \in Workspace, w.id \notin IdsOf(list)
  PROVE  /\ WellList(List!InsertAt(list, p, w))
         /\ Shown(List!InsertAt(list, p, w)) = Shown(list) \cup {Pair(w)}
         /\ IdsOf(List!InsertAt(list, p, w)) = IdsOf(list) \cup {w.id}
<1> DEFINE n == Len(list)
           before1 == SubSeq(list, 1, p - 1)
           after1 == SubSeq(list, p, n)
<1>1. list \in Seq(Workspace) /\ n \in Nat /\ DOMAIN list = 1 .. n /\ p \in Int
  BY DEF WellList
<1>2. List!InsertAt(list, p, w) = before1 \o <<w>> \o after1
  BY DEF List!InsertAt
<1>3. /\ WellList(before1) /\ Shown(before1) = {Pair(list[i]) : i \in 1 .. p - 1}
      /\ IdsOf(before1) = {list[i].id : i \in 1 .. p - 1}
  <2>1. 1 \in 1 .. n + 1 /\ p - 1 \in 0 .. n /\ 1 <= (p - 1) + 1
    BY <1>1
  <2> QED  BY <2>1, PartIs
<1>4. /\ WellList(after1) /\ Shown(after1) = {Pair(list[i]) : i \in p .. n}
      /\ IdsOf(after1) = {list[i].id : i \in p .. n}
  <2>1. p \in 1 .. n + 1 /\ n \in 0 .. n /\ p <= n + 1
    BY <1>1
  <2> QED  BY <2>1, PartIs
<1>5. \A i \in 1 .. n : \A j \in 1 .. n : list[i].id = list[j].id => i = j
  BY <1>1 DEF WellList
<1> DEFINE low == 1 .. p - 1
           high == p .. n
           dom == 1 .. n
<1>6. low \cup high = dom /\ \A i \in low : i \notin high
  BY <1>1
<1>7. /\ Shown(before1) = {Pair(list[i]) : i \in low} /\ Shown(after1) = {Pair(list[i]) : i \in high}
      /\ IdsOf(before1) = {list[i].id : i \in low} /\ IdsOf(after1) = {list[i].id : i \in high}
  BY <1>3, <1>4
<1>8. Shown(list) = {Pair(list[i]) : i \in dom} /\ IdsOf(list) = {list[i].id : i \in dom}
  BY <1>1 DEF Shown, IdsOf
<1>9. \A i, j \in dom : list[i].id = list[j].id => i = j
  BY <1>5
<1> HIDE DEF n, before1, after1, low, high, dom
<1>10. IdsOf(before1) \cap IdsOf(after1) = {}
  <2> SUFFICES ASSUME NEW i \in low, NEW j \in high, list[i].id = list[j].id PROVE FALSE
    BY <1>7
  <2> QED  BY <1>6, <1>9
<1>11. IdsOf(before1) \cup IdsOf(after1) = IdsOf(list) /\ Shown(before1) \cup Shown(after1) = Shown(list)
  BY <1>6, <1>7, <1>8
<1>12. WellList(<<w>>) /\ Shown(<<w>>) = {Pair(w)} /\ IdsOf(<<w>>) = {w.id}
  BY SingleIs
<1>13. IdsOf(before1) \cap IdsOf(<<w>>) = {}
  BY <1>11, <1>12
<1>14. /\ WellList(before1 \o <<w>>)
       /\ Shown(before1 \o <<w>>) = Shown(before1) \cup {Pair(w)}
       /\ IdsOf(before1 \o <<w>>) = IdsOf(before1) \cup {w.id}
  BY <1>3, <1>12, <1>13, ConcatIs
<1> DEFINE front1 == before1 \o <<w>>
<1> HIDE DEF front1
<1>15. IdsOf(front1) \cap IdsOf(after1) = {}
  BY <1>10, <1>11, <1>14 DEF front1
<1>16. /\ WellList(front1 \o after1)
       /\ Shown(front1 \o after1) = Shown(front1) \cup Shown(after1)
       /\ IdsOf(front1 \o after1) = IdsOf(front1) \cup IdsOf(after1)
  BY <1>4, <1>14, <1>15, ConcatIs DEF front1
<1>17. List!InsertAt(list, p, w) = front1 \o after1
  BY <1>2 DEF front1
<1> QED  BY <1>11, <1>14, <1>16, <1>17 DEF front1

\* A number of ids makes a list of entries of one host.
LEMMA FreshIs ==
  ASSUME NEW S \in SUBSET (Nat \ {0}), IsFiniteSet(S), NEW new \in List!SetToSeqs(S), NEW host \in Host
  PROVE  LET fresh == [i \in DOMAIN new |-> List!makeWorkspace(new[i], host)]
         IN /\ WellList(fresh)
            /\ Shown(fresh) = {<<id, host>> : id \in S}
            /\ IdsOf(fresh) = S
<1> DEFINE n == List!Cardinality(S)
           fresh1 == [i \in DOMAIN new |-> List!makeWorkspace(new[i], host)]
<1>1. /\ n \in Nat /\ new \in [1 .. n -> S]
      /\ \A i, j \in 1 .. n : new[i] = new[j] => i = j
      /\ \A x \in S : \E i \in 1 .. n : new[i] = x
  BY SeqReaches
<1> HIDE DEF n
<1>2. DOMAIN new = 1 .. n /\ \A i \in 1 .. n : new[i] \in S
  BY <1>1
<1>3. \A i \in 1 .. n : /\ fresh1[i] = List!makeWorkspace(new[i], host) /\ fresh1[i] \in Workspace
                        /\ fresh1[i].id = new[i] /\ Pair(fresh1[i]) = <<new[i], host>>
  BY <1>2 DEF List!makeWorkspace, Workspace, Pair
<1>4. fresh1 \in Seq(Workspace) /\ DOMAIN fresh1 = 1 .. n
  <2>1. fresh1 \in [1 .. n -> Workspace]
    BY <1>2, <1>3
  <2> QED  BY <1>1, <2>1
<1> HIDE DEF fresh1
<1>5. WellList(fresh1)
  BY <1>1, <1>3, <1>4 DEF WellList
<1>6. IdsOf(fresh1) = S
  <2>1. IdsOf(fresh1) = {fresh1[i].id : i \in 1 .. n}
    BY <1>4 DEF IdsOf
  <2>2. \A i \in 1 .. n : fresh1[i].id \in S
    BY <1>2, <1>3
  <2>3. \A x \in S : \E i \in 1 .. n : fresh1[i].id = x
    BY <1>1, <1>3
  <2> QED  BY <2>1, <2>2, <2>3
<1>7. Shown(fresh1) = {<<id, host>> : id \in S}
  <2>1. Shown(fresh1) = {Pair(fresh1[i]) : i \in 1 .. n}
    BY <1>4 DEF Shown
  <2>2. \A i \in 1 .. n : \E x \in S : Pair(fresh1[i]) = <<x, host>>
    BY <1>2, <1>3
  <2>3. \A x \in S : \E i \in 1 .. n : Pair(fresh1[i]) = <<x, host>>
    BY <1>1, <1>3
  <2> QED  BY <2>1, <2>2, <2>3
<1> QED  BY <1>5, <1>6, <1>7 DEF fresh1

\* Where an id is.
LEMMA IndexIs ==
  ASSUME NEW list, WellList(list), NEW id
  PROVE  /\ id \in IdsOf(list) => List!Index(list, id) \in DOMAIN list /\ list[List!Index(list, id)].id = id
         /\ id \notin IdsOf(list) => List!Index(list, id) = 0
         /\ id \in IdsOf(list) <=> List!Index(list, id) # 0
<1>1. id \in IdsOf(list) <=> \E i \in DOMAIN list : list[i].id = id
  BY DEF IdsOf
<1>2. \A i \in DOMAIN list : i # 0
  BY DEF WellList
<1>3. CASE id \in IdsOf(list)
  <2>1. List!Index(list, id) \in DOMAIN list /\ list[List!Index(list, id)].id = id
    BY <1>1, <1>3 DEF List!Index
  <2> QED  BY <1>2, <1>3, <2>1
<1>4. CASE id \notin IdsOf(list)
  BY <1>1, <1>4 DEF List!Index
<1> QED  BY <1>3, <1>4

LEMMA FirstIs ==
  ASSUME NEW list, WellList(list)
  PROVE  /\ list = <<>> <=> IdsOf(list) = {}
         /\ list = <<>> => List!First(list) = None
         /\ list # <<>> => List!First(list) \in IdsOf(list)
<1>1. list \in Seq(Workspace) /\ DOMAIN list = 1 .. Len(list) /\ Len(list) \in Nat
  BY DEF WellList
<1>2. ASSUME list # <<>> PROVE 1 \in DOMAIN list /\ Head(list) = list[1]
  BY <1>1, <1>2
<1>3. ASSUME list = <<>> PROVE DOMAIN list = {}
  BY <1>1, <1>3
<1> QED  BY <1>2, <1>3 DEF List!First, IdsOf

LEMMA SizeIs ==
  ASSUME NEW list, WellList(list)
  PROVE  List!Cardinality(IdsOf(list)) = Len(list) /\ IsFiniteSet(IdsOf(list))
<1> DEFINE n == Len(list)
           f == [i \in 1 .. n |-> list[i].id]
           S == IdsOf(list)
<1>1. list \in Seq(Workspace) /\ DOMAIN list = 1 .. n /\ n \in Nat
  BY DEF WellList
<1>2. IsFiniteSet(1 .. n) /\ List!Cardinality(1 .. n) = n
  BY <1>1, SizeSame, FS_Interval
<1>3. f \in Bijection(1 .. n, S)
  <2>1. S = {list[i].id : i \in 1 .. n}
    BY <1>1 DEF IdsOf
  <2>2. f \in Injection(1 .. n, S)
    <3>1. \A i, j \in 1 .. n : list[i].id = list[j].id => i = j
      BY <1>1 DEF WellList
    <3>2. f \in [1 .. n -> S]
      BY <2>1
    <3> QED  BY <3>1, <3>2 DEF Injection, IsInjective
  <2>3. f \in Surjection(1 .. n, S)
    BY <2>1, <2>2 DEF Surjection, Injection
  <2> QED  BY <2>2, <2>3 DEF Bijection
<1> HIDE DEF f, S
<1>4. ExistsBijection(1 .. n, S)
  BY <1>3 DEF ExistsBijection
<1> HIDE DEF n
<1>5. IsFiniteSet(S) /\ List!Cardinality(S) = List!Cardinality(1 .. n)
  <2>1. IsFiniteSet(S)
    BY <1>2, <1>3, FS_Surjection DEF Bijection
  <2> QED  BY <1>2, <1>4, <2>1, SizeSame, FS_Bijection
<1> QED  BY <1>2, <1>5 DEF n, S

LEMMA LeastIs ==
  ASSUME NEW n \in Nat, NEW at \in SUBSET (1 .. n), at # {}
  PROVE  \E i \in at : \A k \in at : i <= k
<1> DEFINE below(i) == {j \in at : j <= i}
<1>1. /\ \A k \in 1 .. List!Cardinality(at) : \E i \in at : List!Cardinality(below(i)) = k
      /\ \A i \in at : List!Cardinality(below(i)) \in 1 .. List!Cardinality(at)
      /\ \A i, j \in at : List!Cardinality(below(i)) = List!Cardinality(below(j)) => i = j
      /\ List!Cardinality(at) \in Nat
  BY RankIs
<1>2. \A i \in at : i \in Nat
  OBVIOUS
<1>3. ASSUME NEW i \in at, NEW k \in at, k <= i
      PROVE  List!Cardinality(below(k)) <= List!Cardinality(below(i))
  <2>1. IsFiniteSet(1 .. n)
    BY FS_Interval
  <2>2. below(i) \in SUBSET (1 .. n)
    OBVIOUS
  <2>3. \A j \in at : j <= k => j <= i
    BY <1>2, <1>3
  <2>4. below(k) \in SUBSET below(i)
    BY <2>3
  <2> HIDE DEF below
  <2>5. IsFiniteSet(below(i))
    BY <2>1, <2>2, FS_Subset
  <2> QED  BY <2>4, <2>5, SizeSame, FS_Subset
<1> HIDE DEF below
<1>4. PICK i \in at : List!Cardinality(below(i)) = 1
  <2>1. PICK j \in at : TRUE
    OBVIOUS
  <2>2. List!Cardinality(below(j)) \in 1 .. List!Cardinality(at)
    BY <1>1
  <2>3. 1 \in 1 .. List!Cardinality(at)
    BY <1>1, <2>2
  <2> QED  BY <1>1, <2>3
<1>5. ASSUME NEW k \in at PROVE i <= k
  <2>1. CASE k <= i
    <3>1. List!Cardinality(below(k)) <= 1 /\ List!Cardinality(below(k)) \in 1 .. List!Cardinality(at)
      BY <1>1, <1>3, <1>4, <2>1
    <3>2. List!Cardinality(below(k)) = 1
      BY <1>1, <3>1
    <3>3. k = i
      BY <1>1, <1>4, <3>2
    <3> QED  BY <1>2, <3>3
  <2>2. CASE i <= k
    BY <2>2
  <2> QED  BY <1>2, <2>1, <2>2
<1> QED  BY <1>5

\* An entry at another place, as it was or changed.
LEMMA MovedIs ==
  ASSUME NEW list, WellList(list), NEW p \in DOMAIN list, NEW k \in 1 .. Len(list),
         NEW w \in Workspace, Pair(w) = Pair(list[p])
  PROVE  /\ WellList(List!InsertAt(List!RemoveAt(list, p), k, w))
         /\ Shown(List!InsertAt(List!RemoveAt(list, p), k, w)) = Shown(list)
         /\ IdsOf(List!InsertAt(List!RemoveAt(list, p), k, w)) = IdsOf(list)
<1> DEFINE rest1 == List!RemoveAt(list, p)
<1>1. /\ WellList(rest1) /\ Len(rest1) = Len(list) - 1
      /\ Shown(rest1) = {Pair(list[i]) : i \in DOMAIN list \ {p}}
      /\ IdsOf(rest1) = IdsOf(list) \ {list[p].id}
  BY RemoveIs
<1> HIDE DEF rest1
<1>2. w.id = list[p].id /\ w.id \in IdsOf(list)
  BY DEF Pair, IdsOf
<1>3. k \in 1 .. Len(rest1) + 1
  <2>1. Len(list) \in Nat
    BY DEF WellList
  <2> QED  BY <1>1, <2>1
<1>4. /\ WellList(List!InsertAt(rest1, k, w))
      /\ Shown(List!InsertAt(rest1, k, w)) = Shown(rest1) \cup {Pair(w)}
      /\ IdsOf(List!InsertAt(rest1, k, w)) = IdsOf(rest1) \cup {w.id}
  BY <1>1, <1>2, <1>3, InsertIs
<1>5. Shown(rest1) \cup {Pair(w)} = Shown(list)
  BY <1>1 DEF Shown
<1> QED  BY <1>1, <1>2, <1>4, <1>5 DEF rest1

LEMMA AnchorIs ==
  ASSUME NEW list, WellList(list), NEW from, NEW anchor, NEW side
  PROVE  /\ WellList(List!insertAtAnchor(list, from, anchor, side))
         /\ Shown(List!insertAtAnchor(list, from, anchor, side)) = Shown(list)
         /\ IdsOf(List!insertAtAnchor(list, from, anchor, side)) = IdsOf(list)
<1> DEFINE i == List!Index(list, from)
           j == List!Index(list, anchor)
           gap == IF i < j THEN j - 1 ELSE j
           k == IF side = "before" THEN gap ELSE gap + 1
           moved1 == List!insertAtAnchor(list, from, anchor, side)
<1>1. DOMAIN list = 1 .. Len(list) /\ Len(list) \in Nat /\ list \in Seq(Workspace)
  BY DEF WellList
<1>2. (i = 0 \/ i \in DOMAIN list) /\ (j = 0 \/ j \in DOMAIN list)
  BY IndexIs
<1>3. CASE i = j \/ i = 0 \/ j = 0
  <2>1. moved1 = list
    BY <1>3 DEF List!insertAtAnchor
  <2> QED  BY <2>1
<1>4. CASE ~(i = j \/ i = 0 \/ j = 0)
  <2>1. moved1 = List!InsertAt(List!RemoveAt(list, i), k, list[i])
    BY <1>4 DEF List!insertAtAnchor
  <2>2. i \in DOMAIN list /\ j \in DOMAIN list /\ i # j
    BY <1>2, <1>4
  <2> HIDE DEF i, j
  <2>3. k \in 1 .. Len(list)
    BY <1>1, <2>2
  <2>4. list[i] \in Workspace
    BY <1>1, <2>2
  <2> HIDE DEF k, moved1
  <2> QED  BY <2>1, <2>2, <2>3, <2>4, MovedIs DEF moved1
<1> QED  BY <1>3, <1>4

LEMMA PinIs ==
  ASSUME NEW list, WellList(list), NEW id \in IdsOf(list)
  PROVE  /\ WellList(List!togglePinAndReorder(list, id))
         /\ Shown(List!togglePinAndReorder(list, id)) = Shown(list)
         /\ IdsOf(List!togglePinAndReorder(list, id)) = IdsOf(list)
<1> DEFINE i == List!Index(list, id)
           rest1 == List!RemoveAt(list, i)
           border == {j \in 1 .. Len(rest1) + 1 : j <= Len(rest1) => ~rest1[j].pinned}
           first == CHOOSE j \in border : \A k \in border : j <= k
           w == [list[i] EXCEPT !.pinned = ~@]
<1>1. DOMAIN list = 1 .. Len(list) /\ Len(list) \in Nat /\ list \in Seq(Workspace)
  BY DEF WellList
<1>2. i \in DOMAIN list
  BY IndexIs
<1>3. List!togglePinAndReorder(list, id) = List!InsertAt(rest1, first, w)
  BY DEF List!togglePinAndReorder
<1>4. Len(rest1) = Len(list) - 1 /\ Len(rest1) \in Nat
  <2> HIDE DEF i
  <2>1. Len(rest1) = Len(list) - 1
    BY <1>2, RemoveIs
  <2> HIDE DEF rest1
  <2>2. Len(list) >= 1
    BY <1>1, <1>2
  <2> QED  BY <1>1, <2>1, <2>2
<1> HIDE DEF i
<1>5. w \in Workspace /\ Pair(w) = Pair(list[i])
  <2>1. list[i] \in Workspace
    BY <1>1, <1>2
  <2> DEFINE v == list[i]
             w2 == [v EXCEPT !.pinned = ~@]
  <2> HIDE DEF v
  <2>2. v \in [id : Nat \ {0}, host : Host, pinned : BOOLEAN]
    BY <2>1 DEF v, Workspace
  <2>3. w2 \in [id : Nat \ {0}, host : Host, pinned : BOOLEAN] /\ w2.id = v.id /\ w2.host = v.host
    BY <2>2
  <2> QED  BY <2>3 DEF v, Workspace, Pair
<1>6. Len(rest1) + 1 \in border /\ border \in SUBSET (1 .. Len(list))
  <2> HIDE DEF rest1
  <2> QED  BY <1>1, <1>4
<1> HIDE DEF border
<1>7. \E j \in border : \A k \in border : j <= k
  BY <1>1, <1>6, LeastIs
<1>8. first \in 1 .. Len(list)
  BY <1>6, <1>7
<1> HIDE DEF first, w
<1>9. /\ WellList(List!InsertAt(List!RemoveAt(list, i), first, w))
      /\ Shown(List!InsertAt(List!RemoveAt(list, i), first, w)) = Shown(list)
      /\ IdsOf(List!InsertAt(List!RemoveAt(list, i), first, w)) = IdsOf(list)
  BY <1>2, <1>5, <1>8, MovedIs
<1> QED  BY <1>3, <1>9 DEF rest1

LEMMA WithoutIs ==
  ASSUME NEW list, WellList(list), NEW id
  PROVE  /\ WellList(List!Without(list, id))
         /\ Shown(List!Without(list, id)) \subseteq Shown(list)
         /\ IdsOf(List!Without(list, id)) = IdsOf(list) \ {id}
<1> DEFINE at == {i \in DOMAIN list : list[i].id # id}
<1>1. at \in SUBSET DOMAIN list /\ List!Without(list, id) = List!Kept(list, at)
  BY DEF List!Without
<1>2. {list[i].id : i \in at} = IdsOf(list) \ {id} /\ {Pair(list[i]) : i \in at} \subseteq Shown(list)
  BY DEF IdsOf, Shown
<1> HIDE DEF at
<1> QED  BY <1>1, <1>2, KeptIs

\* Shown list, ids.
LEMMA IdsAreShown ==
  ASSUME NEW list
  PROVE  /\ \A id \in IdsOf(list) : \E x \in Shown(list) : x[1] = id
         /\ \A x \in Shown(list) : x[1] \in IdsOf(list)
         /\ \A i \in DOMAIN list : <<list[i].id, list[i].host>> \in Shown(list)
<1>1. \A i \in DOMAIN list : Pair(list[i])[1] = list[i].id
  BY DEF Pair
<1>2. \A x \in Shown(list) : \E i \in DOMAIN list : x = Pair(list[i])
  BY DEF Shown
<1>3. \A id \in IdsOf(list) : \E i \in DOMAIN list : id = list[i].id
  BY DEF IdsOf
<1>4. \A i \in DOMAIN list : Pair(list[i]) \in Shown(list) /\ list[i].id \in IdsOf(list)
  BY DEF Shown, IdsOf
<1>5. \A i \in DOMAIN list : <<list[i].id, list[i].host>> \in Shown(list)
  BY <1>4 DEF Pair
<1> QED  BY <1>1, <1>2, <1>3, <1>4, <1>5

-----------------------------------------------------------------------------
(* The active workspace.                                                   *)

LEMMA IdsAreNat ==
  ASSUME NEW list, WellList(list)
  PROVE  IdsOf(list) \subseteq Nat \ {0}
<1>1. \A i \in DOMAIN list : list[i] \in Workspace
  BY DEF WellList
<1> QED  BY <1>1 DEF IdsOf, Workspace

LEMMA NoneIsNoId ==
  ASSUME List!ListAssumption, NEW list, WellList(list)
  PROVE  None \notin IdsOf(list)
  BY IdsAreNat DEF List!ListAssumption

LEMMA HasIs ==
  ASSUME List!ListAssumption, NEW list, WellList(list), NEW id
  PROVE  List!Has(list, id) <=> id \in IdsOf(list)
  BY NoneIsNoId, IndexIs DEF List!Has

LEMMA FirstActive ==
  ASSUME List!ListAssumption, NEW list, WellList(list)
  PROVE  ActiveIn(list, List!First(list))
  BY NoneIsNoId, FirstIs DEF ActiveIn

LEMMA MemberActive ==
  ASSUME List!ListAssumption, NEW list, WellList(list), NEW id \in IdsOf(list)
  PROVE  ActiveIn(list, id)
  BY NoneIsNoId, FirstIs DEF ActiveIn

LEMMA KeptActive ==
  ASSUME List!ListAssumption, NEW list, WellList(list), NEW id
  PROVE  ActiveIn(list, IF List!Has(list, id) THEN id ELSE List!First(list))
  BY HasIs, FirstActive, MemberActive

LEMMA RemovedActive ==
  ASSUME List!ListAssumption, NEW list, WellList(list), NEW act, ActiveIn(list, act),
         NEW less, WellList(less), NEW id, IdsOf(less) = IdsOf(list) \ {id}
  PROVE  ActiveIn(less, IF act = id THEN List!First(less) ELSE act)
<1>1. CASE act = id
  BY <1>1, FirstActive
<1>2. CASE act # id /\ act # None
  <2>1. act \in IdsOf(less)
    BY <1>2 DEF ActiveIn
  <2> QED  BY <1>2, <2>1, MemberActive
<1>3. CASE act # id /\ act = None
  <2>1. IdsOf(less) = {}
    BY <1>3, FirstIs DEF ActiveIn
  <2> QED  BY <1>3, <2>1, FirstIs DEF ActiveIn
<1> QED  BY <1>1, <1>2, <1>3

-----------------------------------------------------------------------------
(* What a step does to the list.                                           *)

LEMMA HomeIs ==
  ASSUME NEW list, NEW home, Truthful(list, home), NEW i \in DOMAIN list
  PROVE  home[list[i].id] = list[i].host
<1> DEFINE x == <<list[i].id, list[i].host>>
<1>1. x \in Shown(list)
  BY IdsAreShown
<1>2. x[1] = list[i].id /\ x[2] = list[i].host
  OBVIOUS
<1> HIDE DEF x
<1>3. home[x[1]] = x[2]
  BY <1>1 DEF Truthful
<1> QED  BY <1>2, <1>3

LEMMA EntryIs ==
  ASSUME WellList(workspaces), NEW home, Truthful(workspaces, home), NEW id \in List!Ids
  PROVE  /\ List!Entry(id) \in Workspace /\ List!Entry(id).id = id /\ List!Entry(id).host = home[id]
         /\ <<id, home[id]>> \in Shown(workspaces)
<1>1. List!Ids = IdsOf(workspaces)
  BY DEF List!Ids, IdsOf
<1>2. List!At(id) \in DOMAIN workspaces /\ workspaces[List!At(id)].id = id /\ List!Entry(id) = workspaces[List!At(id)]
  BY <1>1, IndexIs DEF List!At, List!Entry
<1>3. workspaces[List!At(id)] \in Workspace
  BY <1>2 DEF WellList
<1>4. <<id, workspaces[List!At(id)].host>> \in Shown(workspaces)
  BY <1>2, IdsAreShown
<1>5. home[id] = workspaces[List!At(id)].host
  BY <1>4 DEF Truthful
<1> QED  BY <1>2, <1>3, <1>4, <1>5

LEMMA UpsertIs ==
  ASSUME List!ListAssumption, WellList(workspaces), ActiveIn(workspaces, activeId),
         NEW id \in Nat \ {0}, NEW host \in Host, List!Upsert(id, host)
  PROVE  /\ WellList(workspaces') /\ ActiveIn(workspaces', activeId')
         /\ Shown(workspaces') \subseteq Shown(workspaces) \cup {<<id, host>>}
         /\ IdsOf(workspaces') = IdsOf(workspaces) \cup {id}
<1>1. List!Ids = IdsOf(workspaces)
  BY DEF List!Ids, IdsOf
<1>2. CASE id \in List!Ids
  <2>1. workspaces' = workspaces /\ activeId' = activeId
    BY <1>2 DEF List!Upsert
  <2> QED  BY <1>1, <1>2, <2>1
<1>3. CASE id \notin List!Ids
  <2> DEFINE w == List!makeWorkspace(id, host)
  <2>1. w \in Workspace /\ w.id = id /\ Pair(w) = <<id, host>>
    BY DEF List!makeWorkspace, Workspace, Pair
  <2>2. /\ workspaces' = Append(workspaces, w)
        /\ activeId' = IF activeId = None THEN id ELSE activeId
    BY <1>3 DEF List!Upsert
  <2> HIDE DEF w
  <2>3. /\ WellList(workspaces')
        /\ Shown(workspaces') = Shown(workspaces) \cup {<<id, host>>}
        /\ IdsOf(workspaces') = IdsOf(workspaces) \cup {id}
    BY <1>1, <1>3, <2>1, <2>2, AppendIs
  <2>4. activeId' \in IdsOf(workspaces')
    BY <2>2, <2>3 DEF ActiveIn
  <2>5. ActiveIn(workspaces', activeId')
    BY <2>3, <2>4, MemberActive
  <2> QED  BY <2>3, <2>5
<1> QED  BY <1>2, <1>3

LEMMA RemovedIs ==
  ASSUME List!ListAssumption, WellList(workspaces), ActiveIn(workspaces, activeId),
         NEW id, List!Removed(id)
  PROVE  /\ WellList(workspaces') /\ ActiveIn(workspaces', activeId')
         /\ Shown(workspaces') \subseteq Shown(workspaces)
         /\ IdsOf(workspaces') = IdsOf(workspaces) \ {id}
<1> DEFINE list == List!Without(workspaces, id)
<1>1. WellList(list) /\ Shown(list) \subseteq Shown(workspaces) /\ IdsOf(list) = IdsOf(workspaces) \ {id}
  BY WithoutIs
<1>2. workspaces' = list /\ activeId' = IF activeId = id THEN List!First(list) ELSE activeId
  BY DEF List!Removed
<1> HIDE DEF list
<1>3. ActiveIn(list, IF activeId = id THEN List!First(list) ELSE activeId)
  BY <1>1, RemovedActive
<1> QED  BY <1>1, <1>2, <1>3

\* The entries of one host, and the others.
LEMMA HostParts ==
  ASSUME WellList(workspaces), NEW home, Truthful(workspaces, home), NEW host
  PROVE  /\ List!OfHost(workspaces, host) \in SUBSET DOMAIN workspaces
         /\ WellList(List!Kept(workspaces, List!OfHost(workspaces, host)))
         /\ IdsOf(List!Kept(workspaces, List!OfHost(workspaces, host)))
              = {id \in IdsOf(workspaces) : home[id] = host}
         /\ WellList(List!Kept(workspaces, DOMAIN workspaces \ List!OfHost(workspaces, host)))
         /\ Shown(List!Kept(workspaces, DOMAIN workspaces \ List!OfHost(workspaces, host)))
              \subseteq Shown(workspaces)
         /\ IdsOf(List!Kept(workspaces, DOMAIN workspaces \ List!OfHost(workspaces, host)))
              = {id \in IdsOf(workspaces) : home[id] # host}
<1> DEFINE own == List!OfHost(workspaces, host)
           rest == DOMAIN workspaces \ own
<1>1. own \in SUBSET DOMAIN workspaces /\ rest \in SUBSET DOMAIN workspaces
  BY DEF List!OfHost
<1>2. \A i \in DOMAIN workspaces : home[workspaces[i].id] = workspaces[i].host
  BY HomeIs
<1>3. \A i \in DOMAIN workspaces : i \in own <=> home[workspaces[i].id] = host
  BY <1>2 DEF List!OfHost
<1>4. \A i \in DOMAIN workspaces : i \in rest <=> home[workspaces[i].id] # host
  BY <1>3
<1> HIDE DEF own, rest
<1>5. {workspaces[i].id : i \in own} = {id \in IdsOf(workspaces) : home[id] = host}
  BY <1>1, <1>3 DEF IdsOf
<1>6. {workspaces[i].id : i \in rest} = {id \in IdsOf(workspaces) : home[id] # host}
  BY <1>1, <1>4 DEF IdsOf
<1>7. {Pair(workspaces[i]) : i \in rest} \subseteq Shown(workspaces)
  BY <1>1 DEF Shown
<1>8. /\ WellList(List!Kept(workspaces, own))
      /\ IdsOf(List!Kept(workspaces, own)) = {workspaces[i].id : i \in own}
  BY <1>1, KeptIs
<1>9. /\ WellList(List!Kept(workspaces, rest))
      /\ Shown(List!Kept(workspaces, rest)) = {Pair(workspaces[i]) : i \in rest}
      /\ IdsOf(List!Kept(workspaces, rest)) = {workspaces[i].id : i \in rest}
  BY <1>1, KeptIs
<1> QED  BY <1>1, <1>5, <1>6, <1>7, <1>8, <1>9 DEF own, rest

LEMMA SnapshotIs ==
  ASSUME List!ListAssumption, ListShapes, NEW home \in [Nat -> Host], Homed(home),
         NEW host \in Host, List!Snapshot(host)
  PROVE  /\ WellList(workspaces') /\ ActiveIn(workspaces', activeId') /\ Truthful(workspaces', home)
         /\ IdsOf(workspaces') = {id \in IdsOf(workspaces) : home[id] # host} \cup stored[host]
<1> DEFINE own == List!OfHost(workspaces, host)
           rest == DOMAIN workspaces \ own
           both == {i \in own : workspaces[i].id \in stored[host]}
           news == stored[host] \ List!Ids
           ids == IdsOf(workspaces)
           l1 == List!Kept(workspaces, rest)
           l2 == List!Kept(workspaces, both)
<1>1. PICK new \in List!SetToSeqs(news) :
        /\ workspaces' = l1 \o l2 \o [i \in DOMAIN new |-> List!makeWorkspace(new[i], host)]
        /\ activeId' = IF List!Has(workspaces', activeId) THEN activeId ELSE List!First(workspaces')
  BY DEF List!Snapshot
<1> DEFINE l3 == [i \in DOMAIN new |-> List!makeWorkspace(new[i], host)]
<1>2. WellList(workspaces) /\ minted \in Nat /\ stored[host] \subseteq 1 .. minted
  BY DEF ListShapes
<1>3. Truthful(workspaces, home) /\ \A id \in stored[host] : home[id] = host
  BY DEF Homed
<1>4. own \in SUBSET DOMAIN workspaces /\ WellList(l1) /\ Shown(l1) \subseteq Shown(workspaces)
      /\ IdsOf(l1) = {id \in ids : home[id] # host}
  BY <1>2, <1>3, HostParts
<1>5. /\ WellList(l2) /\ Shown(l2) \subseteq Shown(workspaces)
      /\ IdsOf(l2) = ids \cap stored[host]
  <2>1. both \in SUBSET DOMAIN workspaces
    BY <1>4
  <2>2. \A i \in DOMAIN workspaces : home[workspaces[i].id] = workspaces[i].host
    BY <1>3, HomeIs
  <2>3. \A i \in DOMAIN workspaces : i \in both <=> workspaces[i].id \in stored[host]
    BY <1>3, <2>2 DEF List!OfHost
  <2> HIDE DEF both
  <2>4. {workspaces[i].id : i \in both} = ids \cap stored[host]
    BY <2>1, <2>3 DEF IdsOf
  <2>5. {Pair(workspaces[i]) : i \in both} \subseteq Shown(workspaces)
    BY <2>1 DEF Shown
  <2> QED  BY <1>2, <2>1, <2>4, <2>5, KeptIs
<1>6. WellList(l3) /\ Shown(l3) = {<<id, host>> : id \in news} /\ IdsOf(l3) = news
  <2>1. IsFiniteSet(1 .. minted)
    BY <1>2, FS_Interval
  <2>2. news \in SUBSET (1 .. minted) /\ news \in SUBSET (Nat \ {0})
    BY <1>2
  <2> HIDE DEF news
  <2>3. IsFiniteSet(news)
    BY <2>1, <2>2, FS_Subset
  <2> QED  BY <2>2, <2>3, FreshIs
<1>7. news \cap ids = {} /\ news \subseteq stored[host] /\ (ids \cap stored[host]) \cup news = stored[host]
  BY DEF List!Ids, IdsOf
<1> HIDE DEF l1, l2, l3, news, ids
<1>8. IdsOf(l1) \cap IdsOf(l2) = {}
  BY <1>3, <1>4, <1>5
<1>9. /\ WellList(l1 \o l2) /\ Shown(l1 \o l2) = Shown(l1) \cup Shown(l2)
      /\ IdsOf(l1 \o l2) = IdsOf(l1) \cup IdsOf(l2)
  BY <1>4, <1>5, <1>8, ConcatIs
<1>10. IdsOf(l1 \o l2) \cap IdsOf(l3) = {}
  BY <1>4, <1>5, <1>6, <1>7, <1>9
<1> DEFINE l12 == l1 \o l2
<1> HIDE DEF l12
<1>11. /\ WellList(l12 \o l3) /\ Shown(l12 \o l3) = Shown(l12) \cup Shown(l3)
       /\ IdsOf(l12 \o l3) = IdsOf(l12) \cup IdsOf(l3)
  BY <1>6, <1>9, <1>10, ConcatIs DEF l12
<1>12. workspaces' = l12 \o l3
  BY <1>1 DEF l12, l3
<1>13. IdsOf(workspaces') = {id \in ids : home[id] # host} \cup stored[host]
  BY <1>4, <1>5, <1>6, <1>7, <1>9, <1>11, <1>12 DEF l12
<1>14. Truthful(workspaces', home)
  <2>1. \A x \in Shown(workspaces') : x \in Shown(workspaces) \/ x \in {<<id, host>> : id \in news}
    BY <1>4, <1>5, <1>6, <1>9, <1>11, <1>12 DEF l12
  <2>2. \A x \in {<<id, host>> : id \in news} : home[x[1]] = x[2]
    BY <1>3, <1>7
  <2> QED  BY <1>3, <2>1, <2>2 DEF Truthful
<1>15. ActiveIn(workspaces', activeId')
  BY <1>1, <1>11, <1>12, KeptActive
<1> QED  BY <1>11, <1>12, <1>13, <1>14, <1>15 DEF ids

-----------------------------------------------------------------------------
(* Steps.                                                                  *)

\* What the user does to the list of what is there.
LEMMA ClickKeeps ==
  ASSUME ListInv, NEW list, WellList(list), Shown(list) \subseteq Shown(workspaces),
         NEW act, ActiveIn(list, act), NEW more \in SUBSET Task,
         \A t \in more : /\ t.id \in IdsOf(workspaces) /\ t.id \notin IdsOf(list)
                         /\ <<t.id, t.host>> \in Shown(workspaces),
         \A id \in IdsOf(workspaces) : id \in IdsOf(list) \/ \E t \in more : t.id = id,
         List!Click(list, act, more), UNCHANGED minted
  PROVE  ListInv'
<1>1. /\ workspaces' = list /\ activeId' = act /\ tasks' = tasks \cup more
      /\ stored' = stored /\ known' = known /\ reachable' = reachable /\ minted' = minted
  BY DEF List!Click
<1>2. PICK home \in [Nat -> Host] : Homed(home)
  BY DEF ListInv
<1>3. ListShapes /\ OffScreen
  BY DEF ListInv
<1>4. \A id \in IdsOf(list) : id \in IdsOf(workspaces)
  BY IdsAreShown
<1>5. ListShapes'
  <2>1. IdsOf(list) \subseteq 1 .. minted
    BY <1>3, <1>4 DEF ListShapes
  <2>2. \A t \in more : t.id \in 1 .. minted
    BY <1>3 DEF ListShapes
  <2> QED  BY <1>1, <1>3, <2>1, <2>2 DEF ListShapes
<1>6. OffScreen'
  BY <1>1, <1>3, <1>4 DEF OffScreen
<1>7. Homed(home)'
  <2>1. Truthful(list, home)
    BY <1>2 DEF Homed, Truthful
  <2>2. \A t \in more : home[t.id] = t.host
    BY <1>2 DEF Homed, Truthful
  <2>3. \A t \in tasks' : home[t.id] = t.host
    BY <1>1, <1>2, <2>2 DEF Homed
  <2>4. ASSUME NEW id \in 1 .. minted, home[id] \in reachable, \A t \in tasks' : t.id # id
        PROVE  id \in IdsOf(list) <=> id \in stored[home[id]]
    <3>1. id \in IdsOf(workspaces) <=> id \in IdsOf(list)
      BY <1>1, <1>4, <2>4
    <3> QED  BY <1>1, <1>2, <2>4, <3>1 DEF Homed
  <2>5. \A h \in Host : \A id \in stored[h] : home[id] = h
    BY <1>2 DEF Homed
  <2> QED  BY <1>1, <2>1, <2>3, <2>4, <2>5 DEF Homed
<1> QED  BY <1>1, <1>5, <1>6, <1>7 DEF ListInv

\* What happens to one id, a new one or one that was there.
LEMMA OneKeeps ==
  ASSUME ListInv, NEW home \in [Nat -> Host], Homed(home),
         minted' \in Nat, minted <= minted', NEW one \in 1 .. minted',
         \A id \in 1 .. minted' : id \in 1 .. minted \/ id = one,
         WellList(workspaces'), ActiveIn(workspaces', activeId'),
         \A x \in Shown(workspaces') : x \in Shown(workspaces) \/ x = <<one, home[one]>>,
         \A id \in Nat : id # one => (id \in IdsOf(workspaces') <=> id \in IdsOf(workspaces)),
         stored' \in [Host -> SUBSET (1 .. minted')],
         \A h \in Host : \A id \in Nat :
           /\ id # one => (id \in stored'[h] <=> id \in stored[h])
           /\ id = one /\ id \in stored'[h] => h = home[one],
         known' \subseteq Host \X (1 .. minted'), reachable' = reachable,
         \A t \in tasks' : t \in tasks \/ (t \in Task /\ t.id = one /\ t.host = home[one]),
         \A t \in tasks : t \in tasks' \/ t.id = one,
         \A t \in tasks' : t.id = one /\ t.op = "delete" => one \notin IdsOf(workspaces'),
         home[one] \in reachable /\ (\A t \in tasks' : t.id # one)
           => (one \in IdsOf(workspaces') <=> one \in stored'[home[one]])
  PROVE  ListInv'
<1>1. ListShapes /\ OffScreen
  BY DEF ListInv
<1>2. IdsOf(workspaces') \subseteq 1 .. minted'
  <2>1. IdsOf(workspaces') \subseteq Nat
    BY IdsAreNat
  <2>2. IdsOf(workspaces) \subseteq 1 .. minted'
    BY <1>1 DEF ListShapes
  <2> QED  BY <2>1, <2>2
<1>3. ListShapes'
  <2>1. \A t \in tasks : t \in Task /\ t.id \in 1 .. minted'
    BY <1>1 DEF ListShapes
  <2>2. tasks' \subseteq Task /\ \A t \in tasks' : t.id \in 1 .. minted'
    BY <2>1
  <2>3. reachable \subseteq Host
    BY <1>1 DEF ListShapes
  <2> QED  BY <1>2, <2>2, <2>3 DEF ListShapes
<1>4. OffScreen'
  <2>1. ASSUME NEW t \in tasks', t.op = "delete", t.id \in IdsOf(workspaces') PROVE FALSE
    <3>1. t.id # one /\ t \in tasks
      BY <2>1
    <3>2. t.id \in Nat
      BY <1>1, <3>1 DEF ListShapes
    <3> QED  BY <1>1, <2>1, <3>1, <3>2 DEF OffScreen
  <2> QED  BY <2>1 DEF OffScreen
<1>5. Homed(home)'
  <2>1. Truthful(workspaces', home)
    BY DEF Homed, Truthful
  <2>2. \A h \in Host : \A id \in stored'[h] : home[id] = h
    BY DEF Homed
  <2>3. \A t \in tasks' : home[t.id] = t.host
    BY DEF Homed
  <2>4. ASSUME NEW id \in 1 .. minted', home[id] \in reachable, \A t \in tasks' : t.id # id
        PROVE  id \in IdsOf(workspaces') <=> id \in stored'[home[id]]
    <3>1. CASE id = one
      BY <2>4, <3>1
    <3>2. CASE id # one
      <4>1. id \in 1 .. minted /\ id \in Nat /\ home[id] \in Host
        BY <3>2
      <4>2. \A t \in tasks : t.id # id
        BY <2>4, <3>2
      <4>3. id \in IdsOf(workspaces) <=> id \in stored[home[id]]
        BY <2>4, <4>1, <4>2 DEF Homed
      <4> QED  BY <3>2, <4>1, <4>3
    <3> QED  BY <3>1, <3>2
  <2> QED  BY <2>1, <2>2, <2>3, <2>4 DEF Homed
<1> QED  BY <1>3, <1>4, <1>5 DEF ListInv

\* A new id belongs where it is made.
LEMMA FreshHome ==
  ASSUME ListShapes, NEW home \in [Nat -> Host], Homed(home), NEW host \in Host
  PROVE  /\ [home EXCEPT ![minted + 1] = host] \in [Nat -> Host]
         /\ [home EXCEPT ![minted + 1] = host][minted + 1] = host
         /\ Homed([home EXCEPT ![minted + 1] = host])
<1> DEFINE home2 == [home EXCEPT ![minted + 1] = host]
<1>1. minted \in Nat /\ minted + 1 \in Nat /\ \A id \in 1 .. minted : id \in Nat /\ id # minted + 1
  BY DEF ListShapes
<1>2. home2 \in [Nat -> Host] /\ home2[minted + 1] = host /\ \A id \in 1 .. minted : home2[id] = home[id]
  BY <1>1
<1> HIDE DEF home2
<1>3. Truthful(workspaces, home2)
  <2>1. \A x \in Shown(workspaces) : x[1] \in 1 .. minted
    BY IdsAreShown DEF ListShapes
  <2> QED  BY <1>2, <2>1 DEF Homed, Truthful
<1>4. \A h \in Host : \A id \in stored[h] : home2[id] = h
  <2>1. \A h \in Host : \A id \in stored[h] : id \in 1 .. minted
    BY DEF ListShapes
  <2> QED  BY <1>2, <2>1 DEF Homed
<1>5. \A t \in tasks : home2[t.id] = t.host
  BY <1>2 DEF Homed, ListShapes
<1>6. \A id \in 1 .. minted : home2[id] \in reachable /\ (\A t \in tasks : t.id # id)
        => (id \in IdsOf(workspaces) <=> id \in stored[home2[id]])
  BY <1>2 DEF Homed
<1> QED  BY <1>2, <1>3, <1>4, <1>5, <1>6 DEF Homed, home2

LEMMA DeletionIs ==
  ASSUME ListInv, NEW id \in List!Ids
  PROVE  /\ List!Deletion(List!Entry(id)) \in Task /\ List!Deletion(List!Entry(id)).id = id
         /\ <<id, List!Deletion(List!Entry(id)).host>> \in Shown(workspaces)
<1>1. PICK home \in [Nat -> Host] : Homed(home)
  BY DEF ListInv
<1>2. /\ List!Entry(id) \in Workspace /\ List!Entry(id).id = id /\ List!Entry(id).host = home[id]
      /\ <<id, home[id]>> \in Shown(workspaces)
  BY <1>1, EntryIs DEF ListInv, ListShapes, Homed
<1> QED  BY <1>2 DEF List!Deletion, Task, Workspace

LEMMA StepRemove ==
  ASSUME List!ListAssumption, ListInv, NEW id \in List!Ids, List!removeWorkspace(id)
  PROVE  ListInv'
<1> DEFINE list == List!Without(workspaces, id)
           act == IF activeId = id THEN List!First(list) ELSE activeId
           more == {List!Deletion(List!Entry(id))}
<1>1. WellList(workspaces) /\ ActiveIn(workspaces, activeId)
  BY DEF ListInv, ListShapes
<1>2. WellList(list) /\ Shown(list) \subseteq Shown(workspaces) /\ IdsOf(list) = IdsOf(workspaces) \ {id}
  BY <1>1, WithoutIs
<1>3. List!Click(list, act, more) /\ UNCHANGED minted
  BY DEF List!removeWorkspace
<1>4. ActiveIn(list, act)
  <2> HIDE DEF list
  <2> QED  BY <1>1, <1>2, RemovedActive
<1>5. \A t \in more : t \in Task /\ t.id = id /\ <<id, t.host>> \in Shown(workspaces)
  BY DeletionIs
<1>6. id \in IdsOf(workspaces) /\ \E t \in more : t.id = id
  BY <1>5 DEF List!Ids, IdsOf
<1> HIDE DEF list, act, more
<1>7. more \in SUBSET Task /\ \A x \in IdsOf(workspaces) : x \in IdsOf(list) \/ \E t \in more : t.id = x
  BY <1>2, <1>5, <1>6
<1>8. \A t \in more : /\ t.id \in IdsOf(workspaces) /\ t.id \notin IdsOf(list)
                      /\ <<t.id, t.host>> \in Shown(workspaces)
  BY <1>2, <1>5, <1>6
<1> QED  BY <1>2, <1>3, <1>4, <1>7, <1>8, ClickKeeps

LEMMA SameKeeps ==
  ASSUME List!ListAssumption, ListInv, NEW list, WellList(list), Shown(list) = Shown(workspaces),
         IdsOf(list) = IdsOf(workspaces), NEW act, act = activeId \/ act \in List!Ids,
         List!Click(list, act, {}), UNCHANGED minted
  PROVE  ListInv'
<1>1. WellList(workspaces) /\ ActiveIn(workspaces, activeId) /\ List!Ids = IdsOf(workspaces)
  BY DEF ListInv, ListShapes, List!Ids, IdsOf
<1>2. ActiveIn(list, act)
  <2>1. CASE act \in List!Ids
    BY <1>1, <2>1, MemberActive
  <2>2. CASE act = activeId
    BY <1>1, <2>2, FirstIs DEF ActiveIn
  <2> QED  BY <2>1, <2>2
<1> QED  BY <1>2, ClickKeeps

LEMMA BulkKeeps ==
  ASSUME List!ListAssumption, ListInv, NEW anchor \in List!Ids, NEW stays \in SUBSET List!Ids, anchor \in stays,
         NEW goes \in SUBSET List!Ids, \A id \in List!Ids : id \in goes <=> id \notin stays,
         List!BulkClose(anchor, stays, goes)
  PROVE  ListInv'
<1> DEFINE at == {i \in DOMAIN workspaces : workspaces[i].id \in stays}
           list == List!Kept(workspaces, at)
           act == IF List!Has(list, activeId) THEN activeId ELSE anchor
           more == {List!Deletion(List!Entry(id)) : id \in goes}
<1>1. WellList(workspaces) /\ List!Ids = IdsOf(workspaces)
  BY DEF ListInv, ListShapes, List!Ids, IdsOf
<1>2. WellList(list) /\ Shown(list) \subseteq Shown(workspaces) /\ IdsOf(list) = stays
  <2>1. at \in SUBSET DOMAIN workspaces
    OBVIOUS
  <2>2. {workspaces[i].id : i \in at} = stays /\ {Pair(workspaces[i]) : i \in at} \subseteq Shown(workspaces)
    BY DEF List!Ids, Shown
  <2> HIDE DEF at
  <2> QED  BY <1>1, <2>1, <2>2, KeptIs
<1>3. List!Click(list, act, more) /\ UNCHANGED minted
  BY DEF List!BulkClose
<1> HIDE DEF list
<1>4. ActiveIn(list, act)
  BY <1>2, HasIs, MemberActive
<1>5. \A t \in more : t \in Task /\ t.id \in goes /\ <<t.id, t.host>> \in Shown(workspaces)
  BY DeletionIs
<1>6. \A id \in goes : \E t \in more : t.id = id
  BY DeletionIs
<1> HIDE DEF act, more
<1>7. \A id \in IdsOf(workspaces) : id \in IdsOf(list) \/ \E t \in more : t.id = id
  BY <1>1, <1>2, <1>6
<1> QED  BY <1>1, <1>2, <1>3, <1>4, <1>5, <1>7, ClickKeeps

LEMMA StepOneWorkspace ==
  ASSUME List!ListAssumption, ListInv, NEW id \in List!Ids, List!OneWorkspace(id)
  PROVE  ListInv'
<1>1. WellList(workspaces) /\ List!Ids = IdsOf(workspaces)
  BY DEF ListInv, ListShapes, List!Ids, IdsOf
<1>2. \A x \in List!Ids : List!At(x) \in Nat
  BY <1>1, IndexIs DEF List!At, WellList
<1>3. CASE List!removeWorkspace(id)
  BY <1>3, StepRemove
<1>4. CASE List!setActiveWorkspace(id)
  BY <1>1, <1>4, SameKeeps DEF List!setActiveWorkspace
<1>5. CASE List!toggleWorkspacePin(id)
  BY <1>1, <1>5, PinIs, SameKeeps DEF List!toggleWorkspacePin
<1>6. ASSUME NEW u \in List!Ids \ {id}, NEW side \in {"before", "after"}, List!reorderWorkspace(id, u, side)
      PROVE  ListInv'
  BY <1>1, <1>6, AnchorIs, SameKeeps DEF List!reorderWorkspace
<1>7. CASE List!closeOtherWorkspaces(id)
  <2> DEFINE stays == {x \in List!Ids : List!Elsewhere(x, id) \/ x = id \/ List!Entry(x).pinned}
             goes == {x \in List!Ids : ~List!Elsewhere(x, id) /\ x # id /\ ~List!Entry(x).pinned}
  <2>1. List!BulkClose(id, stays, goes)
    BY <1>7 DEF List!closeOtherWorkspaces
  <2>2. id \in stays /\ stays \in SUBSET List!Ids /\ goes \in SUBSET List!Ids
        /\ \A x \in List!Ids : x \in goes <=> x \notin stays
    OBVIOUS
  <2> HIDE DEF stays, goes
  <2> QED  BY <2>1, <2>2, BulkKeeps
<1>8. CASE List!closeWorkspacesBefore(id)
  <2> DEFINE stays == {x \in List!Ids : List!Elsewhere(x, id) \/ List!At(x) >= List!At(id) \/ List!Entry(x).pinned}
             goes == {x \in List!Ids : ~List!Elsewhere(x, id) /\ List!At(x) < List!At(id) /\ ~List!Entry(x).pinned}
  <2>1. List!BulkClose(id, stays, goes)
    BY <1>8 DEF List!closeWorkspacesBefore
  <2>2. \A x \in List!Ids : List!At(x) < List!At(id) <=> ~(List!At(x) >= List!At(id))
    BY <1>2
  <2>3. List!At(id) >= List!At(id)
    BY <1>2
  <2>4. id \in stays /\ stays \in SUBSET List!Ids /\ goes \in SUBSET List!Ids
        /\ \A x \in List!Ids : x \in goes <=> x \notin stays
    BY <2>2, <2>3
  <2> HIDE DEF stays, goes
  <2> QED  BY <2>1, <2>4, BulkKeeps
<1>9. CASE List!closeWorkspacesAfter(id)
  <2> DEFINE stays == {x \in List!Ids : List!Elsewhere(x, id) \/ List!At(x) <= List!At(id) \/ List!Entry(x).pinned}
             goes == {x \in List!Ids : ~List!Elsewhere(x, id) /\ List!At(x) > List!At(id) /\ ~List!Entry(x).pinned}
  <2>1. List!BulkClose(id, stays, goes)
    BY <1>9 DEF List!closeWorkspacesAfter
  <2>2. \A x \in List!Ids : List!At(x) > List!At(id) <=> ~(List!At(x) <= List!At(id))
    BY <1>2
  <2>3. List!At(id) <= List!At(id)
    BY <1>2
  <2>4. id \in stays /\ stays \in SUBSET List!Ids /\ goes \in SUBSET List!Ids
        /\ \A x \in List!Ids : x \in goes <=> x \notin stays
    BY <2>2, <2>3
  <2> HIDE DEF stays, goes
  <2> QED  BY <2>1, <2>4, BulkKeeps
<1> QED  BY <1>3, <1>4, <1>5, <1>6, <1>7, <1>8, <1>9 DEF List!OneWorkspace

LEMMA StepCascade ==
  ASSUME List!ListAssumption, ListInv, List!closeCascade
  PROVE  ListInv'
<1>1. activeId \in List!Ids
  BY DEF ListInv, ActiveIn, List!closeCascade, List!Ids, IdsOf
<1> QED  BY <1>1, StepRemove DEF List!closeCascade

LEMMA StepAdd ==
  ASSUME List!ListAssumption, ListInv, NEW host \in Host, List!addWorkspaceOnHost(host)
  PROVE  ListInv'
<1> DEFINE one == minted + 1
           w == List!makeWorkspace(one, host)
           task == [id |-> one, host |-> host, op |-> "create"]
<1>1. ListShapes /\ WellList(workspaces) /\ minted \in Nat /\ one \in Nat \ {0}
  BY DEF ListInv, ListShapes
<1>2. PICK old \in [Nat -> Host] : Homed(old)
  BY DEF ListInv
<1> DEFINE new == [old EXCEPT ![minted + 1] = host]
<1>3. new \in [Nat -> Host] /\ new[one] = host /\ Homed(new)
  BY <1>1, <1>2, FreshHome
<1>4. /\ minted' = one /\ workspaces' = Append(workspaces, w) /\ activeId' = one
      /\ tasks' = tasks \cup {task}
      /\ stored' = stored /\ known' = known /\ reachable' = reachable
  BY DEF List!addWorkspaceOnHost, List!Click
<1>5. w \in Workspace /\ w.id = one /\ Pair(w) = <<one, host>>
  BY <1>1 DEF List!makeWorkspace, Workspace, Pair
<1>6. task \in Task /\ task.id = one /\ task.host = host /\ task.op # "delete"
  BY <1>1 DEF Task
<1>7. one \notin IdsOf(workspaces)
  BY <1>1 DEF ListShapes
<1> HIDE DEF new, w, task
<1>8. /\ WellList(workspaces')
      /\ Shown(workspaces') = Shown(workspaces) \cup {<<one, host>>}
      /\ IdsOf(workspaces') = IdsOf(workspaces) \cup {one}
  BY <1>1, <1>4, <1>5, <1>7, AppendIs
<1>9. ActiveIn(workspaces', activeId')
  BY <1>4, <1>8, MemberActive
<1>10. one \in 1 .. minted' /\ (\A id \in 1 .. minted' : id \in 1 .. minted \/ id = one)
       /\ minted' \in Nat /\ minted <= minted'
  BY <1>1, <1>4
<1>11. /\ stored' \in [Host -> SUBSET (1 .. minted')] /\ known' \subseteq Host \X (1 .. minted')
       /\ \A h \in Host : one \notin stored[h]
  <2>1. \A id \in 1 .. minted : id \in 1 .. minted' /\ id # one
    BY <1>1, <1>4
  <2> HIDE DEF one
  <2> QED  BY <1>1, <1>4, <2>1 DEF ListShapes
<1>12. \A t \in tasks : t.id # one
  BY <1>1 DEF ListShapes
<1>13. \A x \in Shown(workspaces') : x \in Shown(workspaces) \/ x = <<one, new[one]>>
  BY <1>3, <1>8
<1> HIDE DEF one
<1>14. \A id \in Nat : id # one => (id \in IdsOf(workspaces') <=> id \in IdsOf(workspaces))
  BY <1>8
<1>15. \A h \in Host : \A id \in Nat :
         /\ id # one => (id \in stored'[h] <=> id \in stored[h])
         /\ id = one /\ id \in stored'[h] => h = new[one]
  BY <1>4, <1>11
<1>16. /\ \A t \in tasks' : t \in tasks \/ (t \in Task /\ t.id = one /\ t.host = new[one])
       /\ \A t \in tasks : t \in tasks' \/ t.id = one
       /\ \A t \in tasks' : t.id = one /\ t.op = "delete" => one \notin IdsOf(workspaces')
       /\ \E t \in tasks' : t.id = one
  BY <1>3, <1>4, <1>6, <1>12
<1>17. new[one] \in reachable /\ (\A t \in tasks' : t.id # one)
         => (one \in IdsOf(workspaces') <=> one \in stored'[new[one]])
  BY <1>16
<1>18. WellList(workspaces') /\ reachable' = reachable
  BY <1>4, <1>8
<1> QED  BY <1>3, <1>9, <1>10, <1>11, <1>13, <1>14, <1>15, <1>16, <1>17, <1>18, OneKeeps

LEMMA StepOtherCreates ==
  ASSUME List!ListAssumption, ListInv, NEW host \in Host, List!OtherCreates(host)
  PROVE  ListInv'
<1> DEFINE one == minted + 1
<1>1. ListShapes /\ WellList(workspaces) /\ minted \in Nat /\ one \in Nat \ {0}
      /\ ActiveIn(workspaces, activeId)
  BY DEF ListInv, ListShapes
<1>2. PICK old \in [Nat -> Host] : Homed(old)
  BY DEF ListInv
<1> DEFINE new == [old EXCEPT ![minted + 1] = host]
<1>3. new \in [Nat -> Host] /\ new[one] = host /\ Homed(new)
  BY <1>1, <1>2, FreshHome
<1>4. /\ minted' = one /\ tasks' = tasks /\ reachable' = reachable
      /\ stored' = [stored EXCEPT ![host] = @ \cup {one}]
      /\ IF host \in reachable THEN known' = known \cup {<<host, one>>} /\ List!Upsert(one, host)
         ELSE UNCHANGED <<workspaces, activeId, known>>
  BY DEF List!OtherCreates
<1> HIDE DEF new
<1>5. /\ WellList(workspaces') /\ ActiveIn(workspaces', activeId')
      /\ Shown(workspaces') \subseteq Shown(workspaces) \cup {<<one, host>>}
      /\ \A id \in Nat : id # one => (id \in IdsOf(workspaces') <=> id \in IdsOf(workspaces))
      /\ host \in reachable => one \in IdsOf(workspaces')
      /\ known' \subseteq known \cup {<<host, one>>}
  <2>1. CASE host \in reachable
    <3>1. List!Upsert(one, host) /\ known' = known \cup {<<host, one>>}
      BY <1>4, <2>1
    <3>2. /\ WellList(workspaces') /\ ActiveIn(workspaces', activeId')
          /\ Shown(workspaces') \subseteq Shown(workspaces) \cup {<<one, host>>}
          /\ IdsOf(workspaces') = IdsOf(workspaces) \cup {one}
      BY <1>1, <3>1, UpsertIs
    <3> QED  BY <3>1, <3>2
  <2>2. CASE host \notin reachable
    <3>1. workspaces' = workspaces /\ activeId' = activeId /\ known' = known
      BY <1>4, <2>2
    <3> QED  BY <1>1, <2>2, <3>1
  <2> QED  BY <2>1, <2>2
<1>6. one \in 1 .. minted' /\ (\A id \in 1 .. minted' : id \in 1 .. minted \/ id = one)
      /\ minted' \in Nat /\ minted <= minted'
  BY <1>1, <1>4
<1>7. \A id \in 1 .. minted : id \in 1 .. minted' /\ id # one
  BY <1>1, <1>4
<1>8. \A t \in tasks : t.id # one
  BY <1>1 DEF ListShapes
<1> HIDE DEF one
<1>9. stored \in [Host -> SUBSET (1 .. minted)] /\ known \subseteq Host \X (1 .. minted)
  BY <1>1 DEF ListShapes
<1>10. stored' \in [Host -> SUBSET (1 .. minted')]
  <2>1. \A h \in Host : stored[h] \cup {one} \in SUBSET (1 .. minted') /\ stored[h] \in SUBSET (1 .. minted')
    BY <1>6, <1>7, <1>9
  <2> QED  BY <1>4, <1>9, <2>1
<1>11. \A h \in Host : \A id \in Nat :
         /\ id # one => (id \in stored'[h] <=> id \in stored[h])
         /\ id = one /\ id \in stored'[h] => h = new[one]
  <2>1. \A h \in Host : one \notin stored[h]
    BY <1>7, <1>9
  <2>2. \A h \in Host : stored'[h] = IF h = host THEN stored[h] \cup {one} ELSE stored[h]
    BY <1>4, <1>9
  <2> QED  BY <1>3, <2>1, <2>2
<1>12. new[one] \in reachable => one \in stored'[new[one]] /\ one \in IdsOf(workspaces')
  BY <1>3, <1>4, <1>5, <1>9
<1>13. known' \subseteq Host \X (1 .. minted')
  BY <1>5, <1>6, <1>7, <1>9
<1>14. \A x \in Shown(workspaces') : x \in Shown(workspaces) \/ x = <<one, new[one]>>
  BY <1>3, <1>5
<1>15. \A id \in Nat : id # one => (id \in IdsOf(workspaces') <=> id \in IdsOf(workspaces))
  BY <1>5
<1>16. /\ \A t \in tasks' : t \in tasks \/ (t \in Task /\ t.id = one /\ t.host = new[one])
       /\ \A t \in tasks : t \in tasks' \/ t.id = one
       /\ \A t \in tasks' : t.id = one /\ t.op = "delete" => one \notin IdsOf(workspaces')
  BY <1>4, <1>8
<1> QED  BY <1>3, <1>4, <1>5, <1>6, <1>10, <1>11, <1>12, <1>13, <1>14, <1>15, <1>16,
            OneKeeps

LEMMA StepOtherDeletes ==
  ASSUME List!ListAssumption, ListInv, NEW host \in Host, List!OtherDeletes(host)
  PROVE  ListInv'
<1>1. ListShapes /\ WellList(workspaces) /\ minted \in Nat /\ ActiveIn(workspaces, activeId)
  BY DEF ListInv, ListShapes
<1>2. PICK home \in [Nat -> Host] : Homed(home)
  BY DEF ListInv
<1>3. PICK one \in stored[host] :
        /\ stored' = [stored EXCEPT ![host] = @ \ {one}]
        /\ IF host \in reachable THEN known' = known \ {<<host, one>>} /\ List!Removed(one)
           ELSE UNCHANGED <<workspaces, activeId, known>>
        /\ tasks' = tasks /\ reachable' = reachable /\ minted' = minted
        /\ ~\E t \in tasks : t.id = one
  BY DEF List!OtherDeletes
<1>4. /\ WellList(workspaces') /\ ActiveIn(workspaces', activeId')
      /\ Shown(workspaces') \subseteq Shown(workspaces)
      /\ \A id \in Nat : id # one => (id \in IdsOf(workspaces') <=> id \in IdsOf(workspaces))
      /\ host \in reachable => one \notin IdsOf(workspaces')
      /\ known' \subseteq known
  <2>1. CASE host \in reachable
    <3>1. List!Removed(one) /\ known' = known \ {<<host, one>>}
      BY <1>3, <2>1
    <3>2. /\ WellList(workspaces') /\ ActiveIn(workspaces', activeId')
          /\ Shown(workspaces') \subseteq Shown(workspaces)
          /\ IdsOf(workspaces') = IdsOf(workspaces) \ {one}
      BY <1>1, <3>1, RemovedIs
    <3> QED  BY <3>1, <3>2
  <2>2. CASE host \notin reachable
    <3>1. workspaces' = workspaces /\ activeId' = activeId /\ known' = known
      BY <1>3, <2>2
    <3> QED  BY <1>1, <2>2, <3>1
  <2> QED  BY <2>1, <2>2
<1>5. stored \in [Host -> SUBSET (1 .. minted)] /\ known \subseteq Host \X (1 .. minted) /\ one \in 1 .. minted
  BY <1>1 DEF ListShapes
<1>6. home[one] = host
  BY <1>2 DEF Homed
<1>7. stored' \in [Host -> SUBSET (1 .. minted')] /\ known' \subseteq Host \X (1 .. minted')
  BY <1>3, <1>4, <1>5
<1>8. \A h \in Host : stored'[h] = IF h = host THEN stored[h] \ {one} ELSE stored[h]
  BY <1>3, <1>5
<1>9. \A h \in Host : \A id \in Nat :
        /\ id # one => (id \in stored'[h] <=> id \in stored[h])
        /\ id = one /\ id \in stored'[h] => h = home[one]
  <2>1. \A h \in Host : one \in stored[h] => h = home[one]
    BY <1>2 DEF Homed
  <2> QED  BY <1>8, <2>1
<1>10. home[one] \in reachable => one \notin stored'[home[one]] /\ one \notin IdsOf(workspaces')
  BY <1>4, <1>6, <1>8
<1>11. minted' \in Nat /\ minted <= minted' /\ one \in 1 .. minted'
       /\ \A id \in 1 .. minted' : id \in 1 .. minted \/ id = one
  BY <1>1, <1>3, <1>5
<1>12. \A id \in Nat : id # one => (id \in IdsOf(workspaces') <=> id \in IdsOf(workspaces))
  BY <1>4
<1> QED  BY <1>2, <1>3, <1>4, <1>7, <1>9, <1>10, <1>11, <1>12, OneKeeps

LEMMA StepDisconnect ==
  ASSUME ListInv, NEW host \in Host, List!Disconnect(host)
  PROVE  ListInv'
<1>1. /\ reachable' = reachable \ {host} /\ workspaces' = workspaces /\ activeId' = activeId
      /\ stored' = stored /\ known' = known /\ tasks' = tasks /\ minted' = minted
  BY DEF List!Disconnect
<1>2. PICK home \in [Nat -> Host] : Homed(home)
  BY DEF ListInv
<1>3. Homed(home)'
  BY <1>1, <1>2 DEF Homed
<1> QED  BY <1>1, <1>3 DEF ListInv, ListShapes, OffScreen

LEMMA StepServed ==
  ASSUME List!ListAssumption, ListInv, NEW task \in tasks, List!Served(task),
         task.op = "delete" => ~\E t \in tasks : t.id = task.id /\ t.op = "create"
  PROVE  ListInv'
<1> DEFINE one == task.id
           host == task.host
<1>1. ListShapes /\ WellList(workspaces) /\ minted \in Nat /\ ActiveIn(workspaces, activeId)
  BY DEF ListInv, ListShapes
<1>2. PICK home \in [Nat -> Host] : Homed(home)
  BY DEF ListInv
<1>3. /\ task \in Task /\ one \in 1 .. minted /\ one \in Nat \ {0} /\ host \in Host
      /\ home[one] = host /\ task.op \in {"create", "delete"}
  <2>1. task \in Task /\ one \in 1 .. minted
    BY <1>1 DEF ListShapes
  <2>2. one \in Nat \ {0} /\ host \in Host /\ task.op \in {"create", "delete"}
    BY <2>1 DEF Task
  <2> QED  BY <1>2, <2>1, <2>2 DEF Homed
<1>4. tasks' = tasks \ {task} /\ reachable' = reachable /\ minted' = minted
  BY DEF List!Served
<1>5. stored \in [Host -> SUBSET (1 .. minted)] /\ known \subseteq Host \X (1 .. minted)
  BY <1>1 DEF ListShapes
<1> HIDE DEF one, host
<1>6. ASSUME WellList(workspaces'), ActiveIn(workspaces', activeId'),
             \A x \in Shown(workspaces') : x \in Shown(workspaces) \/ x = <<one, host>>,
             \A id \in Nat : id # one => (id \in IdsOf(workspaces') <=> id \in IdsOf(workspaces)),
             NEW S \in SUBSET {one}, stored' = [stored EXCEPT ![host] = (@ \ {one}) \cup S],
             known' \subseteq Host \X (1 .. minted),
             \A t \in tasks' : t.id = one /\ t.op = "delete" => one \notin IdsOf(workspaces'),
             host \in reachable /\ (\A t \in tasks' : t.id # one)
               => (one \in IdsOf(workspaces') <=> one \in S)
      PROVE  ListInv'
  <2>1. \A h \in Host : stored'[h] = IF h = host THEN (stored[h] \ {one}) \cup S ELSE stored[h]
    BY <1>5, <1>6
  <2>2. stored' \in [Host -> SUBSET (1 .. minted)]
    <3>1. S \subseteq 1 .. minted
      BY <1>3
    <3> QED  BY <1>5, <1>6, <3>1
  <2>3. \A h \in Host : one \in stored[h] => h = home[one]
    BY <1>2 DEF Homed
  <2>4. \A h \in Host : \A id \in Nat :
          /\ id # one => (id \in stored'[h] <=> id \in stored[h])
          /\ id = one /\ id \in stored'[h] => h = home[one]
    BY <1>3, <2>1, <2>3
  <2>5. one \in stored'[home[one]] <=> one \in S
    BY <1>3, <2>1
  <2>6. minted' \in Nat /\ minted <= minted' /\ one \in 1 .. minted'
        /\ \A id \in 1 .. minted' : id \in 1 .. minted \/ id = one
    BY <1>1, <1>3, <1>4
  <2>7. /\ \A t \in tasks' : t \in tasks
        /\ \A t \in tasks : t \in tasks' \/ t.id = one
    BY <1>4 DEF one
  <2>8. stored' \in [Host -> SUBSET (1 .. minted')] /\ known' \subseteq Host \X (1 .. minted') /\ reachable' = reachable
    BY <1>4, <1>6, <2>2
  <2>9. \A x \in Shown(workspaces') : x \in Shown(workspaces) \/ x = <<one, home[one]>>
    BY <1>3, <1>6
  <2>10. home[one] \in reachable /\ (\A t \in tasks' : t.id # one)
           => (one \in IdsOf(workspaces') <=> one \in stored'[home[one]])
    BY <1>3, <1>6, <2>5
  <2> QED  BY <1>2, <1>6, <2>4, <2>6, <2>7, <2>8, <2>9, <2>10, OneKeeps
<1> DEFINE held == IF one \in stored[host] THEN {one} ELSE {}
<1>7. stored = [stored EXCEPT ![host] = (@ \ {one}) \cup held] /\ held \in SUBSET {one}
  <2>1. (stored[host] \ {one}) \cup held = stored[host]
    OBVIOUS
  <2> QED  BY <1>3, <1>5, <2>1
<1> HIDE DEF held
\* The list loses the id.
<1>8. ASSUME List!Removed(one)
      PROVE  /\ WellList(workspaces') /\ ActiveIn(workspaces', activeId')
             /\ \A x \in Shown(workspaces') : x \in Shown(workspaces) \/ x = <<one, host>>
             /\ \A id \in Nat : id # one => (id \in IdsOf(workspaces') <=> id \in IdsOf(workspaces))
             /\ one \notin IdsOf(workspaces')
  BY <1>1, <1>8, RemovedIs
\* It gets it.
<1>9. ASSUME List!Upsert(one, host)
      PROVE  /\ WellList(workspaces') /\ ActiveIn(workspaces', activeId')
             /\ \A x \in Shown(workspaces') : x \in Shown(workspaces) \/ x = <<one, host>>
             /\ \A id \in Nat : id # one => (id \in IdsOf(workspaces') <=> id \in IdsOf(workspaces))
             /\ one \in IdsOf(workspaces')
  BY <1>1, <1>3, <1>9, UpsertIs
\* It stays.
<1>10. ASSUME UNCHANGED <<workspaces, activeId>>
       PROVE  /\ WellList(workspaces') /\ ActiveIn(workspaces', activeId')
              /\ \A x \in Shown(workspaces') : x \in Shown(workspaces) \/ x = <<one, host>>
              /\ \A id \in Nat : id # one => (id \in IdsOf(workspaces') <=> id \in IdsOf(workspaces))
              /\ \A t \in tasks' : t.id = one /\ t.op = "delete" => one \notin IdsOf(workspaces')
  <2>1. workspaces' = workspaces /\ activeId' = activeId
    BY <1>10
  <2>2. \A t \in tasks : t.op = "delete" => t.id \notin IdsOf(workspaces)
    BY DEF ListInv, OffScreen
  <2>3. \A t \in tasks' : t \in tasks
    BY <1>4
  <2> QED  BY <1>1, <2>1, <2>2, <2>3
<1>11. CASE host \in reachable /\ task.op = "create"
  <2>1. /\ stored' = [stored EXCEPT ![host] = @ \cup {one}] /\ known' = known \cup {<<host, one>>}
        /\ IF \E t \in tasks' : t.id = one THEN UNCHANGED <<workspaces, activeId>>
           ELSE List!Upsert(one, host)
    BY <1>11 DEF List!Served, one, host
  <2>2. stored' = [stored EXCEPT ![host] = (@ \ {one}) \cup {one}] /\ known' \subseteq Host \X (1 .. minted)
    <3>1. stored[host] \cup {one} = (stored[host] \ {one}) \cup {one}
      OBVIOUS
    <3>2. stored' = [stored EXCEPT ![host] = (@ \ {one}) \cup {one}]
      BY <1>5, <2>1, <3>1
    <3>3. <<host, one>> \in Host \X (1 .. minted)
      BY <1>3
    <3> QED  BY <1>5, <2>1, <3>2, <3>3
  <2>3. CASE \E t \in tasks' : t.id = one
    <3>1. UNCHANGED <<workspaces, activeId>>
      BY <2>1, <2>3
    <3> QED  BY <1>6, <1>10, <2>2, <2>3, <3>1
  <2>4. CASE ~\E t \in tasks' : t.id = one
    <3>1. List!Upsert(one, host)
      BY <2>1, <2>4
    <3> QED  BY <1>6, <1>9, <2>2, <2>4, <3>1
  <2> QED  BY <2>3, <2>4
<1>12. CASE host \in reachable /\ task.op = "delete"
  <2>1. /\ stored' = [stored EXCEPT ![host] = @ \ {one}] /\ known' = known \ {<<host, one>>}
        /\ List!Removed(one)
    BY <1>12 DEF List!Served, one, host
  <2> DEFINE S == {}
  <2>2. stored' = [stored EXCEPT ![host] = (@ \ {one}) \cup S] /\ known' \subseteq Host \X (1 .. minted)
    <3>1. stored[host] \ {one} = (stored[host] \ {one}) \cup S
      OBVIOUS
    <3> QED  BY <1>5, <2>1, <3>1
  <2>3. S \in SUBSET {one} /\ one \notin S
    OBVIOUS
  <2> HIDE DEF S
  <2> QED  BY <1>6, <1>8, <2>1, <2>2, <2>3
<1>13. ASSUME host \notin reachable PROVE stored' = stored /\ known' = known
  BY <1>13 DEF List!Served, host
<1>14. CASE host \notin reachable /\ task.op = "create"
  <2>1. List!Removed(one)
    BY <1>14 DEF List!Served, one, host
  <2> QED  BY <1>5, <1>6, <1>7, <1>8, <1>13, <1>14, <2>1
<1>15. CASE host \notin reachable /\ task.op = "delete"
  <2>1. IF <<host, one>> \in known THEN List!Upsert(one, host) ELSE UNCHANGED <<workspaces, activeId>>
    BY <1>15 DEF List!Served, one, host
  <2>2. ASSUME NEW t \in tasks', t.id = one PROVE t.op # "delete"
    <3>1. t \in tasks /\ t # task /\ t \in Task /\ t.op # "create"
      BY <1>1, <1>4, <1>15, <2>2 DEF ListShapes, one
    <3>2. t.host = home[one]
      BY <1>2, <2>2, <3>1 DEF Homed
    <3>3. t.op = "delete" => t = task
      <4>1. t.id = task.id /\ t.host = task.host
        BY <1>3, <2>2, <3>2 DEF one, host
      <4> QED  BY <1>3, <1>15, <3>1, <4>1 DEF Task
    <3> QED  BY <3>1, <3>3
  <2>3. CASE <<host, one>> \in known
    <3>1. List!Upsert(one, host)
      BY <2>1, <2>3
    <3> QED  BY <1>5, <1>6, <1>7, <1>9, <1>13, <1>15, <2>2, <3>1
  <2>4. CASE <<host, one>> \notin known
    <3>1. UNCHANGED <<workspaces, activeId>>
      BY <2>1, <2>4
    <3> QED  BY <1>5, <1>6, <1>7, <1>10, <1>13, <1>15, <3>1
  <2> QED  BY <2>3, <2>4
<1> QED  BY <1>3, <1>11, <1>12, <1>14, <1>15

LEMMA StepConnect ==
  ASSUME List!ListAssumption, ListInv, NEW host \in Host, List!Connect(host)
  PROVE  ListInv'
<1>1. ListShapes /\ OffScreen /\ WellList(workspaces)
  BY DEF ListInv, ListShapes
<1>2. PICK home \in [Nat -> Host] : Homed(home)
  BY DEF ListInv
<1>3. /\ List!Snapshot(host) /\ ~\E t \in tasks : t.host = host
      /\ reachable' = reachable \cup {host} /\ known' = known \cup ({host} \X stored[host])
      /\ stored' = stored /\ tasks' = tasks /\ minted' = minted
  BY DEF List!Connect, List!Quiet
<1>4. /\ WellList(workspaces') /\ ActiveIn(workspaces', activeId') /\ Truthful(workspaces', home)
      /\ IdsOf(workspaces') = {id \in IdsOf(workspaces) : home[id] # host} \cup stored[host]
  BY <1>1, <1>2, <1>3, SnapshotIs
<1>5. /\ stored \in [Host -> SUBSET (1 .. minted)] /\ IdsOf(workspaces) \subseteq 1 .. minted
      /\ known \subseteq Host \X (1 .. minted) /\ reachable \subseteq Host
  BY <1>1 DEF ListShapes
<1>6. \A h \in Host : \A id \in stored[h] : home[id] = h
  BY <1>2 DEF Homed
<1>7. ListShapes'
  <2>1. IdsOf(workspaces') \subseteq 1 .. minted /\ known' \subseteq Host \X (1 .. minted) /\ reachable' \subseteq Host
    BY <1>3, <1>4, <1>5
  <2> QED  BY <1>1, <1>3, <1>4, <2>1 DEF ListShapes
<1>8. OffScreen'
  <2>1. \A t \in tasks : home[t.id] # host
    BY <1>2, <1>3 DEF Homed
  <2>2. \A t \in tasks : t.id \notin stored[host]
    BY <1>6, <2>1
  <2> QED  BY <1>1, <1>3, <1>4, <2>2 DEF OffScreen
<1>9. Homed(home)'
  <2>1. ASSUME NEW id \in 1 .. minted, home[id] \in reachable', \A t \in tasks : t.id # id
        PROVE  id \in IdsOf(workspaces') <=> id \in stored[home[id]]
    <3>1. CASE home[id] = host
      BY <1>4, <3>1
    <3>2. CASE home[id] # host
      <4>1. id \in IdsOf(workspaces) <=> id \in stored[home[id]]
        BY <1>2, <1>3, <2>1, <3>2 DEF Homed
      <4>2. id \notin stored[host]
        BY <1>6, <3>2
      <4> QED  BY <1>4, <3>2, <4>1, <4>2
    <3> QED  BY <3>1, <3>2
  <2>2. \A t \in tasks : home[t.id] = t.host
    BY <1>2 DEF Homed
  <2> QED  BY <1>3, <1>4, <1>6, <2>1, <2>2 DEF Homed
<1> QED  BY <1>4, <1>7, <1>8, <1>9 DEF ListInv

LEMMA StepForget ==
  ASSUME List!ListAssumption, ListInv, NEW host \in Host, List!Forget(host)
  PROVE  ListInv'
<1> DEFINE list == List!Kept(workspaces, DOMAIN workspaces \ List!OfHost(workspaces, host))
<1>1. ListShapes /\ OffScreen /\ WellList(workspaces)
  BY DEF ListInv, ListShapes
<1>2. PICK home \in [Nat -> Host] : Homed(home)
  BY DEF ListInv
<1>3. /\ workspaces' = list
      /\ activeId' = IF List!Has(list, activeId) THEN activeId ELSE List!First(list)
      /\ known' \subseteq known /\ reachable' = reachable \ {host}
      /\ stored' = stored /\ tasks' = tasks /\ minted' = minted
  BY DEF List!Forget
<1>4. /\ WellList(list) /\ Shown(list) \subseteq Shown(workspaces)
      /\ IdsOf(list) = {id \in IdsOf(workspaces) : home[id] # host}
  BY <1>1, <1>2, HostParts DEF Homed
<1> HIDE DEF list
<1>5. ActiveIn(workspaces', activeId')
  BY <1>3, <1>4, KeptActive
<1>6. ListShapes'
  <2>1. IdsOf(list) \subseteq 1 .. minted /\ known' \subseteq Host \X (1 .. minted) /\ reachable' \subseteq Host
    BY <1>1, <1>3, <1>4 DEF ListShapes
  <2> QED  BY <1>1, <1>3, <1>4, <2>1 DEF ListShapes
<1>7. OffScreen'
  BY <1>1, <1>3, <1>4 DEF OffScreen
<1>8. Homed(home)'
  <2>1. Truthful(list, home)
    BY <1>2, <1>4 DEF Homed, Truthful
  <2>2. ASSUME NEW id \in 1 .. minted, home[id] \in reachable', \A t \in tasks : t.id # id
        PROVE  id \in IdsOf(list) <=> id \in stored[home[id]]
    <3>1. id \in IdsOf(workspaces) <=> id \in stored[home[id]]
      BY <1>2, <1>3, <2>2 DEF Homed
    <3> QED  BY <1>3, <1>4, <2>2, <3>1
  <2>3. \A t \in tasks : home[t.id] = t.host
    BY <1>2 DEF Homed
  <2>4. \A h \in Host : \A id \in stored[h] : home[id] = h
    BY <1>2 DEF Homed
  <2> QED  BY <1>3, <2>1, <2>2, <2>3, <2>4 DEF Homed
<1> QED  BY <1>5, <1>6, <1>7, <1>8 DEF ListInv

LEMMA StepList ==
  ASSUME List!ListAssumption, ListInv, [List!Next]_(List!listVars)
  PROVE  ListInv'
<1>1. ASSUME NEW id \in List!Ids, List!OneWorkspace(id) PROVE ListInv'
  BY <1>1, StepOneWorkspace
<1>2. ASSUME NEW host \in Host, List!OneHost(host) PROVE ListInv'
  BY <1>2, StepAdd, StepOtherCreates, StepOtherDeletes, StepDisconnect, StepConnect,
     StepForget DEF List!OneHost
<1>3. CASE List!closeCascade
  BY <1>3, StepCascade
<1>4. CASE List!Serve
  BY <1>4, StepServed DEF List!Serve
<1>5. CASE UNCHANGED List!listVars
  BY <1>5 DEF List!listVars, ListInv, ListShapes, OffScreen, Homed
<1> QED  BY <1>1, <1>2, <1>3, <1>4, <1>5 DEF List!Next

LEMMA InitList ==
  ASSUME List!ListAssumption, List!Init
  PROVE  ListInv
<1> DEFINE w1 == List!makeWorkspace(1, Local)
           w2 == List!makeWorkspace(2, Local)
<1>1. Local \in Host /\ None \notin Nat
  BY DEF List!ListAssumption
<1>2. w1 \in Workspace /\ w2 \in Workspace /\ w1.id = 1 /\ w2.id = 2
      /\ Pair(w1) = <<1, Local>> /\ Pair(w2) = <<2, Local>>
  BY <1>1 DEF List!makeWorkspace, Workspace, Pair
<1>3. workspaces = Append(<<w1>>, w2) /\ activeId = 1
  BY DEF List!Init
<1> HIDE DEF w1, w2
<1>4. /\ WellList(workspaces) /\ Shown(workspaces) = {<<1, Local>>, <<2, Local>>}
      /\ IdsOf(workspaces) = {1, 2}
  <2>1. WellList(<<w1>>) /\ Shown(<<w1>>) = {<<1, Local>>} /\ IdsOf(<<w1>>) = {1}
    BY <1>2, SingleIs
  <2>2. /\ WellList(Append(<<w1>>, w2)) /\ Shown(Append(<<w1>>, w2)) = {<<1, Local>>} \cup {<<2, Local>>}
        /\ IdsOf(Append(<<w1>>, w2)) = {1} \cup {2}
    BY <1>2, <2>1, AppendIs
  <2> QED  BY <1>3, <2>2
<1>5. /\ stored \in [Host -> SUBSET (1 .. 3)] /\ stored[Local] = {1, 2}
      /\ \A h, other \in Host : h # other => stored[h] \cap stored[other] = {}
      /\ known = {Local} \X {1, 2} /\ tasks = {} /\ reachable = {Local} /\ minted = 3
  BY DEF List!Init
<1>6. ListShapes
  <2>1. IdsOf(workspaces) \subseteq 1 .. minted /\ known \subseteq Host \X (1 .. minted) /\ reachable \subseteq Host
    BY <1>1, <1>4, <1>5
  <2> QED  BY <1>4, <1>5, <2>1 DEF ListShapes
<1>7. ActiveIn(workspaces, activeId)
  BY <1>3, <1>4, MemberActive
<1>8. OffScreen
  BY <1>5 DEF OffScreen
<1> DEFINE owner1(i) == CHOOSE h \in Host : i \in stored[h]
           home == [i \in Nat |-> IF \E h \in Host : i \in stored[h] THEN owner1(i) ELSE Local]
<1>9. \A h \in Host : \A i \in stored[h] : owner1(i) = h
  <2>1. ASSUME NEW h \in Host, NEW i \in stored[h] PROVE owner1(i) = h
    <3>1. owner1(i) \in Host /\ i \in stored[owner1(i)]
      OBVIOUS
    <3> HIDE DEF owner1
    <3> QED  BY <1>5, <3>1
  <2> QED  BY <2>1
<1>10. \A i \in Nat : (\E h \in Host : i \in stored[h]) => owner1(i) \in Host
  OBVIOUS
<1> HIDE DEF owner1
<1>11. home \in [Nat -> Host]
  BY <1>1, <1>10
<1>12. \A h \in Host : \A i \in stored[h] : home[i] = h
  <2>1. \A h \in Host : \A i \in stored[h] : i \in Nat
    BY <1>5
  <2> QED  BY <1>9, <2>1
<1> HIDE DEF home
<1>13. home[1] = Local /\ home[2] = Local
  BY <1>1, <1>5, <1>12
<1>14. Homed(home)
  <2>1. Truthful(workspaces, home)
    <3>1. \A x \in {<<1, Local>>, <<2, Local>>} : home[x[1]] = x[2]
      BY <1>13
    <3> QED  BY <1>4, <3>1 DEF Truthful
  <2>2. ASSUME NEW i \in 1 .. minted, home[i] \in reachable
        PROVE  i \in IdsOf(workspaces) <=> i \in stored[home[i]]
    BY <1>4, <1>5, <2>2
  <2> QED  BY <1>5, <1>12, <2>1, <2>2 DEF Homed
<1>15. \E x \in [Nat -> Host] : Homed(x)
  BY <1>11, <1>14
<1> QED  BY <1>6, <1>7, <1>8, <1>15 DEF ListInv

-----------------------------------------------------------------------------
(* What follows.                                                           *)

LEMMA ListTyped ==
  ASSUME List!ListAssumption, ListInv
  PROVE  List!TypeOK
<1>1. ListShapes /\ WellList(workspaces) /\ List!Ids = IdsOf(workspaces)
  BY DEF ListInv, ListShapes, List!Ids, IdsOf
<1>2. ASSUME NEW i \in DOMAIN workspaces
      PROVE  workspaces[i] \in [id : 1 .. minted, host : Host, pinned : BOOLEAN]
  <2>1. workspaces[i] \in Workspace
    BY <1>1 DEF WellList
  <2>2. workspaces[i].id \in 1 .. minted
    BY <1>1 DEF ListShapes, IdsOf
  <2> QED  BY <2>1, <2>2 DEF Workspace
<1>3. List!Cardinality(List!Ids) = Len(workspaces)
  BY <1>1, SizeIs
<1>4. activeId \in 1 .. minted \cup {None}
  BY <1>1 DEF ListInv, ActiveIn, ListShapes
<1> QED  BY <1>1, <1>2, <1>3, <1>4 DEF List!TypeOK, ListShapes

LEMMA ListHolds ==
  ASSUME List!ListAssumption, ListInv
  PROVE  List!ListIsStored
<1>1. ListShapes /\ WellList(workspaces) /\ OffScreen /\ ActiveIn(workspaces, activeId)
  BY DEF ListInv, ListShapes
<1>2. PICK home \in [Nat -> Host] : Homed(home)
  BY DEF ListInv
<1>3. List!Ids = IdsOf(workspaces)
  BY DEF List!Ids, IdsOf
<1>4. ASSUME NEW host \in reachable, List!Quiet(host)
      PROVE  {w.id : w \in List!ToSet(List!Group(workspaces, host))} = stored[host]
  <2> DEFINE group == List!Group(workspaces, host)
  <2>1. {w.id : w \in List!ToSet(group)} = IdsOf(group)
    BY DEF List!ToSet, IdsOf
  <2>2. IdsOf(group) = {id \in IdsOf(workspaces) : home[id] = host}
    <3>1. Truthful(workspaces, home)
      BY <1>2 DEF Homed
    <3>2. group = List!Kept(workspaces, List!OfHost(workspaces, host))
      BY DEF List!Group
    <3> HIDE DEF group
    <3> QED  BY <1>1, <3>1, <3>2, HostParts
  <2> HIDE DEF group
  <2>3. host \in Host /\ stored[host] \subseteq 1 .. minted /\ IdsOf(workspaces) \subseteq 1 .. minted
    BY <1>1 DEF ListShapes
  <2>4. \A t \in tasks : home[t.id] # host
    BY <1>2, <1>4 DEF Homed, List!Quiet
  <2>5. \A id \in 1 .. minted : home[id] = host => (id \in IdsOf(workspaces) <=> id \in stored[host])
    BY <1>2, <2>4 DEF Homed
  <2>6. \A id \in stored[host] : home[id] = host
    BY <1>2, <2>3 DEF Homed
  <2>7. IdsOf(group) = stored[host]
    BY <2>2, <2>3, <2>5, <2>6
  <2> QED  BY <2>1, <2>7 DEF group
<1> QED  BY <1>1, <1>3, <1>4 DEF List!ListIsStored, OffScreen, ActiveIn

-----------------------------------------------------------------------------
(* Viewer of files                                                         *)

Nets == [conn : {"up", "down", "closing", "gone"}, kept : BOOLEAN, listed : BOOLEAN,
         owned : BOOLEAN, removing : BOOLEAN, home : BOOLEAN]

FileTab == [ws : Files!Work, path : Viewable]

Pieces == Seq(Files!Chunk)

\* What the viewer has of a tab.
Content == [is : {"loading", "error"}, text : {None}, stray : BOOLEAN]
           \cup [is : {"text"}, text : Pieces, stray : BOOLEAN]

LinkCall == [ws : Files!Work, path : Path, at : {"home", "ask", "invoke"}, to : Files!Work \cup {None},
             n : 1 .. FileClicks, stray : BOOLEAN]

ReadCall == [tab : Files!TabIds, ws : Files!Work, at : {"ask", "invoke"}, to : Files!Work \cup {None},
             text : Pieces, n : 1 .. FileClicks, stray : BOOLEAN]

\* A call was made by a click, and a read is for a tab that was opened.
TabShapes ==
  /\ net \in Nets /\ version \in DOMAIN Chunks
  /\ tabs \in Seq(FileTab \cup {None}) /\ Len(tabs) <= MaxTabs
  /\ shown \in DOMAIN tabs \cup {None} /\ (shown # None => tabs[shown] # None)
  /\ texts \in [Files!TabIds -> Content \cup {None}]
  /\ \A l \in links : l \in LinkCall /\ l.n <= clicks
  /\ \A r \in reads : r \in ReadCall /\ r.tab \in DOMAIN tabs
  /\ opened \subseteq Files!Work \X BOOLEAN /\ clicks \in 0 .. FileClicks /\ fails \in 0 .. MaxFails

\* Only a tab that is there has a text; one that loads has a read under way, and a
\* text is whole.
TextsKept ==
  \A t \in Files!TabIds : texts[t] # None =>
    /\ t \in DOMAIN tabs /\ tabs[t] # None
    /\ texts[t].is = "loading" => \E r \in reads : r.tab = t
    /\ texts[t].is = "text" => \E v \in 1 .. version : Len(texts[t].text) = Chunks[v]

\* A call goes to the machine of its workspace or to none, unless the owner of that
\* workspace was deleted under it.
RoutedOwn(call) ==
  /\ call.ws = "near" => call.to = "near"
  /\ call.ws = "far" /\ ~call.stray =>
                        /\ net.owned /\ call.to \in {"far", None} /\ call.at # "invoke"
                        /\ call.to = "far" => net.conn = "up"

Routed ==
  /\ net.listed => net.owned
  /\ \A call \in reads \cup links : RoutedOwn(call)

\* All that was read for a tab is of the tab's machine, but for what such a call brings.
ReadFrom(text, w) == \A i \in DOMAIN text : text[i][1] = w

ReadOwn(r) == ~r.stray => ReadFrom(r.text, r.ws)

ReadsOwn ==
  /\ \A r \in reads : ReadOwn(r) /\ (tabs[r.tab] # None => tabs[r.tab].ws = r.ws)
  /\ \A t \in Files!TabIds :
       texts[t] # None /\ texts[t].is = "text" /\ ~texts[t].stray =>
         ReadFrom(texts[t].text, tabs[t].ws)
  /\ <<"far", FALSE>> \notin opened

FilesInv == TabShapes /\ TextsKept /\ Routed /\ ReadsOwn

LEMMA NoneIs ==
  ASSUME Files!FilesAssumption
  PROVE  /\ None \notin Nat /\ None \notin Files!Work /\ None \notin FileTab /\ None \notin Content
         /\ None \notin Pieces
         /\ \A v \in DOMAIN Chunks : v \in Nat \ {0} /\ Chunks[v] \in Nat /\ \A u \in 1 .. v : u \in DOMAIN Chunks
         /\ DOMAIN Chunks = 1 .. Len(Chunks) /\ Len(Chunks) \in Nat \ {0}
         /\ MaxTabs \in Nat /\ FileClicks \in Nat /\ MaxFails \in Nat
<1>1. None \notin Nat /\ None \notin {"near", "far"} /\ None \notin [ws : {"near", "far"}, path : Path]
  BY DEF Files!FilesAssumption
<1>2. None \notin Files!Work /\ None \notin FileTab
  BY <1>1 DEF Files!FilesAssumption, Files!Work, FileTab
<1>3. DOMAIN Chunks = 1 .. Len(Chunks) /\ Len(Chunks) \in Nat \ {0} /\ \A v \in DOMAIN Chunks : Chunks[v] \in Nat
  BY EmptySeq DEF Files!FilesAssumption
<1>4. Files!Chunk \subseteq {"near", "far"} \X Nat
  BY <1>3 DEF Files!Chunk, Files!Work
<1>5. Pieces \subseteq Seq({"near", "far"} \X Nat)
  BY <1>4 DEF Pieces
<1>6. None \notin Pieces /\ None \notin Content
  <2>1. None \notin Pieces
    BY <1>5 DEF Files!FilesAssumption
  <2>2. Content \subseteq [is : {"loading", "error", "text"}, text : {None} \cup Seq({"near", "far"} \X Nat),
                     stray : BOOLEAN]
    BY <1>5 DEF Content
  <2> QED  BY <2>1, <2>2 DEF Files!FilesAssumption
<1>7. \A v \in DOMAIN Chunks : v \in Nat \ {0} /\ \A u \in 1 .. v : u \in DOMAIN Chunks
  BY <1>3
<1> QED  BY <1>1, <1>2, <1>3, <1>6, <1>7 DEF Files!FilesAssumption

LEMMA FilesHold ==
  Files!FilesAssumption /\ FilesInv => Files!TypeOK /\ Files!WholeTexts /\ Files!OwnMachine
<1> SUFFICES ASSUME Files!FilesAssumption, FilesInv
             PROVE  Files!TypeOK /\ Files!WholeTexts /\ Files!OwnMachine
  OBVIOUS
<1>1. Files!TypeOK
  <2>1. \A t \in DOMAIN tabs : tabs[t] = None \/ tabs[t] \in FileTab
    BY DEF FilesInv, TabShapes
  <2>2. \A t \in DOMAIN texts : texts[t] = None \/ (texts[t].is \in {"loading", "error", "text"}
                                 /\ (texts[t].is = "text" <=> texts[t].text # None))
    BY NoneIs DEF FilesInv, TabShapes, Content
  <2>3. links \subseteq LinkCall
    BY DEF FilesInv, TabShapes
  <2>4. \A r \in reads : r.tab \in DOMAIN tabs /\ r.at \in {"ask", "invoke"}
                         /\ r.to \in Files!Work \cup {None} /\ r.n \in 1 .. FileClicks
    BY DEF FilesInv, TabShapes, ReadCall
  <2>5. net \in Nets /\ version \in DOMAIN Chunks /\ Len(tabs) <= MaxTabs
        /\ shown \in DOMAIN tabs \cup {None}
        /\ opened \subseteq Files!Work \X BOOLEAN /\ clicks \in 0 .. FileClicks /\ fails \in 0 .. MaxFails
    BY DEF FilesInv, TabShapes
  <2> QED  BY <2>1, <2>2, <2>3, <2>4, <2>5 DEF Files!TypeOK, Nets, FileTab, LinkCall
<1>2. Files!WholeTexts
  BY DEF FilesInv, TextsKept, Files!WholeTexts
<1>3. Files!OwnMachine
  <2>1. DOMAIN tabs \subseteq Files!TabIds
    <3>1. Len(tabs) \in Nat /\ Len(tabs) <= MaxTabs /\ MaxTabs \in Nat /\ DOMAIN tabs = 1 .. Len(tabs)
      BY NoneIs DEF FilesInv, TabShapes
    <3> QED  BY <3>1 DEF Files!TabIds
  <2> QED  BY <2>1 DEF FilesInv, ReadsOwn, ReadFrom, Files!OwnMachine
<1> QED  BY <1>1, <1>2, <1>3

LEMMA InitFiles ==
  ASSUME Files!FilesAssumption, Files!Init
  PROVE  FilesInv
<1>1. TabShapes
  <2>1. version \in DOMAIN Chunks /\ 0 \in 0 .. FileClicks /\ 0 \in 0 .. MaxFails
    BY NoneIs DEF Files!Init
  <2>2. tabs \in Seq(FileTab \cup {None}) /\ Len(tabs) = 0 /\ 0 <= MaxTabs
    BY NoneIs DEF Files!Init
  <2>3. texts \in [Files!TabIds -> Content \cup {None}]
    BY DEF Files!Init
  <2> QED  BY <2>1, <2>2, <2>3 DEF Files!Init, TabShapes, Nets
<1>2. TextsKept
  BY DEF Files!Init, TextsKept
<1>3. Routed /\ ReadsOwn
  BY DEF Files!Init, Routed, ReadsOwn
<1> QED  BY <1>1, <1>2, <1>3 DEF FilesInv

-----------------------------------------------------------------------------
(* Calls.                                                                  *)

LEMMA CallTypes ==
  ASSUME NEW l \in LinkCall, NEW r \in ReadCall, NEW at \in {"ask", "invoke"},
         NEW to \in Files!Work \cup {None}, NEW n \in 1 .. FileClicks, NEW text \in Pieces
  PROVE  /\ [l EXCEPT !.at = at, !.to = to] \in LinkCall /\ [l EXCEPT !.to = to] \in LinkCall
         /\ [r EXCEPT !.at = at, !.to = to] \in ReadCall /\ [r EXCEPT !.to = to] \in ReadCall
         /\ [r EXCEPT !.text = text] \in ReadCall
  BY DEF LinkCall, ReadCall

LEMMA Transport ==
  ASSUME net \in Nets, NEW w \in Files!Work
  PROVE  /\ Files!transportForWorkspace(w) \in Files!Work \cup {None}
         /\ w = "near" => Files!transportForWorkspace(w) = "near"
         /\ w = "far" /\ net.owned =>
              Files!transportForWorkspace(w) = IF net.conn = "up" THEN "far" ELSE None
  BY DEF Files!transportForWorkspace, Files!isRemoteWorkspace, Nets, Files!Work

\* A call that is made or sent on now is on its way to its own machine.
LEMMA SentOwn ==
  ASSUME Files!FilesAssumption, net \in Nets, NEW call, call.ws \in Files!Work,
         call.to = Files!transportForWorkspace(call.ws),
         call.ws = "far" /\ ~call.stray => net.owned /\ call.at # "invoke"
  PROVE  RoutedOwn(call)
<1>1. None # "far"
  BY NoneIs DEF Files!Work
<1> QED  BY <1>1, Transport DEF RoutedOwn, Files!Work

\* A listed workspace has its owner.
LEMMA ListedOwned ==
  ASSUME net \in Nets, Routed, NEW w \in Files!Listed
  PROVE  w \in Files!Work /\ (w = "far" => net.owned)
BY DEF Files!Listed, Files!Work, Nets, Routed

-----------------------------------------------------------------------------
(* Steps that leave the tabs, their texts and the reads alone.             *)

LEMMA TextsSame ==
  ASSUME TextsKept, UNCHANGED <<version, tabs, texts, reads>>
  PROVE  TextsKept'
  BY DEF TextsKept

\* For the links that a step leaves or makes.
LEMMA LinksShaped ==
  ASSUME Files!FilesAssumption, TabShapes, net' \in Nets, UNCHANGED <<version, tabs, shown, texts, reads>>,
         opened' \subseteq Files!Work \X BOOLEAN, clicks' \in clicks .. FileClicks, fails' \in 0 .. MaxFails,
         \A l \in links' : l \in links \/ (l \in LinkCall /\ l.n <= clicks')
  PROVE  TabShapes'
<1>1. clicks \in Nat /\ clicks' \in Nat /\ clicks <= clicks' /\ clicks' \in 0 .. FileClicks
  BY NoneIs DEF TabShapes
<1>2. \A l \in links' : l \in LinkCall /\ l.n <= clicks'
  <2>1. ASSUME NEW l \in links' PROVE l \in LinkCall /\ l.n <= clicks'
    <3>1. CASE l \in links
      <4>1. l \in LinkCall /\ l.n <= clicks /\ l.n \in Nat
        BY <3>1, NoneIs DEF TabShapes, LinkCall
      <4> QED  BY <1>1, <4>1
    <3>2. CASE l \in LinkCall /\ l.n <= clicks'
      BY <3>2
    <3> QED  BY <2>1, <3>1, <3>2
  <2> QED  BY <2>1
<1> QED  BY <1>1, <1>2 DEF TabShapes

LEMMA LinksRouted ==
  ASSUME Routed, ReadsOwn, net'.conn = net.conn, net'.listed = net.listed, net'.owned = net.owned,
         UNCHANGED <<tabs, texts, reads>>, <<"far", FALSE>> \notin opened',
         \A l \in links' : l \in links \/ RoutedOwn(l)
  PROVE  Routed' /\ ReadsOwn'
<1>1. Routed'
  <2>1. \A call \in reads' \cup links' : RoutedOwn(call)
    BY DEF Routed
  <2> QED  BY <2>1 DEF Routed, RoutedOwn
<1>2. ReadsOwn'
  BY DEF ReadsOwn, ReadOwn, ReadFrom
<1> QED  BY <1>1, <1>2

LEMMA StepClick ==
  ASSUME Files!FilesAssumption, FilesInv, NEW w \in Files!Work, NEW path \in Path, NEW tilde \in BOOLEAN,
         Files!Click(w, path, tilde)
  PROVE  FilesInv'
<1> DEFINE link == [ws |-> w, path |-> path, at |-> "home", to |-> Files!transportForWorkspace(w),
                    n |-> clicks + 1, stray |-> FALSE]
           asked == [link EXCEPT !.at = "ask", !.to = Files!transportForWorkspace(w)]
<1>1. /\ net \in Nets /\ clicks \in 0 .. FileClicks /\ fails \in 0 .. MaxFails /\ opened \subseteq Files!Work \X BOOLEAN
      /\ clicks < FileClicks /\ clicks' = clicks + 1 /\ FileClicks \in Nat
  BY NoneIs DEF FilesInv, TabShapes, Files!Click
<1>2. clicks + 1 \in 1 .. FileClicks /\ clicks' \in clicks .. FileClicks
  BY <1>1
<1>3. \A l \in links' : l \in links \/ l = link \/ l = asked
  BY DEF Files!Click, Files!Probe
<1>4. Files!transportForWorkspace(w) \in Files!Work \cup {None}
  BY <1>1, Transport
<1>5. link \in LinkCall /\ asked \in LinkCall /\ link.n = clicks' /\ asked.n = clicks'
  BY <1>1, <1>2, <1>4 DEF LinkCall
<1>6. /\ link.ws = w /\ link.to = Files!transportForWorkspace(w) /\ link.at = "home"
      /\ asked.ws = w /\ asked.to = Files!transportForWorkspace(w) /\ asked.at = "ask"
  OBVIOUS
<1> HIDE DEF link, asked
<1>7. TabShapes'
  <2>1. \A l \in links' : l \in links \/ (l \in LinkCall /\ l.n <= clicks')
    BY <1>1, <1>3, <1>5
  <2> QED  BY <1>1, <1>2, <2>1, LinksShaped DEF FilesInv, Files!Click
<1>8. Routed' /\ ReadsOwn'
  <2>1. w \in Files!Listed
    BY DEF Files!Click
  <2>2. RoutedOwn(link) /\ RoutedOwn(asked)
    BY <1>1, <1>6, <2>1, ListedOwned, SentOwn DEF FilesInv
  <2>3. \A l \in links' : l \in links \/ RoutedOwn(l)
    BY <1>3, <2>2
  <2>4. UNCHANGED <<net, tabs, texts, reads, opened>>
    BY DEF Files!Click
  <2> QED  BY <2>3, <2>4, LinksRouted DEF FilesInv, ReadsOwn
<1>9. TextsKept'
  BY TextsSame DEF FilesInv, Files!Click
<1> QED  BY <1>7, <1>8, <1>9 DEF FilesInv

LEMMA StepHome ==
  ASSUME Files!FilesAssumption, FilesInv, NEW l \in links, NEW ok \in BOOLEAN, Files!HomeAnswer(l, ok)
  PROVE  FilesInv'
<1> DEFINE to == Files!transportForWorkspace(l.ws)
           asked == [l EXCEPT !.at = "ask", !.to = to]
<1>1. /\ net \in Nets /\ clicks \in 0 .. FileClicks /\ fails \in 0 .. MaxFails /\ opened \subseteq Files!Work \X BOOLEAN
      /\ l \in LinkCall /\ l.ws \in Files!Work /\ clicks' = clicks /\ FileClicks \in Nat
  BY NoneIs DEF FilesInv, TabShapes, Files!HomeAnswer, LinkCall
<1>2. net' \in Nets /\ net'.conn = net.conn /\ net'.listed = net.listed /\ net'.owned = net.owned
  BY <1>1 DEF Files!HomeAnswer, Nets
<1>3. \A k \in links' : k \in links \/ k = asked
  BY DEF Files!HomeAnswer, Files!Probe
<1>4. to \in Files!Work \cup {None}
  BY <1>1, Transport
<1>5. asked \in LinkCall /\ asked.ws = l.ws /\ asked.to = to /\ asked.at = "ask" /\ asked.n = l.n
      /\ asked.stray = l.stray
  BY <1>1, <1>4, CallTypes DEF LinkCall
<1> HIDE DEF asked
<1>6. TabShapes'
  <2>1. l.n <= clicks'
    BY <1>1 DEF FilesInv, TabShapes
  <2>2. \A k \in links' : k \in links \/ (k \in LinkCall /\ k.n <= clicks')
    BY <1>3, <1>5, <2>1
  <2>3. clicks' \in clicks .. FileClicks /\ fails' \in 0 .. MaxFails /\ opened' \subseteq Files!Work \X BOOLEAN
    BY <1>1 DEF Files!HomeAnswer
  <2> QED  BY <1>2, <2>2, <2>3, LinksShaped DEF FilesInv, Files!HomeAnswer
<1>7. Routed' /\ ReadsOwn'
  <2>1. RoutedOwn(l) /\ Routed /\ ReadsOwn
    BY DEF FilesInv, Routed
  <2>2. l.ws = "far" /\ ~l.stray => net.owned
    BY <2>1 DEF RoutedOwn
  <2>3. RoutedOwn(asked)
    BY <1>1, <1>5, <2>2, SentOwn
  <2>4. \A k \in links' : k \in links \/ RoutedOwn(k)
    BY <1>3, <2>3
  <2>5. UNCHANGED <<tabs, texts, reads, opened>>
    BY DEF Files!HomeAnswer
  <2> QED  BY <1>2, <2>1, <2>4, <2>5, LinksRouted DEF ReadsOwn
<1>8. TextsKept'
  BY TextsSame DEF FilesInv, Files!HomeAnswer
<1> QED  BY <1>6, <1>7, <1>8 DEF FilesInv

LEMMA StepProbeFails ==
  ASSUME Files!FilesAssumption, FilesInv, NEW l \in links, Files!ProbeFails(l)
  PROVE  FilesInv'
<1> DEFINE asked == [l EXCEPT !.at = "invoke", !.to = "near"]
<1>1. /\ net \in Nets /\ clicks \in 0 .. FileClicks /\ fails \in 0 .. MaxFails /\ opened \subseteq Files!Work \X BOOLEAN
      /\ l \in LinkCall /\ l.ws \in Files!Work /\ clicks' = clicks /\ FileClicks \in Nat /\ MaxFails \in Nat
  BY NoneIs DEF FilesInv, TabShapes, Files!ProbeFails, LinkCall
<1>2. fails' \in 0 .. MaxFails
  BY <1>1 DEF Files!ProbeFails
<1>3. \A k \in links' : k \in links \/ (k = asked /\ ~Files!isRemoteWorkspace(l.ws))
  BY DEF Files!ProbeFails
<1>4. asked \in LinkCall /\ asked.ws = l.ws /\ asked.to = "near" /\ asked.at = "invoke" /\ asked.n = l.n
      /\ asked.stray = l.stray
  BY <1>1 DEF LinkCall, Files!Work
<1> HIDE DEF asked
<1>5. TabShapes'
  <2>1. l.n <= clicks'
    BY <1>1 DEF FilesInv, TabShapes
  <2>2. \A k \in links' : k \in links \/ (k \in LinkCall /\ k.n <= clicks')
    BY <1>3, <1>4, <2>1
  <2>3. clicks' \in clicks .. FileClicks /\ opened' \subseteq Files!Work \X BOOLEAN /\ net' \in Nets
    BY <1>1 DEF Files!ProbeFails
  <2> QED  BY <1>2, <2>2, <2>3, LinksShaped DEF FilesInv, Files!ProbeFails
<1>6. Routed' /\ ReadsOwn'
  <2>1. RoutedOwn(l) /\ Routed /\ ReadsOwn
    BY DEF FilesInv, Routed
  <2>2. ~Files!isRemoteWorkspace(l.ws) => l.ws = "near" \/ l.stray
    BY <1>1, <2>1 DEF RoutedOwn, Files!isRemoteWorkspace, Files!Work
  <2>3. \A k \in links' : k \in links \/ RoutedOwn(k)
    BY <1>3, <1>4, <2>2 DEF RoutedOwn
  <2>4. UNCHANGED <<net, tabs, texts, reads, opened>>
    BY DEF Files!ProbeFails
  <2> QED  BY <2>1, <2>3, <2>4, LinksRouted DEF ReadsOwn
<1>7. TextsKept'
  BY TextsSame DEF FilesInv, Files!ProbeFails
<1> QED  BY <1>5, <1>6, <1>7 DEF FilesInv

\* A step of the host or of its workspace: the calls that wait keep their workspace, their
\* tab and what they have read.
LEMMA NetMoves ==
  ASSUME Files!FilesAssumption, FilesInv, net' \in Nets, net'.listed => net'.owned,
         UNCHANGED <<version, tabs, texts, opened>>, shown' \in {shown, None},
         clicks' \in clicks .. FileClicks, fails' \in 0 .. MaxFails,
         \A l \in links' : l \in LinkCall /\ \E k \in links : l.n = k.n,
         \A r \in reads' : r \in ReadCall /\ \E k \in reads :
           r.tab = k.tab /\ r.ws = k.ws /\ r.text = k.text /\ (k.stray => r.stray),
         \A k \in reads : \E r \in reads' : r.tab = k.tab,
         \A call \in reads' \cup links' : RoutedOwn(call)'
  PROVE  FilesInv'
<1>1. clicks \in Nat /\ clicks' \in Nat /\ clicks <= clicks' /\ clicks' \in 0 .. FileClicks
  BY NoneIs DEF FilesInv, TabShapes
<1>2. TabShapes'
  <2>1. ASSUME NEW l \in links' PROVE l \in LinkCall /\ l.n <= clicks'
    <3>1. PICK k \in links : l.n = k.n
      OBVIOUS
    <3>2. k.n \in Nat /\ k.n <= clicks
      BY NoneIs DEF FilesInv, TabShapes, LinkCall
    <3> QED  BY <1>1, <3>1, <3>2
  <2>2. \A r \in reads' : r \in ReadCall /\ r.tab \in DOMAIN tabs'
    BY DEF FilesInv, TabShapes
  <2> QED  BY <1>1, <2>1, <2>2 DEF FilesInv, TabShapes
<1>3. TextsKept'
  <2>1. \A t \in Files!TabIds : (\E r \in reads : r.tab = t) => \E r \in reads' : r.tab = t
    OBVIOUS
  <2> QED  BY <2>1 DEF FilesInv, TextsKept
<1>4. Routed'
  BY DEF Routed
<1>5. ReadsOwn'
  <2>1. ASSUME NEW r \in reads'
        PROVE  ReadOwn(r) /\ (tabs[r.tab] # None => tabs[r.tab].ws = r.ws)
    <3>1. PICK k \in reads :
            r.tab = k.tab /\ r.ws = k.ws /\ r.text = k.text /\ (k.stray => r.stray)
      OBVIOUS
    <3>2. ReadOwn(k) /\ (tabs[k.tab] # None => tabs[k.tab].ws = k.ws)
      BY DEF FilesInv, ReadsOwn
    <3> QED  BY <3>1, <3>2 DEF ReadOwn
  <2> QED  BY <2>1 DEF FilesInv, ReadsOwn, ReadOwn, ReadFrom
<1> QED  BY <1>2, <1>3, <1>4, <1>5 DEF FilesInv

\* The same where the calls are as before: what they rely on is still so.
LEMMA NetStays ==
  ASSUME Files!FilesAssumption, FilesInv, net' \in Nets, net'.listed => net'.owned,
         net.owned => net'.owned, net.conn = "up" => net'.conn = "up",
         UNCHANGED <<version, tabs, texts, opened, links, reads>>, shown' \in {shown, None},
         clicks' \in clicks .. FileClicks, fails' \in 0 .. MaxFails
  PROVE  FilesInv'
<1>1. /\ \A l \in links' : l \in LinkCall /\ \E k \in links : l.n = k.n
      /\ \A r \in reads' : r \in ReadCall /\ \E k \in reads :
           r.tab = k.tab /\ r.ws = k.ws /\ r.text = k.text /\ (k.stray => r.stray)
      /\ \A k \in reads : \E r \in reads' : r.tab = k.tab
  BY DEF FilesInv, TabShapes
<1>2. \A call \in reads' \cup links' : RoutedOwn(call)'
  BY DEF FilesInv, Routed, RoutedOwn
<1> QED  BY <1>1, <1>2, NetMoves

\* owners.delete: every call of the far workspace that waits is stray.
LEMMA LosesOwner ==
  ASSUME Files!FilesAssumption, FilesInv, NEW n \in Nets, Files!Disowned(n),
         UNCHANGED <<version, tabs, texts, opened, clicks, fails>>
  PROVE  FilesInv'
<1> DEFINE lost(call) == IF call.ws = "far" THEN [call EXCEPT !.stray = TRUE] ELSE call
<1>1. /\ \A l \in links : l \in LinkCall
      /\ \A r \in reads : r \in ReadCall
      /\ clicks' \in clicks .. FileClicks /\ fails' \in 0 .. MaxFails
  BY NoneIs DEF FilesInv, TabShapes
<1>2. /\ net' \in Nets /\ net'.listed = FALSE /\ shown' \in {shown, None}
      /\ reads' = {lost(r) : r \in reads} /\ links' = {lost(l) : l \in links}
  BY DEF Files!Disowned, Nets
<1>3. \A l \in links : /\ lost(l) \in LinkCall /\ lost(l).n = l.n /\ lost(l).ws = l.ws
                       /\ lost(l).to = l.to /\ (l.ws = "far" => lost(l).stray)
  BY <1>1 DEF LinkCall
<1>4. \A r \in reads : /\ lost(r) \in ReadCall /\ lost(r).tab = r.tab /\ lost(r).ws = r.ws
                       /\ lost(r).text = r.text /\ lost(r).to = r.to
                       /\ (r.ws = "far" => lost(r).stray) /\ (r.stray => lost(r).stray)
  BY <1>1 DEF ReadCall
<1> HIDE DEF lost
<1>5. \A call \in reads \cup links : RoutedOwn(call)
  BY DEF FilesInv, Routed
<1>6. ASSUME NEW call \in reads' \cup links' PROVE RoutedOwn(call)'
  <2>1. PICK k \in reads \cup links :
          call.ws = k.ws /\ call.to = k.to /\ (k.ws = "far" => call.stray)
    BY <1>2, <1>3, <1>4
  <2>2. k.ws = "near" => k.to = "near"
    BY <1>5 DEF RoutedOwn
  <2> QED  BY <2>1, <2>2 DEF RoutedOwn
<1>7. /\ \A l \in links' : l \in LinkCall /\ \E k \in links : l.n = k.n
      /\ \A r \in reads' : r \in ReadCall /\ \E k \in reads :
           r.tab = k.tab /\ r.ws = k.ws /\ r.text = k.text /\ (k.stray => r.stray)
      /\ \A k \in reads : \E r \in reads' : r.tab = k.tab
  BY <1>2, <1>3, <1>4
<1> QED  BY <1>1, <1>2, <1>6, <1>7, NetMoves

LEMMA StepNetDown ==
  ASSUME Files!FilesAssumption, FilesInv, NEW why \in {"down", "closing"}, Files!Disconnect(why)
  PROVE  FilesInv'
<1> DEFINE cut(call) == IF call.to = "far" THEN [call EXCEPT !.to = None] ELSE call
<1>1. /\ net \in Nets /\ clicks \in 0 .. FileClicks /\ FileClicks \in Nat
      /\ \A l \in links : l \in LinkCall
      /\ \A r \in reads : r \in ReadCall
  BY NoneIs DEF FilesInv, TabShapes
<1>2. /\ net' \in Nets /\ net'.conn = why /\ net'.listed = net.listed /\ net'.owned = net.owned
      /\ UNCHANGED <<version, tabs, shown, texts, opened, fails>>
      /\ reads' = {cut(r) : r \in reads} /\ links' = {cut(l) : l \in links}
      /\ clicks' \in clicks .. FileClicks /\ fails' \in 0 .. MaxFails
  BY <1>1 DEF Files!Disconnect, Nets, FilesInv, TabShapes
<1>3. \A l \in links : /\ cut(l) \in LinkCall /\ cut(l).n = l.n /\ cut(l).ws = l.ws /\ cut(l).at = l.at
                       /\ cut(l).stray = l.stray /\ cut(l).to = IF l.to = "far" THEN None ELSE l.to
  BY <1>1 DEF LinkCall
<1>4. \A r \in reads : /\ cut(r) \in ReadCall /\ cut(r).tab = r.tab /\ cut(r).ws = r.ws /\ cut(r).at = r.at
                       /\ cut(r).text = r.text /\ cut(r).stray = r.stray
                       /\ cut(r).to = IF r.to = "far" THEN None ELSE r.to
  BY <1>1 DEF ReadCall
<1> HIDE DEF cut
<1>5. (\A call \in reads \cup links : RoutedOwn(call)) /\ (net.listed => net.owned)
  BY DEF FilesInv, Routed
<1>6. ASSUME NEW call \in reads' \cup links' PROVE RoutedOwn(call)'
  <2>1. PICK k \in reads \cup links :
          /\ call.ws = k.ws /\ call.at = k.at /\ call.stray = k.stray
          /\ call.to = IF k.to = "far" THEN None ELSE k.to
    BY <1>2, <1>3, <1>4
  <2>2. RoutedOwn(k) /\ None # "far"
    BY <1>5, NoneIs DEF Files!Work
  <2> QED  BY <1>2, <2>1, <2>2 DEF RoutedOwn
<1>7. /\ \A l \in links' : l \in LinkCall /\ \E k \in links : l.n = k.n
      /\ \A r \in reads' : r \in ReadCall /\ \E k \in reads :
           r.tab = k.tab /\ r.ws = k.ws /\ r.text = k.text /\ (k.stray => r.stray)
      /\ \A k \in reads : \E r \in reads' : r.tab = k.tab
  BY <1>2, <1>3, <1>4
<1> QED  BY <1>2, <1>5, <1>6, <1>7, NetMoves

LEMMA StepNet ==
  ASSUME Files!FilesAssumption, FilesInv,
         \/ Files!Connect \/ Files!Forget \/ Files!removeWorkspace \/ Files!WorkspaceRemoved \/ Files!RemovalFails
         \/ Files!RemovedAway \/ Files!Edit \/ \E why \in {"down", "closing"} : Files!Disconnect(why)
  PROVE  FilesInv'
<1>1. /\ net \in Nets /\ clicks \in 0 .. FileClicks /\ FileClicks \in Nat /\ version \in DOMAIN Chunks
      /\ fails \in 0 .. MaxFails /\ MaxFails \in Nat /\ (net.listed => net.owned)
  BY NoneIs DEF FilesInv, TabShapes, Routed
<1>2. CASE Files!Connect
  <2>1. /\ net' \in Nets /\ net'.conn = "up" /\ net'.listed = net.kept /\ net'.owned = (net.owned \/ net.kept)
        /\ UNCHANGED <<version, tabs, texts, links, reads, opened, fails>> /\ shown' \in {shown, None}
    BY <1>1, <1>2 DEF Files!Connect, Nets
  <2>2. clicks' \in clicks .. FileClicks
    BY <1>1, <1>2 DEF Files!Connect
  <2> QED  BY <1>1, <2>1, <2>2, NetStays
<1>3. CASE Files!removeWorkspace
  <2>1. /\ net' \in Nets /\ net'.conn = net.conn /\ net'.listed = FALSE /\ net'.owned = net.owned
        /\ UNCHANGED <<version, tabs, texts, links, reads, opened, fails>> /\ shown' \in {shown, None}
    BY <1>1, <1>3 DEF Files!removeWorkspace, Nets
  <2>2. clicks' \in clicks .. FileClicks
    BY <1>1, <1>3 DEF Files!removeWorkspace
  <2> QED  BY <1>1, <2>1, <2>2, NetStays
<1>4. CASE Files!RemovalFails
  <2>1. /\ net' \in Nets /\ net'.conn = net.conn /\ net'.owned = net.owned
        /\ (net'.listed => net.listed \/ net.owned)
        /\ UNCHANGED <<version, tabs, shown, texts, links, reads, opened, clicks>>
    BY <1>1, <1>4 DEF Files!RemovalFails, Nets
  <2>2. fails' \in 0 .. MaxFails /\ clicks' \in clicks .. FileClicks
    BY <1>1, <1>4 DEF Files!RemovalFails
  <2> QED  BY <1>1, <2>1, <2>2, NetStays
<1>5. CASE Files!RemovedAway
  <2>1. /\ net' \in Nets /\ net'.conn = net.conn /\ net'.listed = net.listed /\ net'.owned = net.owned
        /\ UNCHANGED <<version, tabs, shown, texts, links, reads, opened, fails>>
    BY <1>1, <1>5 DEF Files!RemovedAway, Nets
  <2>2. clicks' \in clicks .. FileClicks
    BY <1>1, <1>5 DEF Files!RemovedAway
  <2> QED  BY <1>1, <2>1, <2>2, NetStays
<1>6. CASE Files!Forget
  <2>1. [net EXCEPT !.conn = "gone"] \in Nets
    BY <1>1 DEF Nets
  <2> QED  BY <1>6, <2>1, LosesOwner DEF Files!Forget
<1>7. CASE Files!WorkspaceRemoved
  <2>1. [net EXCEPT !.kept = FALSE, !.removing = FALSE] \in Nets
    BY <1>1 DEF Nets
  <2> QED  BY <1>7, <2>1, LosesOwner DEF Files!WorkspaceRemoved
<1>8. CASE Files!Edit
  <2>1. UNCHANGED <<net, tabs, shown, texts, links, reads, opened, clicks, fails>> /\ version' = version + 1
        /\ version' \in DOMAIN Chunks
    BY <1>8 DEF Files!Edit
  <2>2. TabShapes'
    BY <2>1 DEF FilesInv, TabShapes
  <2>3. Routed' /\ ReadsOwn'
    BY <2>1 DEF FilesInv, Routed, RoutedOwn, ReadsOwn, ReadOwn, ReadFrom
  <2>4. \A v \in 1 .. version : v \in 1 .. version'
    BY <1>1, <2>1, NoneIs
  <2>5. TextsKept'
    BY <2>1, <2>4 DEF FilesInv, TextsKept
  <2> QED  BY <2>2, <2>3, <2>5 DEF FilesInv
<1> QED  BY <1>2, <1>3, <1>4, <1>5, <1>6, <1>7, <1>8, StepNetDown

-----------------------------------------------------------------------------
(* Reads that come back.                                                   *)

LEMMA Stored ==
  ASSUME TabShapes, NEW r, r.tab \in Files!TabIds, NEW is, NEW text, Files!Store(r, is, text)
  PROVE  LET new == [is |-> is, text |-> text, stray |-> r.stray] IN
         /\ texts[r.tab] = None => texts'[r.tab] = None
         /\ texts[r.tab] # None => texts'[r.tab] = new
         /\ \A u \in Files!TabIds \ {r.tab} : texts'[u] = texts[u]
         /\ new \in Content => texts' \in [Files!TabIds -> Content \cup {None}]
<1>1. texts \in [Files!TabIds -> Content \cup {None}]
  BY DEF TabShapes
<1> QED  BY <1>1 DEF Files!Store

\* A read ends: what it brings is stored for its tab, unless that was closed.
LEMMA ReadEnds ==
  ASSUME Files!FilesAssumption, FilesInv, NEW r \in reads, NEW is \in {"error", "text"}, NEW text,
         [is |-> is, text |-> text, stray |-> r.stray] \in Content,
         Files!Store(r, is, text), reads' = reads \ {r}, fails' \in 0 .. MaxFails,
         UNCHANGED <<net, version, tabs, shown, links, opened, clicks>>,
         is = "text" => Len(text) = Chunks[version],
         is = "text" /\ ~r.stray => ReadFrom(text, r.ws)
  PROVE  FilesInv'
<1>1. r.tab \in Files!TabIds /\ r.tab \in DOMAIN tabs /\ version \in Nat \ {0}
  BY NoneIs DEF FilesInv, TabShapes, ReadCall
<1> DEFINE new == [is |-> is, text |-> text, stray |-> r.stray]
<1>2. /\ \A u \in Files!TabIds \ {r.tab} : texts'[u] = texts[u]
      /\ texts[r.tab] = None => texts'[r.tab] = None
      /\ texts[r.tab] # None => texts'[r.tab] = new
      /\ texts' \in [Files!TabIds -> Content \cup {None}]
  BY <1>1, Stored DEF FilesInv
<1>3. new.is = is /\ new.text = text /\ new.stray = r.stray
  OBVIOUS
<1> HIDE DEF new
<1>4. TabShapes'
  BY <1>2 DEF FilesInv, TabShapes
<1>5. TextsKept'
  <2>1. ASSUME NEW t \in Files!TabIds, texts'[t] # None
        PROVE  /\ t \in DOMAIN tabs /\ tabs[t] # None
               /\ texts'[t].is = "loading" => \E k \in reads' : k.tab = t
               /\ texts'[t].is = "text" => \E v \in 1 .. version : Len(texts'[t].text) = Chunks[v]
    <3>1. CASE t = r.tab
      <4>1. texts[t] # None /\ texts'[t] = new
        BY <1>2, <2>1, <3>1
      <4> QED  BY <1>1, <1>3, <4>1 DEF FilesInv, TextsKept
    <3>2. CASE t # r.tab
      <4>1. texts'[t] = texts[t]
        BY <1>2, <3>2
      <4>2. \A k \in reads : k.tab = t => k \in reads'
        BY <3>2
      <4> QED  BY <2>1, <4>1, <4>2 DEF FilesInv, TextsKept
    <3> QED  BY <3>1, <3>2
  <2> QED  BY <2>1 DEF TextsKept
<1>6. Routed' /\ ReadsOwn'
  <2>1. Routed'
    BY DEF FilesInv, Routed, RoutedOwn
  <2>2. ASSUME NEW t \in Files!TabIds, texts'[t] # None, texts'[t].is = "text", ~texts'[t].stray
        PROVE  ReadFrom(texts'[t].text, tabs[t].ws)
    <3>1. CASE t = r.tab
      <4>1. texts[t] # None /\ texts'[t] = new
        BY <1>2, <2>2, <3>1
      <4>2. tabs[t] # None
        BY <4>1 DEF FilesInv, TextsKept
      <4>3. tabs[t].ws = r.ws
        BY <3>1, <4>2 DEF FilesInv, ReadsOwn
      <4> QED  BY <1>3, <2>2, <4>1, <4>3
    <3>2. CASE t # r.tab
      BY <1>2, <2>2, <3>2 DEF FilesInv, ReadsOwn
    <3> QED  BY <3>1, <3>2
  <2>3. \A k \in reads' : ReadOwn(k) /\ (tabs[k.tab] # None => tabs[k.tab].ws = k.ws)
    BY DEF FilesInv, ReadsOwn
  <2>4. ReadsOwn'
    BY <2>2, <2>3 DEF FilesInv, ReadsOwn, ReadOwn, ReadFrom
  <2> QED  BY <2>1, <2>4
<1> QED  BY <1>4, <1>5, <1>6 DEF FilesInv

\* A read goes on, for the same tab.
LEMMA ReadGoesOn ==
  ASSUME Files!FilesAssumption, FilesInv, NEW r \in reads, NEW k \in ReadCall,
         reads' = (reads \ {r}) \cup {k}, k.tab = r.tab, k.ws = r.ws, fails' \in 0 .. MaxFails,
         UNCHANGED <<net, version, tabs, shown, texts, links, opened, clicks>>,
         RoutedOwn(k) /\ ReadOwn(k)
  PROVE  FilesInv'
<1>1. TabShapes'
  BY DEF FilesInv, TabShapes
<1>2. TextsKept'
  <2>1. \A t \in Files!TabIds : (\E i \in reads : i.tab = t) => \E i \in reads' : i.tab = t
    OBVIOUS
  <2> QED  BY <2>1 DEF FilesInv, TextsKept
<1>3. Routed' /\ ReadsOwn'
  <2>1. \A i \in reads' \cup links' : RoutedOwn(i)
    BY DEF FilesInv, Routed
  <2>2. Routed'
    BY <2>1 DEF FilesInv, Routed, RoutedOwn
  <2>3. \A i \in reads' : ReadOwn(i) /\ (tabs[i.tab] # None => tabs[i.tab].ws = i.ws)
    BY DEF FilesInv, ReadsOwn
  <2> QED  BY <2>2, <2>3 DEF FilesInv, ReadsOwn, ReadOwn, ReadFrom
<1> QED  BY <1>1, <1>2, <1>3 DEF FilesInv

LEMMA ChunkRead ==
  ASSUME Files!FilesAssumption, version \in DOMAIN Chunks, NEW text \in Pieces, NEW w \in Files!Work
  PROVE  /\ Append(text, <<w, version>>) \in Pieces
         /\ Len(Append(text, <<w, version>>)) = Len(text) + 1
         /\ ReadFrom(text, w) => ReadFrom(Append(text, <<w, version>>), w)
<1>1. <<w, version>> \in Files!Chunk /\ <<w, version>>[1] = w
  BY DEF Files!Chunk
<1> DEFINE more == Append(text, <<w, version>>)
<1>2. more \in Pieces /\ Len(more) = Len(text) + 1 /\ Len(text) \in Nat
      /\ (\A i \in 1 .. Len(text) : more[i] = text[i]) /\ more[Len(text) + 1] = <<w, version>>
  BY <1>1 DEF Pieces
<1>3. DOMAIN more = 1 .. Len(text) + 1 /\ DOMAIN text = 1 .. Len(text)
  BY <1>2 DEF Pieces
<1> HIDE DEF more
<1>4. ReadFrom(text, w) => ReadFrom(more, w)
  <2>1. ASSUME ReadFrom(text, w), NEW i \in DOMAIN more PROVE more[i][1] = w
    <3>1. CASE i \in 1 .. Len(text)
      BY <1>2, <1>3, <2>1, <3>1 DEF ReadFrom
    <3>2. CASE i = Len(text) + 1
      BY <1>1, <1>2, <3>2
    <3> QED  BY <1>2, <1>3, <3>1, <3>2
  <2> QED  BY <2>1 DEF ReadFrom
<1> QED  BY <1>2, <1>4 DEF more

LEMMA StepReadAnswer ==
  ASSUME Files!FilesAssumption, FilesInv, NEW r \in reads, Files!ReadAnswer(r)
  PROVE  FilesInv'
<1>1. /\ r \in ReadCall /\ r.text \in Pieces /\ r.to \in Files!Work /\ r.tab \in Files!TabIds /\ r.ws \in Files!Work
      /\ version \in DOMAIN Chunks /\ fails \in 0 .. MaxFails /\ r.at = "ask"
  BY DEF FilesInv, TabShapes, Files!ReadAnswer, ReadCall
<1> DEFINE text == IF Len(r.text) < Chunks[version] THEN Append(r.text, <<r.to, version>>) ELSE r.text
<1>2. text \in Pieces
  BY <1>1, ChunkRead
<1>3. RoutedOwn(r) /\ (~r.stray => ReadFrom(text, r.ws))
  <2>1. RoutedOwn(r) /\ ReadOwn(r)
    BY DEF FilesInv, Routed, ReadsOwn
  <2>2. r.to # None
    BY DEF Files!ReadAnswer
  <2>3. ~r.stray => r.to = r.ws
    BY <1>1, <2>1, <2>2 DEF RoutedOwn, Files!Work
  <2> QED  BY <1>1, <2>1, <2>3, ChunkRead DEF ReadOwn
<1>4. /\ UNCHANGED <<net, version, tabs, shown, links, opened, clicks, fails>>
      /\ IF Len(text) = Chunks[version]
         THEN Files!Store(r, "text", text) /\ reads' = reads \ {r}
         ELSE reads' = (reads \ {r}) \cup {[r EXCEPT !.text = text]} /\ UNCHANGED texts
  BY DEF Files!ReadAnswer
<1> HIDE DEF text
<1>5. CASE Len(text) = Chunks[version]
  <2>1. [is |-> "text", text |-> text, stray |-> r.stray] \in Content
    BY <1>1, <1>2 DEF Content, ReadCall
  <2> QED  BY <1>1, <1>3, <1>4, <1>5, <2>1, ReadEnds
<1>6. CASE Len(text) # Chunks[version]
  <2> DEFINE k == [r EXCEPT !.text = text]
  <2>1. k \in ReadCall /\ k.tab = r.tab /\ k.ws = r.ws /\ k.to = r.to /\ k.at = r.at /\ k.text = text
        /\ k.stray = r.stray
    BY <1>1, <1>2 DEF ReadCall
  <2>2. reads' = (reads \ {r}) \cup {k} /\ UNCHANGED texts
    BY <1>4, <1>6
  <2> HIDE DEF k
  <2>3. RoutedOwn(k) /\ ReadOwn(k)
    BY <1>3, <2>1 DEF RoutedOwn, ReadOwn
  <2> QED  BY <1>1, <1>4, <2>1, <2>2, <2>3, ReadGoesOn
<1> QED  BY <1>5, <1>6

LEMMA StepReadFails ==
  ASSUME Files!FilesAssumption, FilesInv, NEW r \in reads, Files!ReadFails(r)
  PROVE  FilesInv'
<1>1. /\ r \in ReadCall /\ r.text \in Pieces /\ r.tab \in Files!TabIds /\ r.ws \in Files!Work
      /\ fails \in 0 .. MaxFails /\ MaxFails \in Nat
  BY NoneIs DEF FilesInv, TabShapes, ReadCall
<1>2. fails' \in 0 .. MaxFails
  BY <1>1 DEF Files!ReadFails
<1>3. CASE Files!isRemoteWorkspace(r.ws)
  <2>1. [is |-> "error", text |-> None, stray |-> r.stray] \in Content
    BY <1>1 DEF Content, ReadCall
  <2>2. Files!Store(r, "error", None) /\ reads' = reads \ {r}
        /\ UNCHANGED <<net, version, tabs, shown, links, opened, clicks>>
    BY <1>3 DEF Files!ReadFails
  <2> QED  BY <1>2, <2>1, <2>2, ReadEnds
<1>4. CASE ~Files!isRemoteWorkspace(r.ws)
  <2> DEFINE k == [r EXCEPT !.at = "invoke", !.to = "near"]
  <2>1. k \in ReadCall /\ k.tab = r.tab /\ k.ws = r.ws /\ k.to = "near" /\ k.at = "invoke" /\ k.text = r.text
        /\ k.stray = r.stray
    BY <1>1 DEF ReadCall, Files!Work
  <2>2. reads' = (reads \ {r}) \cup {k} /\ UNCHANGED <<net, version, tabs, shown, texts, links, opened, clicks>>
    BY <1>4 DEF Files!ReadFails
  <2> HIDE DEF k
  <2>3. RoutedOwn(k) /\ ReadOwn(k)
    <3>1. RoutedOwn(r) /\ ReadOwn(r)
      BY DEF FilesInv, Routed, ReadsOwn
    <3>2. r.ws = "near" \/ r.stray
      BY <1>1, <1>4, <3>1 DEF RoutedOwn, Files!isRemoteWorkspace, Files!Work
    <3> QED  BY <2>1, <3>1, <3>2 DEF RoutedOwn, ReadOwn
  <2> QED  BY <1>2, <2>1, <2>2, <2>3, ReadGoesOn
<1> QED  BY <1>3, <1>4

LEMMA StepInvoke ==
  ASSUME Files!FilesAssumption, FilesInv, NEW r \in reads, NEW ok \in BOOLEAN, Files!InvokeAnswer(r, ok)
  PROVE  FilesInv'
<1>1. /\ r \in ReadCall /\ r.ws \in Files!Work /\ fails \in 0 .. MaxFails /\ version \in DOMAIN Chunks
  BY DEF FilesInv, TabShapes, ReadCall
<1>2. UNCHANGED <<net, version, tabs, shown, links, opened, clicks, fails>> /\ reads' = reads \ {r} /\ r.at = "invoke"
  BY DEF Files!InvokeAnswer
<1>3. CASE ~ok
  <2>1. [is |-> "error", text |-> None, stray |-> r.stray] \in Content
    BY <1>1 DEF Content, ReadCall
  <2>2. Files!Store(r, "error", None)
    BY <1>3 DEF Files!InvokeAnswer
  <2> QED  BY <1>1, <1>2, <2>1, <2>2, ReadEnds
<1>4. CASE ok
  <2> DEFINE n == Chunks[version]
             text == [i \in 1 .. n |-> <<"near", version>>]
  <2>1. n \in Nat /\ <<"near", version>> \in Files!Chunk /\ <<"near", version>>[1] = "near"
    BY <1>1, NoneIs DEF Files!Chunk, Files!Work
  <2>2. Files!Store(r, "text", text)
    BY <1>4 DEF Files!InvokeAnswer
  <2>3. text \in Pieces /\ Len(text) = n /\ DOMAIN text = 1 .. n /\ \A i \in 1 .. n : text[i] = <<"near", version>>
    <3> HIDE DEF n
    <3>1. text \in [1 .. n -> Files!Chunk]
      BY <2>1
    <3>2. text \in Seq(Files!Chunk)
      BY <2>1, <3>1
    <3> QED  BY <2>1, <3>1, <3>2 DEF Pieces
  <2>4. [is |-> "text", text |-> text, stray |-> r.stray] \in Content
    BY <1>1, <2>3 DEF Content, ReadCall
  <2>5. ~r.stray => r.ws = "near"
    <3>1. RoutedOwn(r)
      BY DEF FilesInv, Routed
    <3> QED  BY <1>1, <1>2, <3>1 DEF RoutedOwn, Files!Work
  <2>6. Len(text) = Chunks[version] /\ (~r.stray => ReadFrom(text, r.ws))
    BY <2>1, <2>3, <2>5 DEF ReadFrom
  <2> HIDE DEF text, n
  <2> QED  BY <1>1, <1>2, <2>2, <2>4, <2>6, ReadEnds
<1> QED  BY <1>3, <1>4

-----------------------------------------------------------------------------
(* Tabs that are opened, shown and closed.                                 *)

\* The read that load begins.
LEMMA Begun ==
  ASSUME Files!FilesAssumption, FilesInv, NEW t \in Files!TabIds, tabs'[t].ws \in Files!Listed,
         clicks' \in 1 .. FileClicks
  PROVE  LET to == Files!transportForWorkspace(tabs'[t].ws)
             k  == Files!Reading(t, to) IN
         /\ k \in ReadCall /\ k.tab = t /\ k.ws = tabs'[t].ws /\ ReadOwn(k)
         /\ RoutedOwn(k)
<1> DEFINE w == tabs'[t].ws
           to == Files!transportForWorkspace(w)
           k  == Files!Reading(t, to)
<1>1. net \in Nets /\ w \in Files!Work
  BY DEF FilesInv, TabShapes, Files!Listed, Files!Work
<1>2. to \in Files!Work \cup {None}
  BY <1>1, Transport
<1>3. <<>> \in Pieces /\ ReadFrom(<<>>, w)
  BY DEF Pieces, ReadFrom
<1>4. k \in ReadCall /\ k.tab = t /\ k.ws = w /\ k.text = <<>> /\ k.to = to /\ k.at = "ask"
  BY <1>1, <1>2, <1>3 DEF Files!Reading, ReadCall
<1> HIDE DEF k
<1>5. RoutedOwn(k)
  BY <1>1, <1>4, ListedOwned, SentOwn DEF FilesInv
<1> QED  BY <1>3, <1>4, <1>5 DEF k, ReadOwn

LEMMA LoadDoes ==
  ASSUME Files!FilesAssumption, FilesInv, NEW t \in Files!TabIds, tabs'[t].ws \in Files!Listed,
         clicks' \in 1 .. FileClicks, Files!load(t)
  PROVE  /\ texts' \in [Files!TabIds -> Content \cup {None}]
         /\ \A u \in Files!TabIds : texts'[u] = texts[u]
              \/ (u = t /\ texts'[u] # None /\ texts'[u].is \in {"loading", "error"}
                  /\ (texts'[u].is = "loading" => \E r \in reads' : r.tab = u))
         /\ reads \subseteq reads'
         /\ \A k \in reads' \ reads : k \in ReadCall /\ k.tab = t /\ k.ws = tabs'[t].ws
                                      /\ ReadOwn(k) /\ RoutedOwn(k)
<1> DEFINE w  == tabs'[t].ws
           to == Files!transportForWorkspace(w)
           k  == Files!Reading(t, to)
           loading == [is |-> "loading", text |-> None, stray |-> FALSE]
           error   == [is |-> "error", text |-> None, stray |-> FALSE]
<1>1. texts \in [Files!TabIds -> Content \cup {None}]
  BY DEF FilesInv, TabShapes
<1>2. /\ loading \in Content /\ loading.is = "loading" /\ error \in Content /\ error.is = "error"
      /\ loading # None /\ error # None
  <2>1. loading \in Content /\ error \in Content
    BY DEF Content
  <2> QED  BY <2>1, NoneIs
<1>3. k \in ReadCall /\ k.tab = t /\ k.ws = w /\ ReadOwn(k) /\ RoutedOwn(k)
  BY Begun
<1>4. \/ UNCHANGED <<texts, reads>>
      \/ texts' = [texts EXCEPT ![t] = error] /\ UNCHANGED reads
      \/ texts' = [texts EXCEPT ![t] = loading] /\ reads' = reads \cup {k}
  BY DEF Files!load
<1> HIDE DEF k, loading, error
<1>5. CASE UNCHANGED <<texts, reads>>
  BY <1>1, <1>5
<1>6. CASE texts' = [texts EXCEPT ![t] = error] /\ UNCHANGED reads
  <2>1. texts'[t] = error /\ \A u \in Files!TabIds \ {t} : texts'[u] = texts[u]
    BY <1>1, <1>6
  <2> QED  BY <1>1, <1>2, <1>6, <2>1
<1>7. CASE texts' = [texts EXCEPT ![t] = loading] /\ reads' = reads \cup {k}
  <2>1. texts'[t] = loading /\ \A u \in Files!TabIds \ {t} : texts'[u] = texts[u]
    BY <1>1, <1>7
  <2>2. \E r \in reads' : r.tab = t
    BY <1>3, <1>7
  <2>3. texts' \in [Files!TabIds -> Content \cup {None}]
    BY <1>1, <1>2, <1>7
  <2> QED  BY <1>2, <1>3, <1>7, <2>1, <2>2, <2>3
<1> QED  BY <1>4, <1>5, <1>6, <1>7

LEMMA Mounted ==
  ASSUME Files!FilesAssumption, FilesInv, NEW t \in Files!TabIds,
         tabs' \in Seq(FileTab \cup {None}), Len(tabs') <= MaxTabs, t \in DOMAIN tabs',
         \A u \in DOMAIN tabs : u \in DOMAIN tabs' /\ tabs'[u] = tabs[u],
         tabs'[t] # None, tabs'[t].ws \in Files!Listed,
         clicks' \in 1 .. FileClicks, clicks <= clicks',
         (shown' = t /\ Files!load(t)) \/ UNCHANGED <<shown, texts, reads>>,
         UNCHANGED <<net, version, fails>>, links' \subseteq links,
         opened' \subseteq Files!Work \X BOOLEAN, <<"far", FALSE>> \notin opened'
  PROVE  FilesInv'
<1>1. /\ texts' \in [Files!TabIds -> Content \cup {None}]
      /\ \A u \in Files!TabIds : texts'[u] = texts[u]
           \/ (u = t /\ texts'[u] # None /\ texts'[u].is \in {"loading", "error"}
               /\ (texts'[u].is = "loading" => \E r \in reads' : r.tab = u))
      /\ reads \subseteq reads'
      /\ \A k \in reads' \ reads : k \in ReadCall /\ k.tab = t /\ k.ws = tabs'[t].ws
                                   /\ ReadOwn(k) /\ RoutedOwn(k)
  <2>1. CASE Files!load(t)
    BY <2>1, LoadDoes
  <2>2. CASE UNCHANGED <<shown, texts, reads>>
    BY <2>2 DEF FilesInv, TabShapes
  <2> QED  BY <2>1, <2>2
<1>2. TabShapes'
  <2>1. \A l \in links' : l \in LinkCall /\ l.n <= clicks'
    <3>1. ASSUME NEW l \in links PROVE l \in LinkCall /\ l.n <= clicks'
      <4>1. l \in LinkCall /\ l.n <= clicks /\ l.n \in Nat /\ clicks \in Nat /\ clicks' \in Nat
        BY NoneIs DEF FilesInv, TabShapes, LinkCall
      <4> QED  BY <4>1
    <3> QED  BY <3>1
  <2>2. \A r \in reads' : r \in ReadCall /\ r.tab \in DOMAIN tabs'
    BY <1>1 DEF FilesInv, TabShapes
  <2>3. shown' \in DOMAIN tabs' \cup {None} /\ (shown' # None => tabs'[shown'] # None)
    BY DEF FilesInv, TabShapes
  <2>4. clicks' \in 0 .. FileClicks
    BY NoneIs
  <2> QED  BY <1>1, <2>1, <2>2, <2>3, <2>4 DEF FilesInv, TabShapes
<1>3. TextsKept'
  <2>1. ASSUME NEW u \in Files!TabIds, texts'[u] # None
        PROVE  /\ u \in DOMAIN tabs' /\ tabs'[u] # None
               /\ texts'[u].is = "loading" => \E r \in reads' : r.tab = u
               /\ texts'[u].is = "text" => \E v \in 1 .. version' : Len(texts'[u].text) = Chunks[v]
    <3>1. CASE texts'[u] = texts[u]
      BY <1>1, <2>1, <3>1 DEF FilesInv, TextsKept
    <3>2. CASE texts'[u] # texts[u]
      BY <1>1, <3>2
    <3> QED  BY <3>1, <3>2
  <2> QED  BY <2>1 DEF TextsKept
<1>4. Routed' /\ ReadsOwn'
  <2>1. \A i \in reads' \cup links' : RoutedOwn(i)
    BY <1>1 DEF FilesInv, Routed
  <2>2. Routed'
    BY <2>1 DEF FilesInv, Routed, RoutedOwn
  <2>3. ASSUME NEW r \in reads'
        PROVE  ReadOwn(r) /\ (tabs'[r.tab] # None => tabs'[r.tab].ws = r.ws)
    <3>1. CASE r \in reads
      <4>1. r.tab \in DOMAIN tabs
        BY <3>1 DEF FilesInv, TabShapes
      <4> QED  BY <3>1, <4>1 DEF FilesInv, ReadsOwn
    <3>2. CASE r \notin reads
      BY <1>1, <2>3, <3>2
    <3> QED  BY <3>1, <3>2
  <2>4. ASSUME NEW u \in Files!TabIds, texts'[u] # None, texts'[u].is = "text", ~texts'[u].stray
        PROVE  ReadFrom(texts'[u].text, tabs'[u].ws)
    <3>1. texts'[u] = texts[u]
      BY <1>1, <2>4
    <3>2. u \in DOMAIN tabs
      BY <2>4, <3>1 DEF FilesInv, TextsKept
    <3> QED  BY <2>4, <3>1, <3>2 DEF FilesInv, ReadsOwn
  <2>5. ReadsOwn'
    BY <2>3, <2>4 DEF ReadsOwn, ReadOwn, ReadFrom
  <2> QED  BY <2>2, <2>5
<1> QED  BY <1>2, <1>3, <1>4 DEF FilesInv

\* A text goes, with its tab or without it.
LEMMA Dropped ==
  ASSUME Files!FilesAssumption, FilesInv, NEW t \in DOMAIN tabs, Files!drop(t),
         tabs' = tabs \/ tabs' = [tabs EXCEPT ![t] = None],
         clicks' \in 0 .. FileClicks, clicks <= clicks',
         shown' = None \/ (shown' = shown /\ (shown # t \/ tabs' = tabs)),
         UNCHANGED <<net, version, links, reads, opened, fails>>
  PROVE  FilesInv'
<1>1. /\ tabs \in Seq(FileTab \cup {None}) /\ Len(tabs) \in Nat /\ Len(tabs) <= MaxTabs
      /\ DOMAIN tabs = 1 .. Len(tabs) /\ texts \in [Files!TabIds -> Content \cup {None}] /\ MaxTabs \in Nat
  BY NoneIs DEF FilesInv, TabShapes
<1>2. t \in Files!TabIds
  BY <1>1 DEF Files!TabIds
<1>3. /\ texts' \in [Files!TabIds -> Content \cup {None}] /\ texts'[t] = None
      /\ \A u \in Files!TabIds \ {t} : texts'[u] = texts[u]
  BY <1>1, <1>2 DEF Files!drop
<1>4. /\ tabs' \in Seq(FileTab \cup {None}) /\ Len(tabs') = Len(tabs) /\ DOMAIN tabs' = DOMAIN tabs
      /\ \A u \in DOMAIN tabs : tabs'[u] \in {tabs[u], None} /\ (u # t => tabs'[u] = tabs[u])
  <2>1. CASE tabs' = tabs
    BY <1>1, <2>1
  <2>2. CASE tabs' = [tabs EXCEPT ![t] = None]
    BY <1>1, <2>2
  <2> QED  BY <2>1, <2>2
<1>5. TabShapes'
  <2>1. \A l \in links' : l \in LinkCall /\ l.n <= clicks'
    <3>1. ASSUME NEW l \in links PROVE l \in LinkCall /\ l.n <= clicks'
      <4>1. l \in LinkCall /\ l.n <= clicks /\ l.n \in Nat /\ clicks \in Nat /\ clicks' \in Nat
        BY NoneIs DEF FilesInv, TabShapes, LinkCall
      <4> QED  BY <4>1
    <3> QED  BY <3>1
  <2>2. \A r \in reads' : r \in ReadCall /\ r.tab \in DOMAIN tabs'
    BY <1>4 DEF FilesInv, TabShapes
  <2>3. shown' \in DOMAIN tabs' \cup {None} /\ (shown' # None => tabs'[shown'] # None)
    BY <1>4 DEF FilesInv, TabShapes
  <2> QED  BY <1>1, <1>3, <1>4, <2>1, <2>2, <2>3 DEF FilesInv, TabShapes
<1>6. TextsKept'
  <2>1. ASSUME NEW u \in Files!TabIds, texts'[u] # None
        PROVE  u # t /\ texts'[u] = texts[u] /\ u \in DOMAIN tabs /\ tabs'[u] = tabs[u]
    BY <1>3, <1>4, <2>1 DEF FilesInv, TextsKept
  <2> QED  BY <1>4, <2>1 DEF FilesInv, TextsKept
<1>7. Routed' /\ ReadsOwn'
  <2>1. Routed'
    BY DEF FilesInv, Routed, RoutedOwn
  <2>2. ASSUME NEW r \in reads
        PROVE  ReadOwn(r) /\ (tabs'[r.tab] # None => tabs'[r.tab].ws = r.ws)
    <3>1. r.tab \in DOMAIN tabs
      BY DEF FilesInv, TabShapes
    <3> QED  BY <1>4, <3>1 DEF FilesInv, ReadsOwn
  <2>3. ASSUME NEW u \in Files!TabIds, texts'[u] # None, texts'[u].is = "text", ~texts'[u].stray
        PROVE  ReadFrom(texts'[u].text, tabs'[u].ws)
    <3>1. u # t /\ texts'[u] = texts[u]
      BY <1>3, <2>3
    <3>2. u \in DOMAIN tabs
      BY <2>3, <3>1 DEF FilesInv, TextsKept
    <3> QED  BY <1>4, <2>3, <3>1, <3>2 DEF FilesInv, ReadsOwn
  <2>4. ReadsOwn'
    BY <2>2, <2>3 DEF FilesInv, ReadsOwn, ReadOwn, ReadFrom
  <2> QED  BY <2>1, <2>4
<1> QED  BY <1>5, <1>6, <1>7 DEF FilesInv

LEMMA StepClose ==
  ASSUME Files!FilesAssumption, FilesInv, Files!closeCascade \/ \E t \in DOMAIN tabs : Files!closeTab(t)
  PROVE  FilesInv'
<1>1. clicks \in 0 .. FileClicks /\ FileClicks \in Nat /\ shown \in DOMAIN tabs \cup {None}
      /\ tabs \in Seq(FileTab \cup {None})
  BY NoneIs DEF FilesInv, TabShapes
<1>2. ASSUME clicks < FileClicks, clicks' = clicks + 1
      PROVE  clicks' \in 0 .. FileClicks /\ clicks <= clicks'
  BY <1>1, <1>2
<1>3. CASE Files!closeCascade
  <2>1. shown \in DOMAIN tabs /\ Files!drop(shown) /\ clicks' \in 0 .. FileClicks /\ clicks <= clicks'
        /\ UNCHANGED <<net, version, links, reads, opened, fails>>
        /\ ((tabs' = [tabs EXCEPT ![shown] = None] /\ shown' = None) \/ UNCHANGED <<tabs, shown>>)
    BY <1>1, <1>2, <1>3 DEF Files!closeCascade
  <2> QED  BY <2>1, Dropped
<1>4. ASSUME NEW t \in DOMAIN tabs, Files!closeTab(t) PROVE FilesInv'
  <2>1. Files!drop(t) /\ clicks' \in 0 .. FileClicks /\ clicks <= clicks'
        /\ UNCHANGED <<net, version, links, reads, opened, fails>>
        /\ tabs' = [tabs EXCEPT ![t] = None]
        /\ (shown' = None \/ (shown' = shown /\ shown # t))
    BY <1>2, <1>4 DEF Files!closeTab
  <2> QED  BY <2>1, Dropped
<1> QED  BY <1>3, <1>4

LEMMA StepShow ==
  ASSUME Files!FilesAssumption, FilesInv, NEW t \in DOMAIN tabs \cup {None}, Files!Show(t)
  PROVE  FilesInv'
<1>1. clicks \in 0 .. FileClicks /\ FileClicks \in Nat /\ tabs \in Seq(FileTab \cup {None})
      /\ Len(tabs) <= MaxTabs /\ MaxTabs \in Nat /\ opened \subseteq Files!Work \X BOOLEAN
  BY NoneIs DEF FilesInv, TabShapes
<1>2. clicks' \in 1 .. FileClicks /\ clicks <= clicks' /\ clicks' \in clicks .. FileClicks
  BY <1>1 DEF Files!Show
<1>3. UNCHANGED <<net, version, links, opened, fails>> /\ shown' = t /\ tabs' = tabs
  BY DEF Files!Show
<1>4. CASE t = None
  <2>1. UNCHANGED <<texts, reads>>
    BY <1>4 DEF Files!Show
  <2>2. TabShapes'
    <3>1. \A l \in links' : l \in LinkCall /\ l.n <= clicks'
      <4>1. ASSUME NEW l \in links PROVE l \in LinkCall /\ l.n <= clicks'
        <5>1. l \in LinkCall /\ l.n <= clicks /\ l.n \in Nat /\ clicks \in Nat /\ clicks' \in Nat
          BY <1>1, <1>2, NoneIs DEF FilesInv, TabShapes, LinkCall
        <5> QED  BY <1>2, <5>1
      <4> QED  BY <1>3, <4>1
    <3>2. clicks' \in 0 .. FileClicks
      BY <1>1, <1>2
    <3> QED  BY <1>3, <1>4, <2>1, <3>1, <3>2 DEF FilesInv, TabShapes
  <2>3. TextsKept'
    BY <1>3, <2>1, TextsSame DEF FilesInv
  <2>4. Routed' /\ ReadsOwn'
    BY <1>3, <2>1, LinksRouted DEF FilesInv, ReadsOwn
  <2> QED  BY <2>2, <2>3, <2>4 DEF FilesInv
<1>5. CASE t # None
  <2>1. t \in DOMAIN tabs /\ tabs[t] # None /\ tabs[t].ws \in Files!Listed /\ Files!load(t)
    BY <1>5 DEF Files!Show, Files!Open
  <2>2. t \in Files!TabIds
    BY <1>1, <2>1 DEF Files!TabIds
  <2>3. <<"far", FALSE>> \notin opened
    BY DEF FilesInv, ReadsOwn
  <2> QED  BY <1>1, <1>2, <1>3, <2>1, <2>2, <2>3, Mounted
<1> QED  BY <1>4, <1>5

LEMMA StepProbeAnswer ==
  ASSUME Files!FilesAssumption, FilesInv, NEW l \in links, Files!ProbeAnswer(l)
  PROVE  FilesInv'
<1>1. /\ clicks \in 0 .. FileClicks /\ FileClicks \in Nat /\ tabs \in Seq(FileTab \cup {None})
      /\ Len(tabs) <= MaxTabs /\ MaxTabs \in Nat /\ opened \subseteq Files!Work \X BOOLEAN /\ l \in LinkCall
      /\ l.n <= clicks /\ net \in Nets /\ fails \in 0 .. MaxFails
  BY NoneIs DEF FilesInv, TabShapes
<1>2. clicks' = clicks /\ clicks' \in 1 .. FileClicks /\ clicks <= clicks' /\ clicks' \in clicks .. FileClicks
  <2>1. l.n \in 1 .. FileClicks
    BY <1>1 DEF LinkCall
  <2> QED  BY <1>1, <2>1 DEF Files!ProbeAnswer
<1>3. UNCHANGED <<net, version, fails>> /\ links' = links \ {l}
  BY DEF Files!ProbeAnswer, Files!Found
<1>4. l.ws \in Files!Work /\ l.path \in Path /\ l.stray \in BOOLEAN
  BY <1>1 DEF LinkCall
<1>5. ASSUME UNCHANGED <<tabs, shown, texts, reads>>, opened' \subseteq Files!Work \X BOOLEAN,
             <<"far", FALSE>> \notin opened'
      PROVE  FilesInv'
  <2>1. TabShapes'
    BY <1>1, <1>2, <1>3, <1>5, LinksShaped DEF FilesInv
  <2>2. TextsKept'
    BY <1>3, <1>5, TextsSame DEF FilesInv
  <2>3. Routed' /\ ReadsOwn'
    BY <1>3, <1>5, LinksRouted DEF FilesInv
  <2> QED  BY <2>1, <2>2, <2>3 DEF FilesInv
<1>6. <<"far", FALSE>> \notin opened
  BY DEF FilesInv, ReadsOwn
<1>7. CASE UNCHANGED <<tabs, shown, texts, reads, opened>>
  BY <1>1, <1>5, <1>6, <1>7
<1>8. CASE l.path \notin Viewable /\ Files!Found(l)
  <2>1. UNCHANGED <<tabs, shown, texts, reads>>
        /\ opened' = IF Files!isRemoteWorkspace(l.ws) THEN opened ELSE opened \cup {<<l.ws, l.stray>>}
    BY <1>8 DEF Files!Found
  <2>2. <<"far", FALSE>> \notin opened'
    <3>1. Files!isRemoteWorkspace(l.ws) \/ l.ws = "near" \/ l.stray
      <4>1. RoutedOwn(l)
        BY DEF FilesInv, Routed
      <4> QED  BY <1>4, <4>1 DEF RoutedOwn, Files!isRemoteWorkspace, Files!Work
    <3>2. l.ws = "near" \/ l.stray => <<l.ws, l.stray>> # <<"far", FALSE>>
      OBVIOUS
    <3> QED  BY <1>6, <2>1, <3>1, <3>2
  <2>3. opened' \subseteq Files!Work \X BOOLEAN
    BY <1>1, <1>4, <2>1
  <2> QED  BY <1>5, <2>1, <2>2, <2>3
<1>9. CASE l.path \in Viewable /\ Files!openFileTab(l.ws, l.path) /\ UNCHANGED opened
  <2> DEFINE w == l.ws
             tab == [ws |-> w, path |-> l.path]
             old == {t \in DOMAIN tabs : tabs[t] = tab}
  <2>1. tab \in FileTab /\ tab.ws = w /\ tab # None
    BY <1>4, <1>9, NoneIs DEF FileTab
  <2> HIDE DEF tab
  <2>2. CASE w \notin Files!Listed
    BY <1>7, <1>9, <2>2 DEF Files!openFileTab
  <2>3. CASE w \in Files!Listed
    <3>1. PICK t \in IF old # {} THEN old ELSE {Len(tabs) + 1} \cap Files!TabIds, onScreen \in BOOLEAN :
            /\ tabs' = IF old # {} THEN tabs ELSE Append(tabs, tab)
            /\ IF onScreen THEN shown' = t /\ Files!load(t) ELSE UNCHANGED <<shown, texts, reads>>
      BY <1>9, <2>3 DEF Files!openFileTab, tab
    <3>2. CASE old # {}
      <4>1. tabs' = tabs /\ t \in DOMAIN tabs /\ tabs[t] = tab
        BY <3>1, <3>2
      <4>2. t \in Files!TabIds
        BY <1>1, <4>1 DEF Files!TabIds
      <4> QED  BY <1>1, <1>2, <1>3, <1>6, <1>9, <2>1, <2>3, <3>1, <4>1, <4>2, Mounted
    <3>3. CASE old = {}
      <4>1. tabs' = Append(tabs, tab) /\ t = Len(tabs) + 1 /\ t \in Files!TabIds
        BY <3>1, <3>3
      <4>2. /\ tabs' \in Seq(FileTab \cup {None}) /\ Len(tabs') = Len(tabs) + 1
            /\ tabs'[t] = tab /\ t \in DOMAIN tabs'
            /\ \A u \in DOMAIN tabs : u \in DOMAIN tabs' /\ tabs'[u] = tabs[u]
        BY <1>1, <2>1, <4>1
      <4>3. Len(tabs') <= MaxTabs
        BY <4>1, <4>2 DEF Files!TabIds
      <4> QED  BY <1>1, <1>2, <1>3, <1>6, <1>9, <2>1, <2>3, <3>1, <4>1, <4>2, <4>3,
                  Mounted
    <3> QED  BY <3>2, <3>3
  <2> QED  BY <2>2, <2>3
<1> QED  BY <1>7, <1>8, <1>9 DEF Files!ProbeAnswer, Files!Found

LEMMA StepFiles ==
  ASSUME Files!FilesAssumption, FilesInv, [Files!Next]_(Files!vars)
  PROVE  FilesInv'
<1>1. CASE UNCHANGED Files!vars
  <2>1. TabShapes'
    BY <1>1 DEF FilesInv, TabShapes, Files!vars
  <2>2. TextsKept'
    BY <1>1 DEF FilesInv, TextsKept, Files!vars
  <2>3. Routed' /\ ReadsOwn'
    BY <1>1 DEF FilesInv, Routed, RoutedOwn, ReadsOwn, ReadOwn, ReadFrom, Files!vars
  <2> QED  BY <2>1, <2>2, <2>3 DEF FilesInv
<1>2. CASE Files!Next
  BY <1>2, StepReadAnswer, StepReadFails, StepInvoke, StepClick, StepHome,
     StepProbeAnswer,
     StepProbeFails, StepShow, StepClose, StepNet DEF Files!Next
<1> QED  BY <1>1, <1>2
=============================================================================
