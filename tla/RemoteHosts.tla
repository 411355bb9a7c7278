---------------------------- MODULE RemoteHosts ----------------------------
(***************************************************************************)
(* The SSH hosts of one GUI: connecting, retrying, pausing and removing    *)
(* them (remote-host-manager.ts, host-store.ts, the remote half of         *)
(* workspace-sync.ts, HostTransport.disconnect).                           *)
(*                                                                         *)
(* The GUI is one thread; `gui` is all its state, and an operator takes    *)
(* it from one await to the next.  A connection is <<host, number>>.       *)
(***************************************************************************)
EXTENDS Naturals, FiniteSets

CONSTANTS
  Host,       \* profile ids
  Device,     \* machines: hello.deviceId
  DeviceOf,   \* the machine a host's SSH target leads to
  None,
  MaxTries,   \* bound: connections per host
  MaxFails,   \* bound: attempts that fail, and connections that are lost
  MaxClicks,  \* bound: what the user does
  Hasty       \* whether the user acts on a host while a connection of it closes

HostsAssumption ==
  /\ DeviceOf \in [Host -> Device] /\ Hasty \in BOOLEAN
  /\ MaxTries \in Nat /\ MaxFails \in Nat /\ MaxClicks \in Nat
  /\ None \notin Host /\ None \notin Host \X Nat

VARIABLES gui, fails, clicks

hostVars == <<gui, fails, clicks>>

Conn == Host \X (1 .. MaxTries)

\* Where a call of connectProfile stands: in HostTransport.connect, in the list
\* request, or in a disconnect whose continuation ends it.
Calls == {"idle", "connect", "list", "ending"}

\* What follows an awaited connection.disconnect().
Thens == {"retry", "pause", "remove", "reconnect", "duplicate", "abort", "undo"}

Gui == [profiles : SUBSET Host,   \* host-store
        target : SUBSET Host,     \* profiles whose SSH target is not empty
        status : [Host -> {"offline", "connecting", "online", "error"}],
        paused : SUBSET Host, forgotten : SUBSET Host,
        timer : SUBSET Host,      \* retryTimers
        call : [Host -> Calls],   \* inFlight
        hosts : [Host -> Conn \cup {None}],
        devices : [Device -> Host \cup {None}],   \* deviceHosts
        shown : SUBSET Host,      \* hosts whose workspaces are listed
        online : SUBSET Conn,     \* transports that are online
        heard : SUBSET Conn,      \* those the manager has subscribed to
        closing : SUBSET [conn : Conn, then : Thens],
        tries : [Host -> 0 .. MaxTries]]

TypeOK ==
  /\ gui \in Gui
  /\ fails \in 0 .. MaxFails /\ clicks \in 0 .. MaxClicks

----------------------------------------------------------------------------
(* remote-host-manager.ts and workspace-sync.ts                            *)

setRuntime(g, h, s) == [g EXCEPT !.status[h] = s]

clearRetry(g, h) == [g EXCEPT !.timer = @ \ {h}]

scheduleRetry(g, h) == IF h \in g.paused THEN g ELSE [g EXCEPT !.timer = @ \cup {h}]

\* hosts.delete and deviceHosts.delete.
Unlist(g, h) ==
  [g EXCEPT !.hosts[h] = None,
            !.devices[DeviceOf[h]] = IF @ = h THEN None ELSE @]

Close(g, conn, then) == [g EXCEPT !.closing = @ \cup {[conn |-> conn, then |-> then]}]

\* The manager's status listener: disconnectRemoteWorkspaceHost closes whatever
\* connection the host has by now, then the retry is scheduled.
Offline(g, h) ==
  LET off == setRuntime(g, h, "offline") IN
  IF g.hosts[h] = None THEN scheduleRetry(off, h)
  ELSE Close(Unlist(off, h), g.hosts[h], "retry")

\* forgetRemoteWorkspaceHost after its await.
Forget(g, h) == [g EXCEPT !.shown = @ \ {h}]

\* connectProfileInner once connectRemoteWorkspaceHost has returned conn: what the
\* user has paused meanwhile is taken back, a connection that is still in the table
\* by closing it, and otherwise only what was listed of a removed host.
Connected(g, h, conn) ==
  LET up == [setRuntime(g, h, "online") EXCEPT !.heard = @ \cup {conn}, !.call[h] = "idle"]
  IN CASE h \in g.paused /\ g.hosts[h] # None ->
            Close([Unlist(g, h) EXCEPT !.call[h] = "ending"], g.hosts[h], "undo")
       [] h \in g.paused /\ g.hosts[h] = None ->
            Forget([g EXCEPT !.call[h] = "idle"], IF h \in g.forgotten THEN h ELSE None)
       [] OTHER -> IF conn \in g.online THEN up ELSE Offline(up, h)

\* Its catch clause.
Failed(g, h, permanent) ==
  LET over == [g EXCEPT !.call[h] = "idle"]
      told == setRuntime(over, h, "error")
  IN IF h \in g.paused THEN over
     ELSE IF permanent THEN [told EXCEPT !.paused = @ \cup {h}]
     ELSE scheduleRetry(told, h)

\* connectProfile: one call per host at a time.
connectProfile(g, h) ==
  LET trying == setRuntime(clearRetry(g, h), h, "connecting") IN
  IF g.call[h] # "idle" \/ h \in g.paused THEN g
  ELSE IF h \notin g.target THEN setRuntime(g, h, "error")
  ELSE IF g.hosts[h] # None THEN Connected(trying, h, g.hosts[h])
  ELSE [trying EXCEPT !.call[h] = "connect"]

\* After the await of a disconnect; g is already offline where it was.
Then(g, h, then) ==
  CASE then = "retry" -> scheduleRetry(g, h)
    [] then = "pause" -> setRuntime(g, h, "offline")
    [] then = "remove" -> setRuntime([Forget(g, h) EXCEPT !.profiles = @ \ {h}], h, "offline")
    [] then = "reconnect" -> IF h \in g.profiles THEN connectProfile(g, h) ELSE g
    [] then = "duplicate" -> Failed(g, h, TRUE)
    [] then = "abort" -> Failed(g, h, FALSE)
    [] then = "undo" ->
         IF h \in g.forgotten THEN Forget([g EXCEPT !.call[h] = "idle"], h)
         ELSE [g EXCEPT !.call[h] = "idle"]

\* disconnectRemoteWorkspaceHost, then what its caller does.
Disconnect(g, h, then) ==
  IF g.hosts[h] = None THEN Then(g, h, then)
  ELSE Close(Unlist(g, h), g.hosts[h], then)

----------------------------------------------------------------------------
(* The user.                                                               *)

Calm(h) == ~\E c \in gui.closing : c.conn[1] = h

Click(h, g) ==
  /\ clicks < MaxClicks /\ h \in gui.profiles
  /\ Hasty \/ Calm(h)
  /\ clicks' = clicks + 1
  /\ gui' = g
  /\ UNCHANGED fails

Reconnect(h) ==
  Click(h, Disconnect(clearRetry([gui EXCEPT !.paused = @ \ {h}, !.forgotten = @ \ {h}], h),
                      h, "reconnect"))

Pause(h) ==
  Click(h, Disconnect(clearRetry([gui EXCEPT !.paused = @ \cup {h}], h), h, "pause"))

Remove(h) ==
  Click(h, Disconnect(clearRetry([gui EXCEPT !.paused = @ \cup {h}, !.forgotten = @ \cup {h}], h),
                      h, "remove"))

\* updateHost: the target is filled in.
SetTarget(h) == h \notin gui.target /\ Click(h, [gui EXCEPT !.target = @ \cup {h}])

----------------------------------------------------------------------------
(* What the awaits of a connection come back with.                         *)

Fate(failed, g) ==
  /\ failed => fails < MaxFails
  /\ fails' = IF failed THEN fails + 1 ELSE fails
  /\ gui' = g
  /\ UNCHANGED clicks

\* Faulty: a machine that another host is connected to is taken over.
ConnectsAgain(h) ==
  LET conn == <<h, gui.tries[h] + 1>>
      g == [gui EXCEPT !.tries[h] = @ + 1, !.online = @ \cup {conn}]
  IN /\ gui.call[h] = "connect" /\ gui.tries[h] < MaxTries
     /\ Fate(FALSE, [g EXCEPT !.call[h] = "list", !.hosts[h] = conn,
                              !.devices[DeviceOf[h]] = h])

\* HostTransport.connect succeeded; the machine may be connected already.
Connects(h) ==
  LET conn == <<h, gui.tries[h] + 1>>
      owner == gui.devices[DeviceOf[h]]
      g == [gui EXCEPT !.tries[h] = @ + 1, !.online = @ \cup {conn}]
  IN /\ gui.call[h] = "connect" /\ gui.tries[h] < MaxTries
     /\ Fate(FALSE,
          IF owner \notin {None, h}
          THEN Close([g EXCEPT !.call[h] = "ending"], conn, "duplicate")
          ELSE [g EXCEPT !.call[h] = "list", !.hosts[h] = conn, !.devices[DeviceOf[h]] = h])

ConnectFails(h) ==
  /\ gui.call[h] = "connect"
  /\ \E permanent \in BOOLEAN : Fate(TRUE, Failed(gui, h, permanent))

\* The connection that the list request of h is made on.
Listing(h) == <<h, gui.tries[h]>>

\* The answer also comes when the host was paused, removed or reconnected since,
\* and host_disconnect is not done yet.
Lists(h) ==
  /\ gui.call[h] = "list" /\ Listing(h) \in gui.online
  /\ Fate(FALSE, Connected([gui EXCEPT !.shown = @ \cup {h}], h, Listing(h)))

\* An error, or the connection was closed meanwhile.
ListFails(h) ==
  /\ gui.call[h] = "list"
  /\ Fate(Listing(h) \in gui.online /\ gui.hosts[h] = Listing(h),
          Close([Unlist(gui, h) EXCEPT !.call[h] = "ending"], Listing(h), "abort"))

\* The transport is told that its connection is gone, or that it was too slow;
\* once disconnect() has been called it is not told any more.
Lost(conn) ==
  /\ conn \in gui.online /\ ~\E c \in gui.closing : c.conn = conn
  /\ LET off == [gui EXCEPT !.online = @ \ {conn}] IN
     Fate(TRUE, IF conn \in gui.heard THEN Offline(off, conn[1]) ELSE off)

\* host_disconnect is done: setOnline(false, "disconnected") calls the listener,
\* also of a transport that was offline before, and the caller goes on.
Closed(c) ==
  LET h == c.conn[1]
      off == [gui EXCEPT !.closing = @ \ {c}, !.online = @ \ {c.conn}]
  IN Fate(FALSE, Then(IF c.conn \in gui.heard THEN Offline(off, h) ELSE off, h, c.then))

\* The retry timer fires.
Retry(h) ==
  /\ h \in gui.timer
  /\ LET g == clearRetry(gui, h) IN
     Fate(FALSE, IF h \in g.profiles THEN connectProfile(g, h) ELSE g)

----------------------------------------------------------------------------

\* startConfiguredRemoteHosts, on the stored profiles.
Init ==
  /\ \E target \in SUBSET Host :
       gui = [profiles |-> Host, target |-> target,
              status |-> [h \in Host |-> IF h \in target THEN "connecting" ELSE "error"],
              paused |-> {}, forgotten |-> {}, timer |-> {},
              call |-> [h \in Host |-> IF h \in target THEN "connect" ELSE "idle"],
              hosts |-> [h \in Host |-> None], devices |-> [d \in Device |-> None],
              shown |-> {}, online |-> {}, heard |-> {}, closing |-> {},
              tries |-> [h \in Host |-> 0]]
  /\ fails = 0 /\ clicks = 0

User(h) == Reconnect(h) \/ Pause(h) \/ Remove(h) \/ SetTarget(h)

Await(h) == Connects(h) \/ ConnectFails(h) \/ Lists(h) \/ ListFails(h) \/ Retry(h)

Next ==
  \/ \E h \in Host : User(h) \/ Await(h)
  \/ \E conn \in gui.online : Lost(conn)
  \/ \E c \in gui.closing : Closed(c)

\* Every await comes back, and timers fire.
Fairness ==
  /\ \A h \in Host : WF_hostVars(Await(h))
  /\ WF_hostVars(\E c \in gui.closing : Closed(c))

Spec == Init /\ [][Next]_hostVars /\ Fairness

----------------------------------------------------------------------------
(* Properties.                                                             *)

\* A host the user wants and that has a target is never given up by accident: it
\* is online, or something that is under way will try it again.
WantedHasFuture ==
  \A h \in (gui.profiles \cap gui.target) \ gui.paused :
    \/ gui.status[h] = "online" /\ gui.hosts[h] \in gui.online
    \/ gui.call[h] # "idle" \/ h \in gui.timer
    \/ \E c \in gui.closing : c.conn[1] = h /\ c.then \in {"retry", "reconnect"}
    \/ gui.tries[h] = 0 /\ gui.status[h] = "error"  \* the target was just filled in

\* One machine is attached through one host at a time, and the two tables agree
\* (deviceHosts): two hosts would own the same workspaces.
OneHostPerDevice ==
  \A h \in Host : gui.hosts[h] # None <=> gui.devices[DeviceOf[h]] = h

\* What a pause or a removal asks for is the case once nothing is under way: no
\* connection, and of a removed host no workspaces either, whatever was being
\* connected, listed or retried when the user asked.
StoppedIsStopped ==
  \A h \in Host : Calm(h) /\ gui.call[h] = "idle" =>
    /\ h \in gui.paused => gui.hosts[h] = None
    /\ h \notin gui.profiles => h \notin gui.shown

\* Once connections stop failing, every host that is wanted comes online.
WantedAreOnline ==
  \A h \in (gui.profiles \cap gui.target) \ gui.paused :
    \/ gui.status[h] = "online" /\ gui.hosts[h] \in gui.online
    \/ gui.tries[h] = MaxTries
    \/ gui.tries[h] = 0 /\ gui.status[h] = "error"

WantedComesOnline == <>[]WantedAreOnline
=============================================================================
