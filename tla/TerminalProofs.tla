--------------------------- MODULE TerminalProofs ---------------------------
(***************************************************************************)
(* The safety properties of a terminal in a window - its grid, the text    *)
(* that is composed in it and its links - for every value of the           *)
(* constants.                                                              *)
(*                                                                         *)
(* The grid: when every window has come to rest it draws the grid of the   *)
(* PTY, for every set of windows and sizes and every number of drags and   *)
(* takeovers.  The invariant says of each window where its one request is, *)
(* what its feed still holds for it, and which of the sizes it ignores or  *)
(* loses will be made good.  A step is its own client's; of the steps of   *)
(* others a client sees an announced size, an announced lease, or a new    *)
(* holder.  The composition and the links are instances; MCGui runs them.  *)
(***************************************************************************)
EXTENDS PaneResize, SequenceTheorems, TLAPS

CONSTANTS
  Char, MaxKeys,               \* of the composition
  Cols, Outputs, MaxOutputs    \* of the links

VARIABLES
  os, value, xterm, guard, script, timers, typed, sent, keys,
  rows, program, outputs

Typing == INSTANCE Composition
Links == INSTANCE TerminalLinks

-----------------------------------------------------------------------------
(* The feed of a client and its requests, as sequences.                    *)

\* A lease is granted to the client; everybody is told of a lease.
GrantOf(e) == [ev |-> "granted", epoch |-> e]
ControlOf(e) == [ev |-> "control", epoch |-> e]

\* Some event of that kind is in s.
Has(s, kind) == \E i \in DOMAIN s : s[i].ev = kind

\* The event e is in s.
Holds(s, e) == \E i \in DOMAIN s : s[i] = e

HasAnswer(s) == Has(s, "ack") \/ Has(s, "refused") \/ Has(s, "sessions")

IsAnswer(e) == e.ev \in {"ack", "refused", "sessions"}

\* At most one answer to a resize or to a question for the recorded size.
OneAnswer(s) == \A i, j \in DOMAIN s : IsAnswer(s[i]) /\ IsAnswer(s[j]) => i = j

\* The last size announced in s is r.
LastSize(s, r) ==
  \A i \in DOMAIN s :
    s[i].ev = "size" /\ (\A j \in DOMAIN s : j > i => s[j].ev # "size") => s[i].size = r

\* Every size in s is r, or control is lost to another lease before it.
Guarded(s, lease, r) ==
  \A i \in DOMAIN s : s[i].ev = "size" =>
    \/ s[i].size = r
    \/ \E j \in DOMAIN s : j < i /\ s[j].ev = "control" /\ s[j].epoch # lease

\* What follows the grant of epoch e in s, or is in s at all if the epoch is known to
\* be e, announces and grants no other lease; before it is known, no size follows.
Reign(s, isKnown, e) ==
  \A i \in DOMAIN s :
    isKnown \/ (\E k \in DOMAIN s : k < i /\ s[k] = GrantOf(e)) =>
      /\ s[i].ev \in {"control", "granted"} => s[i].epoch = e
      /\ isKnown \/ s[i].ev # "size"

\* No grant in s is above e, and one of e is there only for its holder.
GrantsUpTo(s, e, isHolder) ==
  \A i \in DOMAIN s : s[i].ev = "granted" =>
    s[i].epoch <= e /\ (s[i].epoch = e => isHolder)

\* The sizes in s are all r, and before the answer.
SizesAre(s, r) ==
  \A i \in DOMAIN s : s[i].ev = "size" =>
    s[i].size = r /\ \A j \in DOMAIN s : s[j].ev = "ack" => i < j

\* Every list in s says r.
ListsAre(s, r) == \A i \in DOMAIN s : s[i].ev = "sessions" => s[i].size = r

\* A request that is not for control.
Asks(q) == \E i \in DOMAIN q : q[i].req # "acquire"

OneRequest(q) ==
  \A i, j \in DOMAIN q : q[i].req # "acquire" /\ q[j].req # "acquire" => i = j

\* What the pump waits for was asked like this.
RequestOf(p) ==
  IF p.pump.refresh = -1
  THEN [req |-> "resize", size |-> p.pump.size, epoch |-> p.pump.epoch]
  ELSE [req |-> "list"]

\* The requests in q are those of the pump.
Matches(q, p) ==
  \A i \in DOMAIN q : q[i].req # "acquire" => p.pump # None /\ q[i] = RequestOf(p)

-----------------------------------------------------------------------------
(* A client.                                                               *)

Resizing == {"compare", "set", "record", "recorded"}
Listing == {"list", "listed"}
Granting == {"announce", "granted"}

\* What is handled for c, if anything.
At(c) == IF serving[c] = None THEN "nothing" ELSE serving[c].at

\* The pump waits for a resize, or for the recorded size.
Resizes(c) == pty[c].pump # None /\ pty[c].pump.refresh = -1
Refreshes(c) == pty[c].pump # None /\ pty[c].pump.refresh # -1

\* The resize under way passed the check of its lease; was carried out; will not pass,
\* or did not.
Accepted(c) == At(c) \in Resizing \/ Has(feed[c], "ack")
Acked(c) == At(c) = "recorded" \/ Has(feed[c], "ack")
Doomed(c) ==
  \/ Has(feed[c], "refused")
  \/ Resizes(c) /\ Asks(reqs[c]) /\ pty[c].pump.epoch # owner.epoch

\* The last size that reached the window is the recorded one.
Fresh(c) == ~Has(feed[c], "size") => pty[c].want = recorded

\* The holder has heard of its lease.
Knows(c) == pty[c].epoch = owner.epoch

\* One request of the pump is somewhere on its way.
OneTask(c) ==
  /\ OneRequest(reqs[c]) /\ OneAnswer(feed[c]) /\ Matches(reqs[c], pty[c])
  /\ Asks(reqs[c]) => ~HasAnswer(feed[c]) /\ At(c) \notin Resizing \cup Listing
  /\ HasAnswer(feed[c]) => At(c) \notin Resizing \cup Listing
  /\ Has(feed[c], "ack") \/ Has(feed[c], "refused") \/ At(c) \in Resizing => Resizes(c)
  /\ Has(feed[c], "sessions") \/ At(c) \in Listing => Refreshes(c)
  /\ At(c) \in Resizing => serving[c].size = pty[c].pump.size
  /\ Resizes(c) =>
       Asks(reqs[c]) \/ Accepted(c) \/ Has(feed[c], "refused")

\* The fields of an AgentPty fit together.
PtyWhole(c) ==
  LET p == pty[c] IN
  /\ grid[c] = p.want
  /\ p.readOnly <=> p.lease = 0
  /\ p.readOnly => p.pending = None
  /\ ~p.readOnly => p.lease = p.epoch
  /\ p.pump = None => p.pending = None
  /\ p.pending # None => p.pending = p.want
  /\ Resizes(c) /\ ~p.readOnly /\ p.lease # p.pump.epoch => p.pending # None
  /\ Refreshes(c) =>
       /\ p.pump.refresh \in Nat /\ p.pump.refresh <= p.generation
       /\ ~p.readOnly => p.pending # None /\ ~p.astray

\* An epoch is one client's, and none is above the one in force.
Epochs(c) ==
  LET e == owner.epoch IN
  /\ pty[c].epoch <= e /\ (Knows(c) => c = owner.client)
  /\ pty[c].pump # None =>
       pty[c].pump.epoch <= e /\ (pty[c].pump.epoch = e => c = owner.client)
  /\ GrantsUpTo(feed[c], e, c = owner.client)
  /\ At(c) \in Granting =>
       serving[c].size <= e /\ (serving[c].size = e <=> c = owner.client)
  /\ Has(feed[c], "refused") => pty[c].pump.epoch # e

\* What the list of sessions says is the recorded size, unless a size was announced
\* since.
ListTrue(c) ==
  Refreshes(c) /\ pty[c].pump.refresh = pty[c].generation /\ ~pty[c].missed
    /\ ~Has(feed[c], "size") =>
    /\ At(c) = "listed" => serving[c].size = recorded
    /\ ListsAre(feed[c], recorded)

\* The holder learns of its lease, then keeps it; only its own resizes are carried out.
Holder(c) ==
  c = owner.client =>
    LET e == owner.epoch IN
    /\ Knows(c) => ~pty[c].readOnly
    /\ ~Knows(c) => At(c) \in Granting \/ Holds(feed[c], GrantOf(e))
    /\ Reign(feed[c], Knows(c), e)
    /\ At(c) \in Resizing => Knows(c)
    /\ pty[c].pump # None /\ pty[c].pump.epoch = e => Knows(c)
    /\ At(c) = "announce" =>
         ~Knows(c) /\ ~Holds(feed[c], GrantOf(e))
    /\ Knows(c) /\ Has(feed[c], "size") =>
         Acked(c) /\ SizesAre(feed[c], pty[c].pump.size)

\* A window that lost its lease and does not know of it will hear.
Warned(c) ==
  c # owner.client /\ ~pty[c].readOnly /\ pty[c].pending = None
    /\ (pty[c].pump = None \/ Accepted(c)) /\ ~Unannounced =>
    Holds(feed[c], ControlOf(owner.epoch))

\* Until then it ignores no size that it should draw.
Shielded(c) ==
  Accepted(c) /\ ~pty[c].readOnly /\ pty[c].pending = None =>
    Guarded(feed[c], pty[c].lease, pty[c].pump.size)

\* The window wants the size that it asks for.
AsksForWant(c) ==
  Resizes(c) /\ ~pty[c].readOnly /\ pty[c].pending = None =>
    pty[c].want = pty[c].pump.size \/ pty[c].astray \/ Doomed(c)

\* When what is under way for the window is over, it draws the recorded size.
Draws(c) ==
  ~pty[c].astray =>
    LET p == pty[c] IN
    /\ p.pump = None => Fresh(c)
    /\ Refreshes(c) /\ p.readOnly /\ p.pump.refresh # p.generation => Fresh(c)
    /\ Resizes(c) /\ p.readOnly /\ ~Doomed(c) =>
         Fresh(c) \/ (p.want = p.pump.size /\ ~Acked(c))
    /\ Resizes(c) /\ ~p.readOnly /\ p.pending = None /\ Acked(c) => Fresh(c)

\* The holder wants the size of its container.
Fits(c) ==
  c = owner.client /\ Knows(c) /\ c \notin frames =>
    LET p == pty[c] IN
    \/ fit[c] = p.want
    \/ p.astray /\ p.pending = None /\ (Resizes(c) => p.pump.size # p.want)

\* The PTY has the recorded size, or it is being recorded.
Recorded ==
  /\ At(owner.client) = "record" => ptySize = serving[owner.client].size
  /\ ptySize = recorded \/ \E c \in Client : At(c) = "record" /\ serving[c].size = ptySize

\* What holds whatever happens, and what holds until a client is late.
Always(c) == OneTask(c) /\ PtyWhole(c) /\ Epochs(c) /\ LastSize(feed[c], recorded) /\ ListTrue(c)

InTime(c) ==
  Holder(c) /\ Warned(c) /\ Shielded(c) /\ AsksForWant(c) /\ Draws(c) /\ Fits(c)

ResizeInv ==
  /\ TypeOK
  /\ \A c \in Client : Always(c)
  /\ ~late => Recorded /\ \A c \in Client : InTime(c)

-----------------------------------------------------------------------------
(* Sequences: what is appended, and what is left behind the head.          *)

LEMMA AppendIs ==
  ASSUME NEW S, NEW s \in Seq(S), NEW e \in S
  PROVE  /\ Append(s, e) \in Seq(S)
         /\ DOMAIN Append(s, e) = 1 .. Len(s) + 1 /\ DOMAIN s = 1 .. Len(s)
         /\ Len(s) \in Nat
         /\ \A i \in DOMAIN s : Append(s, e)[i] = s[i]
         /\ Append(s, e)[Len(s) + 1] = e
  OBVIOUS

LEMMA TailIs ==
  ASSUME NEW S, NEW s \in Seq(S), s # <<>>
  PROVE  /\ Tail(s) \in Seq(S) /\ Head(s) \in S /\ Head(s) = s[1]
         /\ DOMAIN Tail(s) = 1 .. Len(s) - 1 /\ DOMAIN s = 1 .. Len(s)
         /\ Len(s) \in Nat /\ Len(s) >= 1
         /\ \A i \in DOMAIN Tail(s) : i + 1 \in DOMAIN s /\ Tail(s)[i] = s[i + 1]
         /\ \A i \in DOMAIN s : i = 1 \/ (i - 1 \in DOMAIN Tail(s) /\ Tail(s)[i - 1] = s[i])
  OBVIOUS

LEMMA HasAppend ==
  ASSUME NEW s \in Seq(Event), NEW e \in Event
  PROVE  \A kind : Has(Append(s, e), kind) <=> Has(s, kind) \/ e.ev = kind
  BY AppendIs DEF Has

LEMMA HasTail ==
  ASSUME NEW s \in Seq(Event), s # <<>>
  PROVE  \A kind : Has(s, kind) <=> Head(s).ev = kind \/ Has(Tail(s), kind)
<1>1. ASSUME NEW kind, Has(s, kind) PROVE Head(s).ev = kind \/ Has(Tail(s), kind)
  <2>1. PICK i \in DOMAIN s : s[i].ev = kind
    BY <1>1 DEF Has
  <2>2. i = 1 \/ (i - 1 \in DOMAIN Tail(s) /\ Tail(s)[i - 1] = s[i])
    BY TailIs
  <2> QED  BY <2>1, <2>2, TailIs DEF Has
<1>2. ASSUME NEW kind, Has(Tail(s), kind) PROVE Has(s, kind)
  BY <1>2, TailIs DEF Has
<1>3. ASSUME NEW kind, Head(s).ev = kind PROVE Has(s, kind)
  BY <1>3, TailIs DEF Has
<1> QED  BY <1>1, <1>2, <1>3

LEMMA HoldsAppend ==
  ASSUME NEW s \in Seq(Event), NEW e \in Event
  PROVE  \A f : Holds(Append(s, e), f) <=> Holds(s, f) \/ e = f
  BY AppendIs DEF Holds

LEMMA HoldsTail ==
  ASSUME NEW s \in Seq(Event), s # <<>>
  PROVE  \A f : Holds(s, f) <=> Head(s) = f \/ Holds(Tail(s), f)
<1>1. ASSUME NEW f, Holds(s, f) PROVE Head(s) = f \/ Holds(Tail(s), f)
  <2>1. PICK i \in DOMAIN s : s[i] = f
    BY <1>1 DEF Holds
  <2>2. i = 1 \/ (i - 1 \in DOMAIN Tail(s) /\ Tail(s)[i - 1] = s[i])
    BY TailIs
  <2> QED  BY <2>1, <2>2, TailIs DEF Holds
<1>2. ASSUME NEW f, Holds(Tail(s), f) PROVE Holds(s, f)
  BY <1>2, TailIs DEF Holds
<1>3. ASSUME NEW f, Head(s) = f PROVE Holds(s, f)
  BY <1>3, TailIs DEF Holds
<1> QED  BY <1>1, <1>2, <1>3

LEMMA OneAnswerAppend ==
  ASSUME NEW s \in Seq(Event), NEW e \in Event, OneAnswer(s), IsAnswer(e) => ~HasAnswer(s)
  PROVE  OneAnswer(Append(s, e))
  BY AppendIs DEF OneAnswer, HasAnswer, IsAnswer, Has

LEMMA OneAnswerTail ==
  ASSUME NEW s \in Seq(Event), s # <<>>, OneAnswer(s)
  PROVE  OneAnswer(Tail(s)) /\ (IsAnswer(Head(s)) => ~HasAnswer(Tail(s)))
<1>1. OneAnswer(Tail(s))
  BY TailIs DEF OneAnswer
<1>2. ASSUME IsAnswer(Head(s)), HasAnswer(Tail(s)) PROVE FALSE
  <2>1. PICK i \in DOMAIN Tail(s) : IsAnswer(Tail(s)[i])
    BY <1>2 DEF HasAnswer, Has, IsAnswer
  <2>2. IsAnswer(s[1]) /\ IsAnswer(s[i + 1]) /\ i + 1 \in DOMAIN s /\ 1 \in DOMAIN s
    BY <1>2, <2>1, TailIs
  <2> QED  BY <2>1, <2>2, TailIs DEF OneAnswer
<1> QED  BY <1>1, <1>2

LEMMA LastSizeAppend ==
  ASSUME NEW s \in Seq(Event), NEW e \in Event, NEW r,
         IF e.ev = "size" THEN e.size = r ELSE LastSize(s, r)
  PROVE  LastSize(Append(s, e), r)
  BY AppendIs DEF LastSize

LEMMA LastSizeTail ==
  ASSUME NEW s \in Seq(Event), s # <<>>, NEW r, LastSize(s, r)
  PROVE  /\ LastSize(Tail(s), r)
         /\ Head(s).ev = "size" /\ ~Has(Tail(s), "size") => Head(s).size = r
<1>1. LastSize(Tail(s), r)
  <2>1. SUFFICES ASSUME NEW i \in DOMAIN Tail(s), Tail(s)[i].ev = "size",
                        \A j \in DOMAIN Tail(s) : j > i => Tail(s)[j].ev # "size"
                 PROVE  Tail(s)[i].size = r
    BY DEF LastSize
  <2>2. i + 1 \in DOMAIN s /\ s[i + 1] = Tail(s)[i]
    BY TailIs
  <2>3. \A j \in DOMAIN s : j > i + 1 => s[j].ev # "size"
    <3>1. SUFFICES ASSUME NEW j \in DOMAIN s, j > i + 1
                   PROVE  s[j].ev # "size"
      OBVIOUS
    <3>2. j - 1 \in DOMAIN Tail(s) /\ Tail(s)[j - 1] = s[j] /\ j - 1 > i
      BY <3>1, TailIs
    <3> QED  BY <2>1, <3>2
  <2> QED  BY <2>1, <2>2, <2>3 DEF LastSize
<1>2. ASSUME Head(s).ev = "size", ~Has(Tail(s), "size") PROVE Head(s).size = r
  <2>1. \A j \in DOMAIN s : j > 1 => s[j].ev # "size"
    <3>1. SUFFICES ASSUME NEW j \in DOMAIN s, j > 1
                   PROVE  s[j].ev # "size"
      OBVIOUS
    <3>2. j - 1 \in DOMAIN Tail(s) /\ Tail(s)[j - 1] = s[j]
      BY <3>1, TailIs
    <3> QED  BY <1>2, <3>2 DEF Has
  <2> QED  BY <1>2, <2>1, TailIs DEF LastSize
<1> QED  BY <1>1, <1>2

LEMMA GuardedAppend ==
  ASSUME NEW s \in Seq(Event), NEW e \in Event, NEW lease, NEW r, Guarded(s, lease, r),
         e.ev = "size" => \/ e.size = r
                          \/ \E f \in Event : Holds(s, f) /\ f.ev = "control" /\ f.epoch # lease
  PROVE  Guarded(Append(s, e), lease, r)
<1> DEFINE t == Append(s, e)
<1>1. SUFFICES ASSUME NEW i \in DOMAIN t, t[i].ev = "size", t[i].size # r
               PROVE  \E j \in DOMAIN t : j < i /\ t[j].ev = "control" /\ t[j].epoch # lease
  BY DEF Guarded
<1>2. CASE i \in DOMAIN s
  BY <1>1, <1>2, AppendIs DEF Guarded
<1>3. CASE i = Len(s) + 1
  <2>1. PICK f \in Event : Holds(s, f) /\ f.ev = "control" /\ f.epoch # lease
    BY <1>1, <1>3, AppendIs
  <2>2. PICK j \in DOMAIN s : s[j] = f
    BY <2>1 DEF Holds
  <2> QED  BY <1>3, <2>1, <2>2, AppendIs
<1> QED  BY <1>2, <1>3, AppendIs

LEMMA GuardedTail ==
  ASSUME NEW s \in Seq(Event), s # <<>>, NEW lease, NEW r, Guarded(s, lease, r)
  PROVE  /\ ~(Head(s).ev = "control" /\ Head(s).epoch # lease) => Guarded(Tail(s), lease, r)
         /\ Head(s).ev = "size" => Head(s).size = r
<1>1. ASSUME ~(Head(s).ev = "control" /\ Head(s).epoch # lease)
      PROVE  Guarded(Tail(s), lease, r)
  <2>1. SUFFICES ASSUME NEW i \in DOMAIN Tail(s), Tail(s)[i].ev = "size", Tail(s)[i].size # r
                 PROVE  \E j \in DOMAIN Tail(s) :
                          j < i /\ Tail(s)[j].ev = "control" /\ Tail(s)[j].epoch # lease
    BY DEF Guarded
  <2>2. PICK j \in DOMAIN s : j < i + 1 /\ s[j].ev = "control" /\ s[j].epoch # lease
    BY <2>1, TailIs DEF Guarded
  <2>3. j # 1
    BY <1>1, <2>2, TailIs
  <2>4. j - 1 \in DOMAIN Tail(s) /\ Tail(s)[j - 1] = s[j] /\ j - 1 < i
    BY <2>2, <2>3, TailIs
  <2> QED  BY <2>2, <2>4
<1>2. ASSUME Head(s).ev = "size" PROVE Head(s).size = r
  BY <1>2, TailIs DEF Guarded
<1> QED  BY <1>1, <1>2

LEMMA ReignAppend ==
  ASSUME NEW s \in Seq(Event), NEW e \in Event, NEW isKnown \in BOOLEAN, NEW epoch,
         Reign(s, isKnown, epoch),
         \/ /\ e.ev \in {"control", "granted"} => e.epoch = epoch
            /\ isKnown \/ e.ev # "size"
         \/ ~isKnown /\ ~Holds(s, GrantOf(epoch))
  PROVE  Reign(Append(s, e), isKnown, epoch)
<1> DEFINE t == Append(s, e)
<1>1. SUFFICES ASSUME NEW i \in DOMAIN t,
                      isKnown \/ (\E k \in DOMAIN t : k < i /\ t[k] = GrantOf(epoch))
               PROVE  /\ t[i].ev \in {"control", "granted"} => t[i].epoch = epoch
                      /\ isKnown \/ t[i].ev # "size"
  BY DEF Reign, GrantOf
<1>2. CASE i \in DOMAIN s
  BY <1>1, <1>2, AppendIs DEF Reign, GrantOf
<1>3. CASE i = Len(s) + 1
  <2>1. isKnown \/ Holds(s, GrantOf(epoch))
    BY <1>1, <1>3, AppendIs DEF Holds
  <2> QED  BY <1>3, <2>1, AppendIs
<1> QED  BY <1>2, <1>3, AppendIs

LEMMA ReignTail ==
  ASSUME NEW s \in Seq(Event), s # <<>>, NEW isKnown \in BOOLEAN, NEW epoch,
         Reign(s, isKnown, epoch)
  PROVE  /\ Reign(Tail(s), isKnown \/ Head(s) = GrantOf(epoch), epoch)
         /\ ~isKnown /\ Head(s) = GrantOf(epoch) => ~Has(Tail(s), "size")
         /\ isKnown /\ Head(s).ev \in {"control", "granted"} => Head(s).epoch = epoch
<1> DEFINE t == Tail(s)
<1>1. ASSUME NEW i \in DOMAIN t,
             \/ isKnown \/ Head(s) = GrantOf(epoch)
             \/ \E k \in DOMAIN t : k < i /\ t[k] = GrantOf(epoch)
      PROVE  /\ t[i].ev \in {"control", "granted"} => t[i].epoch = epoch
             /\ isKnown \/ Head(s) = GrantOf(epoch) \/ t[i].ev # "size"
  <2>1. isKnown \/ \E k \in DOMAIN s : k < i + 1 /\ s[k] = GrantOf(epoch)
    BY <1>1, TailIs
  <2> QED  BY <2>1, TailIs DEF Reign, GrantOf
<1>2. isKnown /\ Head(s).ev \in {"control", "granted"} => Head(s).epoch = epoch
  BY TailIs DEF Reign
<1>3. ASSUME ~isKnown, Head(s) = GrantOf(epoch) PROVE ~Has(Tail(s), "size")
  <2>1. SUFFICES ASSUME NEW i \in DOMAIN t
                 PROVE  t[i].ev # "size"
    BY DEF Has
  <2>2. 1 \in DOMAIN s /\ s[1] = GrantOf(epoch) /\ i + 1 \in DOMAIN s /\ t[i] = s[i + 1]
        /\ 1 < i + 1
    BY <1>3, TailIs
  <2> QED  BY <1>3, <2>2 DEF Reign
<1> QED  BY <1>1, <1>2, <1>3 DEF Reign, GrantOf

LEMMA GrantsAppend ==
  ASSUME NEW s \in Seq(Event), NEW e \in Event, NEW epoch \in Nat, NEW isHolder \in BOOLEAN,
         GrantsUpTo(s, epoch, isHolder),
         e.ev = "granted" => e.epoch <= epoch /\ (e.epoch = epoch => isHolder)
  PROVE  GrantsUpTo(Append(s, e), epoch, isHolder)
  BY AppendIs DEF GrantsUpTo

LEMMA GrantsTail ==
  ASSUME NEW s \in Seq(Event), s # <<>>, NEW epoch \in Nat, NEW isHolder \in BOOLEAN,
         GrantsUpTo(s, epoch, isHolder)
  PROVE  /\ GrantsUpTo(Tail(s), epoch, isHolder)
         /\ Head(s).ev = "granted" =>
              Head(s).epoch <= epoch /\ (Head(s).epoch = epoch => isHolder)
  BY TailIs DEF GrantsUpTo

LEMMA GrantsOlder ==
  ASSUME NEW s \in Seq(Event), NEW epoch \in Nat, NEW isHolder, NEW wasHolder \in BOOLEAN,
         GrantsUpTo(s, epoch, wasHolder)
  PROVE  GrantsUpTo(s, epoch + 1, isHolder) /\ ~Holds(s, GrantOf(epoch + 1))
<1>1. \A i \in DOMAIN s : s[i].ev = "granted" => s[i].epoch \in Nat /\ s[i].epoch <= epoch
  BY DEF GrantsUpTo, Event, Epoch
<1> QED  BY <1>1 DEF GrantsUpTo, Holds, GrantOf

LEMMA SizesAppend ==
  ASSUME NEW s \in Seq(Event), NEW e \in Event, NEW r, SizesAre(s, r),
         e.ev = "size" => e.size = r /\ ~Has(s, "ack")
  PROVE  SizesAre(Append(s, e), r)
<1> DEFINE t == Append(s, e)
<1>1. SUFFICES ASSUME NEW i \in DOMAIN t, t[i].ev = "size"
               PROVE  t[i].size = r /\ \A j \in DOMAIN t : t[j].ev = "ack" => i < j
  BY DEF SizesAre
<1>2. CASE i \in DOMAIN s
  BY <1>1, <1>2, AppendIs DEF SizesAre
<1>3. CASE i = Len(s) + 1
  BY <1>1, <1>3, AppendIs DEF Has
<1> QED  BY <1>2, <1>3, AppendIs

LEMMA SizesTail ==
  ASSUME NEW s \in Seq(Event), s # <<>>, NEW r, SizesAre(s, r)
  PROVE  /\ SizesAre(Tail(s), r)
         /\ Head(s).ev = "ack" => ~Has(Tail(s), "size")
         /\ Head(s).ev = "size" => Head(s).size = r
<1>1. SizesAre(Tail(s), r)
  <2>1. SUFFICES ASSUME NEW i \in DOMAIN Tail(s), Tail(s)[i].ev = "size"
                 PROVE  /\ Tail(s)[i].size = r
                        /\ \A j \in DOMAIN Tail(s) : Tail(s)[j].ev = "ack" => i < j
    BY DEF SizesAre
  <2> QED  BY <2>1, TailIs DEF SizesAre
<1>2. ASSUME Head(s).ev = "ack", Has(Tail(s), "size") PROVE FALSE
  <2>1. PICK i \in DOMAIN Tail(s) : Tail(s)[i].ev = "size"
    BY <1>2 DEF Has
  <2> QED  BY <1>2, <2>1, TailIs DEF SizesAre
<1>3. Head(s).ev = "size" => Head(s).size = r
  BY TailIs DEF SizesAre
<1> QED  BY <1>1, <1>2, <1>3

LEMMA ListsAppend ==
  ASSUME NEW s \in Seq(Event), NEW e \in Event, NEW r, ListsAre(s, r),
         e.ev = "sessions" => e.size = r
  PROVE  ListsAre(Append(s, e), r)
  BY AppendIs DEF ListsAre

LEMMA ListsTail ==
  ASSUME NEW s \in Seq(Event), s # <<>>, NEW r, ListsAre(s, r)
  PROVE  ListsAre(Tail(s), r) /\ (Head(s).ev = "sessions" => Head(s).size = r)
  BY TailIs DEF ListsAre

LEMMA SizesNone ==
  ASSUME NEW s \in Seq(Event), NEW r, ~Has(s, "size")
  PROVE  SizesAre(s, r)
  BY DEF SizesAre, Has

LEMMA RequestsAppend ==
  ASSUME NEW q \in Seq(Request), NEW r \in Request, NEW p,
         OneRequest(q), Matches(q, p),
         r.req # "acquire" => ~Asks(q) /\ p.pump # None /\ r = RequestOf(p)
  PROVE  /\ Asks(Append(q, r)) <=> Asks(q) \/ r.req # "acquire"
         /\ OneRequest(Append(q, r)) /\ Matches(Append(q, r), p)
<1>1. Asks(Append(q, r)) <=> Asks(q) \/ r.req # "acquire"
  BY AppendIs DEF Asks
<1>2. OneRequest(Append(q, r))
  BY AppendIs DEF OneRequest, Asks
<1>3. Matches(Append(q, r), p)
  <2> HIDE DEF RequestOf
  <2> QED  BY AppendIs DEF Matches
<1> QED  BY <1>1, <1>2, <1>3

LEMMA RequestsTail ==
  ASSUME NEW q \in Seq(Request), q # <<>>, NEW p, OneRequest(q), Matches(q, p)
  PROVE  /\ Asks(Tail(q)) => Asks(q)
         /\ Asks(q) => Head(q).req # "acquire" \/ Asks(Tail(q))
         /\ OneRequest(Tail(q)) /\ Matches(Tail(q), p)
         /\ Head(q).req # "acquire" =>
              Asks(q) /\ ~Asks(Tail(q)) /\ p.pump # None /\ Head(q) = RequestOf(p)
<1>1. Asks(Tail(q)) => Asks(q)
  BY TailIs DEF Asks
<1>2. ASSUME Asks(q) PROVE Head(q).req # "acquire" \/ Asks(Tail(q))
  <2>1. PICK i \in DOMAIN q : q[i].req # "acquire"
    BY <1>2 DEF Asks
  <2>2. i = 1 \/ (i - 1 \in DOMAIN Tail(q) /\ Tail(q)[i - 1] = q[i])
    BY TailIs
  <2> QED  BY <2>1, <2>2, TailIs DEF Asks
<1>3. OneRequest(Tail(q))
  BY TailIs DEF OneRequest
<1>4. Matches(Tail(q), p)
  BY TailIs DEF Matches
<1>5. ASSUME Head(q).req # "acquire"
      PROVE  Asks(q) /\ ~Asks(Tail(q)) /\ p.pump # None /\ Head(q) = RequestOf(p)
  <2>1. Asks(q) /\ p.pump # None /\ Head(q) = RequestOf(p)
    BY <1>5, TailIs DEF Asks, Matches
  <2>2. ASSUME Asks(Tail(q)) PROVE FALSE
    <3>1. PICK i \in DOMAIN Tail(q) : Tail(q)[i].req # "acquire"
      BY <2>2 DEF Asks
    <3>2. q[1].req # "acquire" /\ q[i + 1].req # "acquire" /\ i + 1 \in DOMAIN q
          /\ 1 \in DOMAIN q
      BY <1>5, <3>1, TailIs
    <3> QED  BY <3>1, <3>2, TailIs DEF OneRequest
  <2> QED  BY <2>1, <2>2
<1> QED  BY <1>1, <1>2, <1>3, <1>4, <1>5

LEMMA RequestsNone ==
  ASSUME NEW q, NEW p, ~Asks(q)
  PROVE  OneRequest(q) /\ Matches(q, p)
  BY DEF Asks, OneRequest, Matches

-----------------------------------------------------------------------------
(* The state of one client.                                                *)

LEMMA ClientTypes ==
  ASSUME TypeOK, NEW c \in Client
  PROVE  /\ pty[c] \in AgentPty /\ feed[c] \in Seq(Event) /\ reqs[c] \in Seq(Request)
         /\ serving[c] \in Serving \cup {None} /\ grid[c] \in Size /\ fit[c] \in Size
         /\ recorded \in Size /\ owner.client \in Client
         /\ owner.epoch \in Nat /\ owner.epoch \in Epoch
  BY DEF TypeOK, Epoch

\* What is handled is of the kind that its state says.
LEMMA ServingTypes ==
  ASSUME ResizeAssumption, TypeOK, NEW c \in Client
  PROVE  /\ At(c) \in {"nothing", "acquire"} \cup Granting \cup Resizing \cup Listing
         /\ serving[c] = None <=> At(c) = "nothing"
         /\ serving[c] # None => serving[c].at = At(c) /\ serving[c] \in Serving
         /\ At(c) \in Granting => serving[c].size \in Epoch
         /\ At(c) \in Resizing \cup {"listed"} => serving[c].size \in Size
  BY ClientTypes DEF ResizeAssumption, Serving, At, Granting, Resizing, Listing, Epoch

LEMMA PtyTypes ==
  ASSUME ResizeAssumption, NEW p \in AgentPty
  PROVE  /\ p.want \in Size /\ p.readOnly \in BOOLEAN /\ p.epoch \in Nat /\ p.lease \in Nat
         /\ p.pending \in Size \cup {None} /\ p.pump \in Pump \cup {None}
         /\ p.generation \in Nat /\ p.astray \in BOOLEAN /\ p.missed \in BOOLEAN
         /\ p.pump # None => p.pump.size \in Size /\ p.pump.epoch \in Nat
                             /\ p.pump.refresh \in Int
  BY DEF AgentPty, Pump

\* Nothing of the client's own changes, nor its feed.
Still(d) ==
  /\ pty'[d] = pty[d] /\ grid'[d] = grid[d] /\ reqs'[d] = reqs[d]
  /\ serving'[d] = serving[d] /\ fit'[d] = fit[d] /\ (d \in frames' <=> d \in frames)

LEMMA SameKept ==
  ASSUME NEW d \in Client, Still(d), feed'[d] = feed[d],
         owner' = owner, recorded' = recorded
  PROVE  /\ Always(d) => Always(d)'
         /\ InTime(d) /\ (Unannounced => Unannounced') => InTime(d)'
<1>1. At(d)' = At(d) /\ (Knows(d)' <=> Knows(d)) /\ (Doomed(d)' <=> Doomed(d))
      /\ (Accepted(d)' <=> Accepted(d)) /\ (Acked(d)' <=> Acked(d))
      /\ (Fresh(d)' <=> Fresh(d)) /\ (Resizes(d)' <=> Resizes(d))
      /\ (Refreshes(d)' <=> Refreshes(d))
  BY DEF Still, At, Knows, Doomed, Accepted, Acked, Fresh, Resizes, Refreshes
<1>2. OneTask(d) => OneTask(d)'
  BY <1>1 DEF Still, OneTask
<1>3. PtyWhole(d) => PtyWhole(d)'
  BY <1>1 DEF Still, PtyWhole
<1>4. Epochs(d) => Epochs(d)'
  BY <1>1 DEF Still, Epochs
<1>5. ListTrue(d) => ListTrue(d)'
  BY <1>1 DEF Still, ListTrue
<1>6. Holder(d) => Holder(d)'
  <2>1. Reign(feed[d], Knows(d), owner.epoch) => Reign(feed[d], Knows(d), owner.epoch)'
    BY <1>1 DEF Reign
  <2> QED  BY <1>1, <2>1 DEF Still, Holder
<1>7. Warned(d) /\ (Unannounced => Unannounced') => Warned(d)'
  BY <1>1 DEF Still, Warned
<1>8. Shielded(d) => Shielded(d)'
  BY <1>1 DEF Still, Shielded
<1>9. AsksForWant(d) => AsksForWant(d)'
  BY <1>1 DEF Still, AsksForWant
<1>10. Draws(d) => Draws(d)'
  BY <1>1 DEF Still, Draws
<1>11. Fits(d) => Fits(d)'
  BY <1>1 DEF Still, Fits
<1> QED  BY <1>2, <1>3, <1>4, <1>5, <1>6, <1>7, <1>8, <1>9, <1>10, <1>11
          DEF Always, InTime

LEMMA SizeHeard ==
  ASSUME ResizeAssumption, TypeOK, NEW d \in Client, Still(d), owner' = owner,
         recorded' \in Size,
         feed'[d] = Append(feed[d], [ev |-> "size", size |-> recorded']), Always(d)
  PROVE  /\ Always(d)'
         /\ InTime(d) /\ d # owner.client /\ ~Unannounced => InTime(d)'
<1> DEFINE e == [ev |-> "size", size |-> recorded']
<1>1. e \in Event /\ feed[d] \in Seq(Event) /\ pty[d] \in AgentPty /\ owner.epoch \in Nat
  BY ClientTypes DEF Event
<1>2. \A kind : Has(feed'[d], kind) <=> Has(feed[d], kind) \/ kind = "size"
  BY <1>1, HasAppend
<1>3. At(d)' = At(d) /\ (Knows(d)' <=> Knows(d)) /\ (Doomed(d)' <=> Doomed(d))
      /\ (Accepted(d)' <=> Accepted(d)) /\ (Acked(d)' <=> Acked(d)) /\ Fresh(d)'
      /\ (Resizes(d)' <=> Resizes(d)) /\ (Refreshes(d)' <=> Refreshes(d))
      /\ (HasAnswer(feed[d])' <=> HasAnswer(feed[d]))
  BY <1>2 DEF Still, At, Knows, Doomed, Accepted, Acked, Fresh, Resizes, Refreshes, HasAnswer
<1>4. OneTask(d)'
  <2>1. OneAnswer(feed'[d])
    BY <1>1, OneAnswerAppend DEF Always, OneTask, IsAnswer
  <2> QED  BY <1>2, <1>3, <2>1 DEF Still, Always, OneTask
<1>5. PtyWhole(d)'
  BY <1>3 DEF Still, Always, PtyWhole
<1>6. Epochs(d)'
  <2>1. GrantsUpTo(feed'[d], owner.epoch, d = owner.client)
    BY <1>1, GrantsAppend DEF Always, Epochs
  <2> QED  BY <1>2, <1>3, <2>1 DEF Still, Always, Epochs
<1>7. LastSize(feed'[d], recorded')
  BY <1>1, LastSizeAppend
<1>8. ListTrue(d)'
  BY <1>2 DEF ListTrue
<1>9. ASSUME InTime(d), d # owner.client, ~Unannounced PROVE InTime(d)'
  <2>1. Holder(d)' /\ Fits(d)'
    BY <1>9 DEF Holder, Fits
  <2>2. Warned(d)'
    <3>1. \A f : Holds(feed[d], f) => Holds(feed'[d], f)
      BY <1>1, HoldsAppend
    <3> QED  BY <1>3, <1>9, <3>1 DEF Still, Warned, InTime
  <2>3. Shielded(d)'
    <3>1. SUFFICES ASSUME Accepted(d), ~pty[d].readOnly, pty[d].pending = None
                   PROVE  Guarded(feed'[d], pty[d].lease, pty[d].pump.size)
      BY <1>3 DEF Still, Shielded
    <3>2. Holds(feed[d], ControlOf(owner.epoch)) /\ Guarded(feed[d], pty[d].lease, pty[d].pump.size)
      BY <1>9, <3>1 DEF InTime, Warned, Shielded
    <3>3. pty[d].lease # owner.epoch
      BY <1>9, <3>1 DEF Always, PtyWhole, Epochs, Knows
    <3>4. ControlOf(owner.epoch) \in Event /\ ControlOf(owner.epoch).ev = "control"
          /\ ControlOf(owner.epoch).epoch = owner.epoch
      BY ClientTypes DEF ControlOf, Event
    <3> QED  BY <1>1, <3>2, <3>3, <3>4, GuardedAppend
  <2>4. AsksForWant(d)'
    BY <1>3, <1>9 DEF Still, AsksForWant, InTime
  <2>5. Draws(d)'
    BY <1>3 DEF Draws
  <2> QED  BY <2>1, <2>2, <2>3, <2>4, <2>5 DEF InTime
<1> QED  BY <1>4, <1>5, <1>6, <1>7, <1>8, <1>9 DEF Always

LEMMA ControlHeard ==
  ASSUME ResizeAssumption, TypeOK, NEW d \in Client, Still(d), owner' = owner,
         recorded' = recorded, NEW x \in Epoch,
         feed'[d] = Append(feed[d], ControlOf(x)), Always(d)
  PROVE  /\ Always(d)'
         /\ InTime(d) /\ \/ x = owner.epoch /\ d # owner.client
                         \/ Unannounced /\ Unannounced'
            => InTime(d)'
<1>1. ControlOf(x) \in Event /\ feed[d] \in Seq(Event) /\ pty[d] \in AgentPty
      /\ owner.epoch \in Nat /\ ControlOf(x).ev = "control" /\ ControlOf(x).epoch = x
  BY ClientTypes DEF Event, ControlOf
<1>2. /\ \A kind : Has(feed'[d], kind) <=> Has(feed[d], kind) \/ kind = "control"
      /\ \A f : Holds(feed'[d], f) <=> Holds(feed[d], f) \/ f = ControlOf(x)
  BY <1>1, HasAppend, HoldsAppend
<1>3. At(d)' = At(d) /\ (Knows(d)' <=> Knows(d)) /\ (Doomed(d)' <=> Doomed(d))
      /\ (Accepted(d)' <=> Accepted(d)) /\ (Acked(d)' <=> Acked(d))
      /\ (Fresh(d)' <=> Fresh(d))
      /\ (Resizes(d)' <=> Resizes(d)) /\ (Refreshes(d)' <=> Refreshes(d))
      /\ (HasAnswer(feed[d])' <=> HasAnswer(feed[d]))
  BY <1>2 DEF Still, At, Knows, Doomed, Accepted, Acked, Fresh, Resizes, Refreshes, HasAnswer
<1>4. OneTask(d)'
  <2>1. OneAnswer(feed'[d])
    BY <1>1, OneAnswerAppend DEF Always, OneTask, IsAnswer
  <2> QED  BY <1>2, <1>3, <2>1 DEF Still, Always, OneTask
<1>5. PtyWhole(d)'
  BY <1>3 DEF Still, Always, PtyWhole
<1>6. Epochs(d)'
  <2>1. GrantsUpTo(feed'[d], owner.epoch, d = owner.client)
    BY <1>1, GrantsAppend DEF Always, Epochs
  <2> QED  BY <1>2, <1>3, <2>1 DEF Still, Always, Epochs
<1>7. LastSize(feed'[d], recorded')
  BY <1>1, LastSizeAppend DEF Always
<1>8. ListTrue(d)'
  <2>1. ListsAre(feed[d], recorded) => ListsAre(feed'[d], recorded)
    BY <1>1, ListsAppend
  <2> QED  BY <1>2, <1>3, <2>1 DEF Still, Always, ListTrue
<1>9. ASSUME InTime(d), \/ x = owner.epoch /\ d # owner.client
                        \/ Unannounced /\ Unannounced'
      PROVE InTime(d)'
  <2>1. Holder(d)'
    <3>1. SUFFICES ASSUME d = owner.client
                   PROVE  Holder(d)'
      BY DEF Holder
    <3>2. At(d) = "announce"
      BY <1>9, <3>1 DEF Unannounced, At
    <3>3. /\ ~Knows(d) /\ ~Holds(feed[d], GrantOf(owner.epoch))
          /\ Reign(feed[d], Knows(d), owner.epoch)
          /\ ~(pty[d].pump # None /\ pty[d].pump.epoch = owner.epoch)
      BY <1>9, <3>1, <3>2 DEF InTime, Holder
    <3>4. Reign(feed[d], FALSE, owner.epoch)
      BY <3>3 DEF Reign
    <3>5. Reign(feed'[d], FALSE, owner.epoch)
      BY <1>1, <3>3, <3>4, ReignAppend
    <3>6. Reign(feed[d], Knows(d), owner.epoch)'
      BY <1>3, <3>3, <3>5 DEF Reign
    <3>7. GrantOf(owner.epoch) # ControlOf(x)
      BY DEF GrantOf, ControlOf
    <3> QED  BY <1>2, <1>3, <3>2, <3>3, <3>6, <3>7 DEF Still, Holder, Granting, Resizing
  <2>2. Warned(d)'
    BY <1>2, <1>3, <1>9 DEF Still, Warned, InTime
  <2>3. Shielded(d)'
    <3>1. SUFFICES ASSUME Accepted(d), ~pty[d].readOnly, pty[d].pending = None
                   PROVE  Guarded(feed'[d], pty[d].lease, pty[d].pump.size)
      BY <1>3 DEF Still, Shielded
    <3>2. Guarded(feed[d], pty[d].lease, pty[d].pump.size)
      BY <1>9, <3>1 DEF InTime, Shielded
    <3> QED  BY <1>1, <3>2, GuardedAppend
  <2>4. AsksForWant(d)'
    BY <1>3, <1>9 DEF Still, AsksForWant, InTime
  <2>5. Draws(d)'
    BY <1>3, <1>9 DEF Still, Draws, InTime
  <2>6. Fits(d)'
    BY <1>3, <1>9 DEF Still, Fits, InTime
  <2> QED  BY <2>1, <2>2, <2>3, <2>4, <2>5, <2>6 DEF InTime
<1> QED  BY <1>4, <1>5, <1>6, <1>7, <1>8, <1>9 DEF Always

LEMMA AcquireHeard ==
  ASSUME ResizeAssumption, TypeOK, NEW d \in Client, NEW c \in Client \ {d}, Still(d),
         owner' = [client |-> c, epoch |-> owner.epoch + 1], Unannounced',
         recorded' = recorded, feed'[d] = feed[d], Always(d)
  PROVE  Always(d)' /\ (InTime(d) => InTime(d)')
<1>1. feed[d] \in Seq(Event) /\ pty[d] \in AgentPty /\ owner.epoch \in Nat
      /\ owner'.client = c /\ owner'.epoch = owner.epoch + 1
  BY ClientTypes
<1>2. pty[d].epoch \in Nat /\ (pty[d].pump # None => pty[d].pump.epoch \in Nat)
      /\ (At(d) \in Granting => serving[d].size \in Nat)
  BY <1>1, PtyTypes, ServingTypes DEF Epoch
<1>3. At(d)' = At(d) /\ ~Knows(d)' /\ (Doomed(d) => Doomed(d)')
      /\ (Accepted(d)' <=> Accepted(d)) /\ (Acked(d)' <=> Acked(d))
      /\ (Fresh(d)' <=> Fresh(d))
      /\ (Resizes(d)' <=> Resizes(d)) /\ (Refreshes(d)' <=> Refreshes(d))
  BY <1>1, <1>2 DEF Still, At, Knows, Doomed, Accepted, Acked, Fresh, Resizes, Refreshes,
                    Always, Epochs
<1>4. OneTask(d)'
  BY <1>3 DEF Still, Always, OneTask
<1>5. PtyWhole(d)'
  BY <1>3 DEF Still, Always, PtyWhole
<1>6. Epochs(d)'
  <2>1. GrantsUpTo(feed'[d], owner'.epoch, d = owner'.client)
    BY <1>1, GrantsOlder DEF Always, Epochs
  <2>2. Has(feed[d], "refused") => pty[d].pump # None
    BY DEF Always, OneTask, Resizes
  <2> QED  BY <1>1, <1>2, <1>3, <2>1, <2>2 DEF Still, Always, Epochs
<1>7. LastSize(feed'[d], recorded')
  BY DEF Always
<1>8. ListTrue(d)'
  BY <1>3 DEF Still, Always, ListTrue
<1>9. ASSUME InTime(d) PROVE InTime(d)'
  <2>1. Holder(d)' /\ Fits(d)' /\ Warned(d)'
    BY <1>1 DEF Holder, Fits, Warned
  <2>2. Shielded(d)'
    BY <1>3, <1>9 DEF Still, Shielded, InTime
  <2>3. AsksForWant(d)'
    BY <1>3, <1>9 DEF Still, AsksForWant, InTime
  <2>4. Draws(d)'
    BY <1>3, <1>9 DEF Still, Draws, InTime
  <2> QED  BY <2>1, <2>2, <2>3, <2>4 DEF InTime
<1> QED  BY <1>4, <1>5, <1>6, <1>7, <1>8, <1>9 DEF Always

-----------------------------------------------------------------------------
(* What the agent does for a client.                                       *)

LEMMA NothingAsked ==
  ASSUME NEW c \in Client, OneTask(c), pty[c].pump = None
  PROVE  /\ ~Asks(reqs[c]) /\ ~HasAnswer(feed[c]) /\ At(c) \notin Resizing \cup Listing
         /\ ~Accepted(c) /\ ~Acked(c) /\ ~Doomed(c)
<1>1. ~Asks(reqs[c])
  BY DEF OneTask, Matches, Asks
<1> QED  BY <1>1 DEF OneTask, Resizes, Refreshes, HasAnswer, Accepted, Acked, Doomed, Resizing

\* A resize that passed the check is the one request of the pump.
LEMMA AcceptedIs ==
  ASSUME NEW c \in Client, OneTask(c), Accepted(c)
  PROVE  /\ Resizes(c) /\ ~Doomed(c) /\ ~Asks(reqs[c])
         /\ ~Has(feed[c], "refused") /\ ~Has(feed[c], "sessions")
<1>1. Resizes(c) /\ ~Asks(reqs[c])
  BY DEF OneTask, Accepted, HasAnswer
<1>2. ASSUME NEW k \in {"refused", "sessions"}, Has(feed[c], k), Has(feed[c], "ack") PROVE FALSE
  <2>1. PICK i \in DOMAIN feed[c] : feed[c][i].ev = k
    BY <1>2 DEF Has
  <2>2. PICK j \in DOMAIN feed[c] : feed[c][j].ev = "ack"
    BY <1>2 DEF Has
  <2> QED  BY <2>1, <2>2 DEF OneTask, OneAnswer, IsAnswer
<1>3. ~Has(feed[c], "refused") /\ ~Has(feed[c], "sessions")
  BY <1>2 DEF OneTask, Accepted, HasAnswer
<1> QED  BY <1>1, <1>3 DEF Doomed

\* Nothing of the client's window changes.
WindowStays(c) ==
  /\ pty'[c] = pty[c] /\ grid'[c] = grid[c] /\ fit'[c] = fit[c]
  /\ (c \in frames' <=> c \in frames)

LEMMA IdleKept ==
  ASSUME ResizeAssumption, TypeOK, NEW c \in Client, WindowStays(c), owner' = owner,
         recorded' = recorded, Always(c),
         \/ feed'[c] = feed[c]
         \/ \E e \in Event : e.ev # "size" /\ feed'[c] = Append(feed[c], e),
         Accepted(c)' <=> Accepted(c), Acked(c)' <=> Acked(c), Doomed(c)' <=> Doomed(c)
  PROVE  /\ PtyWhole(c)' /\ LastSize(feed[c], recorded)'
         /\ InTime(c) /\ (c = owner.client \/ (Unannounced => Unannounced')) =>
              Warned(c)' /\ Shielded(c)' /\ AsksForWant(c)' /\ Draws(c)' /\ Fits(c)'
<1>1. feed[c] \in Seq(Event) /\ pty[c] \in AgentPty
  BY ClientTypes
<1>2. (Has(feed[c], "size")' <=> Has(feed[c], "size"))
      /\ \A f : Holds(feed[c], f) => Holds(feed'[c], f)
  <2>1. ASSUME NEW e \in Event, e.ev # "size", feed'[c] = Append(feed[c], e)
        PROVE  /\ Has(feed'[c], "size") <=> Has(feed[c], "size")
               /\ \A f : Holds(feed[c], f) => Holds(feed'[c], f)
    BY <1>1, <2>1, HasAppend, HoldsAppend
  <2> QED  BY <2>1
<1>3. (Knows(c)' <=> Knows(c)) /\ (Fresh(c)' <=> Fresh(c))
      /\ (Resizes(c)' <=> Resizes(c)) /\ (Refreshes(c)' <=> Refreshes(c))
  BY <1>2 DEF WindowStays, Knows, Fresh, Resizes, Refreshes
<1>4. PtyWhole(c)'
  BY <1>3 DEF WindowStays, Always, PtyWhole
<1>5. LastSize(feed'[c], recorded')
  BY <1>1, LastSizeAppend DEF Always
<1>6. ASSUME InTime(c), c = owner.client \/ (Unannounced => Unannounced')
      PROVE  Warned(c)' /\ Shielded(c)' /\ AsksForWant(c)' /\ Draws(c)' /\ Fits(c)'
  <2>1. Warned(c)'
    BY <1>2, <1>3, <1>6 DEF WindowStays, Warned, InTime
  <2>2. Shielded(c)'
    <3>1. \A lease, r : Guarded(feed[c], lease, r) => Guarded(feed'[c], lease, r)
      BY <1>1, GuardedAppend
    <3> QED  BY <1>3, <1>6, <3>1 DEF WindowStays, Shielded, InTime
  <2>3. AsksForWant(c)'
    BY <1>3, <1>6 DEF WindowStays, AsksForWant, InTime
  <2>4. Draws(c)'
    BY <1>3, <1>6 DEF WindowStays, Draws, InTime
  <2>5. Fits(c)'
    BY <1>3, <1>6 DEF WindowStays, Fits, InTime
  <2> QED  BY <2>1, <2>2, <2>3, <2>4, <2>5
<1> QED  BY <1>4, <1>5, <1>6

LEMMA TakeKeeps ==
  ASSUME ResizeAssumption, TypeOK, NEW c \in Client, Take(c), Always(c)
  PROVE  Always(c)' /\ (InTime(c) => InTime(c)')
<1> DEFINE q == reqs[c]
           r == Head(q)
           refused == [ev |-> "refused"]
<1>1. /\ q \in Seq(Request) /\ q # <<>> /\ feed[c] \in Seq(Event) /\ r \in Request
      /\ At(c) = "nothing" /\ reqs'[c] = Tail(q) /\ refused \in Event
      /\ pty[c] \in AgentPty /\ owner.epoch \in Nat
  BY ClientTypes, TailIs DEF Take, At, TypeOK, Event
<1>2. owner' = owner /\ recorded' = recorded /\ WindowStays(c)
      /\ (c = owner.client \/ (Unannounced => Unannounced'))
  BY ClientTypes DEF Take, clientVars, WindowStays, TypeOK, Unannounced, Answer
<1>3. /\ Asks(Tail(q)) => Asks(q)
      /\ Asks(q) => r.req # "acquire" \/ Asks(Tail(q))
      /\ OneRequest(Tail(q)) /\ Matches(Tail(q), pty[c])
      /\ r.req # "acquire" =>
              Asks(q) /\ ~Asks(Tail(q)) /\ pty[c].pump # None /\ r = RequestOf(pty[c])
  BY <1>1, RequestsTail DEF Always, OneTask
<1>4. (Knows(c)' <=> Knows(c)) /\ (Resizes(c)' <=> Resizes(c)) /\ (Refreshes(c)' <=> Refreshes(c))
  BY <1>2 DEF WindowStays, Knows, Resizes, Refreshes
<1>5. ASSUME r.req \in {"acquire", "list"} PROVE Always(c)' /\ (InTime(c) => InTime(c)')
  <2>1. feed'[c] = feed[c] /\ At(c)' = r.req
    BY <1>5, ClientTypes DEF Take, TypeOK, At, ResizeAssumption, Serving
  <2>2. r.req = "list" => Refreshes(c) /\ ~Resizes(c) /\ Asks(q) /\ ~Asks(Tail(q))
    BY <1>1, <1>3 DEF RequestOf, Refreshes, Resizes
  <2>3. (Accepted(c)' <=> Accepted(c)) /\ (Acked(c)' <=> Acked(c)) /\ (Doomed(c)' <=> Doomed(c))
    BY <1>1, <1>2, <1>3, <1>4, <1>5, <2>1, <2>2 DEF WindowStays, Accepted, Acked, Doomed, Resizing
  <2>4. OneTask(c)'
    BY <1>1, <1>2, <1>3, <1>4, <1>5, <2>1, <2>2, <2>3
       DEF WindowStays, Always, OneTask, Resizing, Listing
  <2>5. Epochs(c)'
    BY <1>2, <1>4, <1>5, <2>1 DEF WindowStays, Always, Epochs, Granting
  <2>6. ListTrue(c)'
    BY <1>2, <1>4, <1>5, <2>1 DEF WindowStays, Always, ListTrue
  <2>7. Holder(c) => Holder(c)'
    <3>1. Reign(feed[c], Knows(c), owner.epoch) => Reign(feed[c], Knows(c), owner.epoch)'
      BY <1>2, <1>4, <2>1 DEF Reign
    <3> QED  BY <1>1, <1>2, <1>4, <1>5, <2>1, <2>3, <3>1 DEF WindowStays, Holder, Granting, Resizing
  <2> QED  BY <1>2, <2>1, <2>3, <2>4, <2>5, <2>6, <2>7, IdleKept DEF Always, InTime
<1>6. ASSUME r.req = "resize" PROVE Always(c)' /\ (InTime(c) => InTime(c)')
  <2>1. /\ Resizes(c) /\ r.size = pty[c].pump.size /\ r.epoch = pty[c].pump.epoch
        /\ Asks(q) /\ ~Asks(Tail(q)) /\ ~HasAnswer(feed[c]) /\ ~Accepted(c) /\ ~Acked(c)
        /\ pty[c].pump # None /\ pty[c].pump.size \in Size
    BY <1>1, <1>3, <1>6, PtyTypes
       DEF RequestOf, Refreshes, Resizes, Always, OneTask, Accepted, Acked, HasAnswer
  <2>2. ASSUME owner # [client |-> c, epoch |-> r.epoch]
        PROVE  Always(c)' /\ (InTime(c) => InTime(c)')
    <3>1. feed'[c] = Append(feed[c], refused) /\ At(c)' = "nothing"
      BY <1>6, <2>2, ClientTypes DEF Take, Answer, TypeOK, At
    <3>2. /\ \A kind : Has(feed'[c], kind) <=> Has(feed[c], kind) \/ kind = "refused"
          /\ \A f : Holds(feed'[c], f) <=> Holds(feed[c], f) \/ f = refused
      BY <1>1, <3>1, HasAppend, HoldsAppend
    <3>3. pty[c].pump.epoch # owner.epoch
      BY <2>1, <2>2 DEF TypeOK, Always, Epochs
    <3>4. (Accepted(c)' <=> Accepted(c)) /\ (Acked(c)' <=> Acked(c)) /\ (Doomed(c)' <=> Doomed(c))
      BY <1>1, <2>1, <3>1, <3>2, <3>3 DEF Accepted, Acked, Doomed, Resizing
    <3>5. OneTask(c)'
      <4>1. OneAnswer(feed'[c])
        BY <1>1, <2>1, <3>1, OneAnswerAppend DEF Always, OneTask
      <4> QED  BY <1>1, <1>2, <1>3, <1>4, <2>1, <3>1, <3>2, <4>1
               DEF WindowStays, Always, OneTask, Resizing, Listing, HasAnswer
    <3>6. Epochs(c)'
      <4>1. GrantsUpTo(feed'[c], owner.epoch, c = owner.client)
        BY <1>1, <3>1, GrantsAppend DEF Always, Epochs
      <4> QED  BY <1>2, <1>4, <3>1, <3>3, <4>1 DEF WindowStays, Always, Epochs, Granting
    <3>7. ListTrue(c)'
      BY <1>2, <1>4, <2>1 DEF ListTrue, Resizes, Refreshes
    <3>8. Holder(c) => Holder(c)'
      <4>1. Reign(feed[c], Knows(c), owner.epoch) => Reign(feed'[c], Knows(c), owner.epoch)
        BY <1>1, <3>1, ReignAppend DEF Knows
      <4>2. Reign(feed'[c], Knows(c), owner.epoch) => Reign(feed[c], Knows(c), owner.epoch)'
        BY <1>2, <1>4 DEF Reign
      <4> QED  BY <1>1, <1>2, <1>4, <2>1, <3>1, <3>2, <3>4, <4>1, <4>2
               DEF WindowStays, Holder, Granting, Resizing, GrantOf
    <3> QED  BY <1>1, <1>2, <3>1, <3>4, <3>5, <3>6, <3>7, <3>8, IdleKept DEF Always, InTime
  <2>3. ASSUME owner = [client |-> c, epoch |-> r.epoch]
        PROVE  Always(c)' /\ (InTime(c) => InTime(c)')
    <3>1. feed'[c] = feed[c] /\ At(c)' = "compare" /\ serving'[c].size = pty[c].pump.size
      BY <1>6, <2>1, <2>3, ClientTypes DEF Take, TypeOK, At, ResizeAssumption, Serving
    <3>2. c = owner.client /\ pty[c].pump.epoch = owner.epoch
      BY <2>1, <2>3
    <3>3. Accepted(c)' /\ ~Acked(c)' /\ ~Doomed(c) /\ ~Doomed(c)'
      BY <1>1, <2>1, <3>1, <3>2 DEF Accepted, Acked, Doomed, Resizing, HasAnswer
    <3>4. OneTask(c)'
      BY <1>1, <1>2, <1>3, <1>4, <2>1, <3>1, <3>3
         DEF WindowStays, Always, OneTask, Resizing, Listing, HasAnswer
    <3>5. PtyWhole(c)' /\ LastSize(feed[c], recorded)'
      BY <1>2, <1>4, <3>1 DEF WindowStays, Always, PtyWhole
    <3>6. Epochs(c)'
      BY <1>2, <1>4, <3>1 DEF WindowStays, Always, Epochs, Granting
    <3>7. ListTrue(c)'
      BY <1>2, <1>4, <2>1 DEF ListTrue, Resizes, Refreshes
    <3>8. ASSUME InTime(c) PROVE InTime(c)'
      <4>1. Knows(c) /\ ~Has(feed[c], "size") /\ Reign(feed[c], Knows(c), owner.epoch)
        BY <2>1, <3>2, <3>8 DEF InTime, Holder
      <4>2. Holder(c)'
        <5>1. Reign(feed[c], Knows(c), owner.epoch)'
          BY <1>2, <1>4, <3>1, <4>1 DEF Reign
        <5> QED  BY <1>2, <1>4, <3>1, <3>2, <3>8, <4>1, <5>1 DEF WindowStays, InTime, Holder
      <4>3. Warned(c)'
        BY <1>2, <3>2 DEF Warned
      <4>4. Shielded(c)'
        BY <3>1, <4>1 DEF Shielded, Guarded, Has
      <4>5. AsksForWant(c)'
        BY <1>2, <1>4, <3>3, <3>8 DEF WindowStays, AsksForWant, InTime
      <4>6. Draws(c)'
        <5>1. Fresh(c)' <=> Fresh(c)
          BY <1>2, <3>1 DEF WindowStays, Fresh
        <5> QED  BY <1>2, <1>4, <2>1, <3>3, <3>8, <5>1 DEF WindowStays, Draws, InTime
      <4>7. Fits(c)'
        BY <1>2, <1>4, <3>8 DEF WindowStays, Fits, InTime
      <4> QED  BY <4>2, <4>3, <4>4, <4>5, <4>6, <4>7 DEF InTime
    <3> QED  BY <3>4, <3>5, <3>6, <3>7, <3>8 DEF Always
  <2> QED  BY <2>2, <2>3
<1> QED  BY <1>1, <1>5, <1>6 DEF Request

\* A resize on its way through the agent: what is recorded, announced and answered.
LEMMA CompareKeeps ==
  ASSUME ResizeAssumption, TypeOK, NEW c \in Client, Compare(c), Always(c)
  PROVE  Always(c)' /\ (InTime(c) => InTime(c)')
<1> DEFINE ack == [ev |-> "ack"]
<1>1. /\ feed[c] \in Seq(Event) /\ At(c) = "compare" /\ ack \in Event
      /\ pty[c] \in AgentPty /\ owner.epoch \in Nat
      /\ owner' = owner /\ recorded' = recorded /\ WindowStays(c) /\ reqs' = reqs
      /\ (c = owner.client \/ (Unannounced => Unannounced'))
  BY ClientTypes DEF Compare, At, Event, clientVars, WindowStays, TypeOK, Unannounced, Answer
<1>2. /\ Resizes(c) /\ ~Doomed(c) /\ ~Asks(reqs[c]) /\ ~HasAnswer(feed[c])
      /\ serving[c].size = pty[c].pump.size /\ Accepted(c) /\ ~Acked(c)
  BY <1>1, AcceptedIs DEF Always, OneTask, Accepted, Acked, Resizing, HasAnswer
<1>3. (Knows(c)' <=> Knows(c)) /\ (Resizes(c)' <=> Resizes(c)) /\ (Refreshes(c)' <=> Refreshes(c))
  BY <1>1 DEF WindowStays, Knows, Resizes, Refreshes
<1>4. ASSUME serving[c].size # recorded PROVE Always(c)' /\ (InTime(c) => InTime(c)')
  <2>1. feed'[c] = feed[c] /\ At(c)' = "set" /\ serving'[c].size = pty[c].pump.size
    <3>1. feed' = feed /\ serving' = [serving EXCEPT ![c].at = "set"] /\ serving[c] # None
      BY <1>4 DEF Compare
    <3> QED  BY <1>1, <1>2, <3>1, ClientTypes DEF TypeOK, At, ResizeAssumption, Serving
  <2>2. Accepted(c)' /\ ~Acked(c)' /\ ~Doomed(c)'
    BY <1>1, <1>2, <1>3, <2>1 DEF Accepted, Acked, Doomed, Resizing, HasAnswer
  <2>3. OneTask(c)'
    BY <1>1, <1>2, <1>3, <2>1 DEF WindowStays, Always, OneTask, Resizing, Listing, Accepted
  <2>4. Epochs(c)'
    BY <1>1, <1>3, <2>1 DEF WindowStays, Always, Epochs, Granting
  <2>5. ListTrue(c)'
    BY <1>2, <1>3 DEF ListTrue, Resizes, Refreshes
  <2>6. Holder(c) => Holder(c)'
    <3>1. Reign(feed[c], Knows(c), owner.epoch) => Reign(feed[c], Knows(c), owner.epoch)'
      BY <1>1, <1>3, <2>1 DEF Reign
    <3> QED  BY <1>1, <1>2, <1>3, <2>1, <2>2, <3>1 DEF WindowStays, Holder, Granting, Resizing
  <2> QED  BY <1>1, <1>2, <2>1, <2>2, <2>3, <2>4, <2>5, <2>6, IdleKept DEF Always, InTime
<1>5. ASSUME serving[c].size = recorded PROVE Always(c)' /\ (InTime(c) => InTime(c)')
  <2>1. feed'[c] = Append(feed[c], ack) /\ At(c)' = "nothing"
    BY <1>5, ClientTypes DEF Compare, Answer, TypeOK, At
  <2>2. /\ \A kind : Has(feed'[c], kind) <=> Has(feed[c], kind) \/ kind = "ack"
        /\ \A f : Holds(feed'[c], f) <=> Holds(feed[c], f) \/ f = ack
    BY <1>1, <2>1, HasAppend, HoldsAppend
  <2>3. Accepted(c)' /\ Acked(c)' /\ ~Doomed(c)'
    BY <1>1, <1>2, <1>3, <2>1, <2>2 DEF Accepted, Acked, Doomed, Resizing, HasAnswer
  <2>4. OneTask(c)'
    <3>1. OneAnswer(feed'[c])
      BY <1>1, <1>2, <2>1, OneAnswerAppend DEF Always, OneTask
    <3> QED  BY <1>1, <1>2, <1>3, <2>1, <2>2, <2>3, <3>1
             DEF WindowStays, Always, OneTask, Resizing, Listing, HasAnswer
  <2>5. PtyWhole(c)'
    BY <1>1, <1>3 DEF WindowStays, Always, PtyWhole
  <2>6. LastSize(feed'[c], recorded')
    BY <1>1, <2>1, LastSizeAppend DEF Always
  <2>7. Epochs(c)'
    <3>1. GrantsUpTo(feed'[c], owner.epoch, c = owner.client)
      BY <1>1, <2>1, GrantsAppend DEF Always, Epochs
    <3> QED  BY <1>1, <1>3, <2>1, <2>2, <3>1 DEF WindowStays, Always, Epochs, Granting
  <2>8. ListTrue(c)'
    BY <1>2, <1>3 DEF ListTrue, Resizes, Refreshes
  <2>9. ASSUME InTime(c) PROVE InTime(c)'
    <3>1. Holder(c)'
      <4>1. Reign(feed[c], Knows(c), owner.epoch) => Reign(feed'[c], Knows(c), owner.epoch)
        BY <1>1, <2>1, ReignAppend DEF Knows
      <4>2. Reign(feed'[c], Knows(c), owner.epoch) => Reign(feed[c], Knows(c), owner.epoch)'
        BY <1>1, <1>3 DEF Reign
      <4> QED  BY <1>1, <1>2, <1>3, <2>1, <2>2, <2>3, <2>9, <4>1, <4>2
               DEF WindowStays, InTime, Holder, Granting, Resizing
    <3>2. Warned(c)'
      BY <1>1, <1>2, <1>3, <2>2, <2>9 DEF WindowStays, Warned, InTime
    <3>3. Shielded(c)'
      <4>1. \A lease, s : Guarded(feed[c], lease, s) => Guarded(feed'[c], lease, s)
        BY <1>1, <2>1, GuardedAppend
      <4> QED  BY <1>1, <1>2, <2>9, <4>1 DEF WindowStays, Shielded, InTime
    <3>4. AsksForWant(c)'
      BY <1>1, <1>2, <1>3, <2>9 DEF WindowStays, AsksForWant, InTime
    <3>5. Draws(c)'
      <4>1. Fresh(c)' <=> Fresh(c)
        BY <1>1, <2>2 DEF WindowStays, Fresh
      <4>2. pty[c].want = pty[c].pump.size => Fresh(c)
        BY <1>2, <1>5 DEF Fresh
      <4> QED  BY <1>1, <1>2, <1>3, <2>3, <2>9, <4>1, <4>2
               DEF WindowStays, Draws, InTime, AsksForWant, Resizes, Refreshes
    <3>6. Fits(c)'
      BY <1>1, <1>3, <2>9 DEF WindowStays, Fits, InTime
    <3> QED  BY <3>1, <3>2, <3>3, <3>4, <3>5, <3>6 DEF InTime
  <2> QED  BY <2>4, <2>5, <2>6, <2>7, <2>8, <2>9 DEF Always
<1> QED  BY <1>4, <1>5

LEMMA SetGridKeeps ==
  ASSUME ResizeAssumption, TypeOK, NEW c \in Client, SetGrid(c), Always(c)
  PROVE  Always(c)' /\ (InTime(c) => InTime(c)')
<1>1. /\ feed[c] \in Seq(Event) /\ At(c) = "set" /\ feed' = feed
      /\ owner' = owner /\ recorded' = recorded /\ WindowStays(c) /\ reqs' = reqs
      /\ (c = owner.client \/ (Unannounced => Unannounced'))
  BY ClientTypes DEF SetGrid, At, clientVars, WindowStays, TypeOK, Unannounced
<1>2. /\ Resizes(c) /\ ~Doomed(c) /\ ~Asks(reqs[c]) /\ ~HasAnswer(feed[c])
      /\ serving[c].size = pty[c].pump.size /\ Accepted(c) /\ ~Acked(c)
  BY <1>1, AcceptedIs DEF Always, OneTask, Accepted, Acked, Resizing, HasAnswer
<1>3. (Knows(c)' <=> Knows(c)) /\ (Resizes(c)' <=> Resizes(c)) /\ (Refreshes(c)' <=> Refreshes(c))
  BY <1>1 DEF WindowStays, Knows, Resizes, Refreshes
<1>4. At(c)' = "record" /\ serving'[c].size = pty[c].pump.size
  BY <1>2, ClientTypes DEF SetGrid, TypeOK, At, ResizeAssumption, Serving
<1>5. Accepted(c)' /\ ~Acked(c)' /\ ~Doomed(c)'
  BY <1>1, <1>2, <1>3, <1>4 DEF Accepted, Acked, Doomed, Resizing, HasAnswer
<1>6. OneTask(c)'
  BY <1>1, <1>2, <1>3, <1>4 DEF WindowStays, Always, OneTask, Resizing, Listing, Accepted
<1>7. Epochs(c)'
  BY <1>1, <1>3, <1>4 DEF WindowStays, Always, Epochs, Granting
<1>8. ListTrue(c)'
  BY <1>2, <1>3 DEF ListTrue, Resizes, Refreshes
<1>9. Holder(c) => Holder(c)'
  <2>1. Reign(feed[c], Knows(c), owner.epoch) => Reign(feed[c], Knows(c), owner.epoch)'
    BY <1>1, <1>3 DEF Reign
  <2> QED  BY <1>1, <1>2, <1>3, <1>4, <1>5, <2>1 DEF WindowStays, Holder, Granting, Resizing
<1> QED  BY <1>1, <1>2, <1>5, <1>6, <1>7, <1>8, <1>9, IdleKept DEF Always, InTime

LEMMA RecordKeeps ==
  ASSUME ResizeAssumption, TypeOK, NEW c \in Client, Record(c), Always(c)
  PROVE  Always(c)' /\ (InTime(c) /\ ~late' => InTime(c)')
<1> DEFINE e == [ev |-> "size", size |-> recorded']
<1>1. /\ feed[c] \in Seq(Event) /\ At(c) = "record" /\ pty[c] \in AgentPty
      /\ owner' = owner /\ WindowStays(c) /\ reqs' = reqs /\ owner.epoch \in Nat
      /\ recorded' = serving[c].size /\ feed'[c] = Append(feed[c], e)
      /\ (~late' => c = owner.client)
  BY ClientTypes DEF Record, Announce, At, clientVars, WindowStays, TypeOK
<1>2. /\ Resizes(c) /\ ~Doomed(c) /\ ~Asks(reqs[c]) /\ ~HasAnswer(feed[c])
      /\ recorded' = pty[c].pump.size /\ Accepted(c) /\ ~Acked(c)
  BY <1>1, AcceptedIs DEF Always, OneTask, Accepted, Acked, Resizing, HasAnswer
<1>3. (Knows(c)' <=> Knows(c)) /\ (Resizes(c)' <=> Resizes(c)) /\ (Refreshes(c)' <=> Refreshes(c))
  BY <1>1 DEF WindowStays, Knows, Resizes, Refreshes
<1>4. At(c)' = "recorded" /\ serving'[c].size = pty[c].pump.size
  BY <1>1, <1>2, ClientTypes DEF Record, TypeOK, At, ResizeAssumption, Serving
<1>5. e \in Event
  BY <1>1, ServingTypes DEF Event, Resizing
<1>6. /\ \A kind : Has(feed'[c], kind) <=> Has(feed[c], kind) \/ kind = "size"
      /\ \A f : Holds(feed'[c], f) <=> Holds(feed[c], f) \/ f = e
  BY <1>1, <1>5, HasAppend, HoldsAppend
<1>7. Accepted(c)' /\ Acked(c)' /\ ~Doomed(c)' /\ Fresh(c)'
  BY <1>1, <1>2, <1>3, <1>4, <1>6 DEF Accepted, Acked, Doomed, Resizing, HasAnswer, Fresh
<1>8. OneTask(c)'
  <2>1. OneAnswer(feed'[c])
    BY <1>1, <1>5, OneAnswerAppend DEF Always, OneTask, IsAnswer
  <2> QED  BY <1>1, <1>2, <1>3, <1>4, <1>6, <2>1
           DEF WindowStays, Always, OneTask, Resizing, Listing, Accepted, HasAnswer
<1>9. PtyWhole(c)'
  BY <1>1, <1>3 DEF WindowStays, Always, PtyWhole
<1>10. LastSize(feed'[c], recorded')
  BY <1>1, <1>5, LastSizeAppend
<1>11. Epochs(c)'
  <2>1. GrantsUpTo(feed'[c], owner.epoch, c = owner.client)
    BY <1>1, <1>5, GrantsAppend DEF Always, Epochs
  <2> QED  BY <1>1, <1>3, <1>4, <1>6, <2>1 DEF WindowStays, Always, Epochs, Granting
<1>12. ListTrue(c)'
  BY <1>6 DEF ListTrue
<1>13. ASSUME InTime(c), ~late' PROVE InTime(c)'
  <2>1. Knows(c) /\ ~Has(feed[c], "size") /\ Reign(feed[c], Knows(c), owner.epoch)
    BY <1>1, <1>2, <1>13 DEF InTime, Holder, Resizing
  <2>2. Holder(c)'
    <3>1. Reign(feed[c], Knows(c), owner.epoch)'
      <4>1. Reign(feed'[c], Knows(c), owner.epoch)
        BY <1>1, <1>5, <2>1, ReignAppend
      <4> QED  BY <1>1, <1>3, <4>1 DEF Reign
    <3>2. SizesAre(feed'[c], recorded')
      <4>1. SizesAre(feed[c], recorded')
        BY <1>1, <2>1, SizesNone
      <4> QED  BY <1>1, <1>2, <1>5, <4>1, SizesAppend DEF HasAnswer
    <3> QED  BY <1>1, <1>2, <1>3, <1>4, <1>7, <2>1, <3>1, <3>2, <1>13 DEF WindowStays, InTime, Holder
  <2>3. Warned(c)'
    BY <1>1, <1>13 DEF Warned
  <2>4. Shielded(c)'
    <3>1. Guarded(feed[c], pty[c].lease, pty[c].pump.size)
      BY <2>1 DEF Guarded, Has
    <3>2. Guarded(feed'[c], pty[c].lease, pty[c].pump.size)
      BY <1>1, <1>2, <1>5, <3>1, GuardedAppend
    <3> QED  BY <1>1, <3>2 DEF WindowStays, Shielded
  <2>5. AsksForWant(c)'
    BY <1>1, <1>2, <1>3, <1>13 DEF WindowStays, AsksForWant, InTime
  <2>6. Draws(c)'
    BY <1>7 DEF Draws
  <2>7. Fits(c)'
    BY <1>1, <1>3, <1>13 DEF WindowStays, Fits, InTime
  <2> QED  BY <2>2, <2>3, <2>4, <2>5, <2>6, <2>7 DEF InTime
<1> QED  BY <1>8, <1>9, <1>10, <1>11, <1>12, <1>13 DEF Always

LEMMA AcknowledgeKeeps ==
  ASSUME ResizeAssumption, TypeOK, NEW c \in Client, Acknowledge(c), Always(c)
  PROVE  Always(c)' /\ (InTime(c) => InTime(c)')
<1> DEFINE ack == [ev |-> "ack"]
<1>1. /\ feed[c] \in Seq(Event) /\ At(c) = "recorded" /\ ack \in Event
      /\ pty[c] \in AgentPty /\ owner.epoch \in Nat
      /\ owner' = owner /\ recorded' = recorded /\ WindowStays(c) /\ reqs' = reqs
      /\ (c = owner.client \/ (Unannounced => Unannounced'))
      /\ feed'[c] = Append(feed[c], ack) /\ At(c)' = "nothing"
  BY ClientTypes DEF Acknowledge, At, Event, clientVars, WindowStays, TypeOK, Unannounced, Answer
<1>2. /\ Resizes(c) /\ ~Doomed(c) /\ ~Asks(reqs[c]) /\ ~HasAnswer(feed[c])
      /\ Accepted(c) /\ Acked(c)
  BY <1>1, AcceptedIs DEF Always, OneTask, Accepted, Acked, Resizing, HasAnswer
<1>3. (Knows(c)' <=> Knows(c)) /\ (Resizes(c)' <=> Resizes(c)) /\ (Refreshes(c)' <=> Refreshes(c))
  BY <1>1 DEF WindowStays, Knows, Resizes, Refreshes
<1>4. /\ \A kind : Has(feed'[c], kind) <=> Has(feed[c], kind) \/ kind = "ack"
      /\ \A f : Holds(feed'[c], f) <=> Holds(feed[c], f) \/ f = ack
  BY <1>1, HasAppend, HoldsAppend
<1>5. Accepted(c)' /\ Acked(c)' /\ ~Doomed(c)'
  BY <1>1, <1>2, <1>3, <1>4 DEF Accepted, Acked, Doomed, HasAnswer
<1>6. OneTask(c)'
  <2>1. OneAnswer(feed'[c])
    BY <1>1, <1>2, OneAnswerAppend DEF Always, OneTask
  <2> QED  BY <1>1, <1>2, <1>3, <1>4, <1>5, <2>1
           DEF WindowStays, Always, OneTask, Resizing, Listing, HasAnswer
<1>7. Epochs(c)'
  <2>1. GrantsUpTo(feed'[c], owner.epoch, c = owner.client)
    BY <1>1, GrantsAppend DEF Always, Epochs
  <2> QED  BY <1>1, <1>3, <1>4, <2>1 DEF WindowStays, Always, Epochs, Granting
<1>8. ListTrue(c)'
  BY <1>2, <1>3 DEF ListTrue, Resizes, Refreshes
<1>9. Holder(c) => Holder(c)'
  <2>1. Reign(feed[c], Knows(c), owner.epoch) => Reign(feed'[c], Knows(c), owner.epoch)
    BY <1>1, ReignAppend DEF Knows
  <2>2. Reign(feed'[c], Knows(c), owner.epoch) => Reign(feed[c], Knows(c), owner.epoch)'
    BY <1>1, <1>3 DEF Reign
  <2>3. \A r : SizesAre(feed[c], r) => SizesAre(feed'[c], r)
    BY <1>1, SizesAppend
  <2> QED  BY <1>1, <1>2, <1>3, <1>4, <1>5, <2>1, <2>2, <2>3
           DEF WindowStays, Holder, Granting, Resizing
<1> QED  BY <1>1, <1>2, <1>5, <1>6, <1>7, <1>8, <1>9, IdleKept DEF Always, InTime

\* Control: handed over, announced and granted.
LEMMA AcquireKeeps ==
  ASSUME ResizeAssumption, TypeOK, NEW c \in Client, Acquire(c), Always(c)
  PROVE  Always(c)' /\ (InTime(c) => InTime(c)')
<1>1. /\ feed[c] \in Seq(Event) /\ At(c) = "acquire" /\ pty[c] \in AgentPty
      /\ owner.epoch \in Nat /\ owner.epoch \in Epoch
      /\ recorded' = recorded /\ WindowStays(c) /\ reqs' = reqs
  BY ClientTypes DEF Acquire, At, clientVars, WindowStays, TypeOK, Answer
<1>2. At(c) \notin Resizing \cup Listing \cup Granting
  BY <1>1 DEF Resizing, Listing, Granting
<1>3. ASSUME owner.client = c PROVE Always(c)' /\ (InTime(c) => InTime(c)')
  <2> DEFINE g == GrantOf(owner.epoch)
  <2>1. /\ owner' = owner /\ At(c)' = "nothing" /\ feed'[c] = Append(feed[c], g) /\ g \in Event
        /\ g.ev = "granted" /\ g.epoch = owner.epoch
    BY <1>1, <1>3, ClientTypes DEF Acquire, Answer, TypeOK, At, GrantOf, Event
  <2>2. /\ \A kind : Has(feed'[c], kind) <=> Has(feed[c], kind) \/ kind = "granted"
        /\ \A f : Holds(feed'[c], f) <=> Holds(feed[c], f) \/ f = g
    BY <1>1, <2>1, HasAppend, HoldsAppend
  <2>3. /\ Knows(c)' <=> Knows(c)
        /\ (Resizes(c)' <=> Resizes(c)) /\ (Refreshes(c)' <=> Refreshes(c))
    BY <1>1, <2>1 DEF WindowStays, Knows, Resizes, Refreshes
  <2>4. (Accepted(c)' <=> Accepted(c)) /\ (Acked(c)' <=> Acked(c)) /\ (Doomed(c)' <=> Doomed(c))
    BY <1>1, <2>1, <2>2, <2>3 DEF WindowStays, Accepted, Acked, Doomed, Resizing
  <2>5. OneTask(c)'
    <3>1. OneAnswer(feed'[c])
      BY <1>1, <2>1, OneAnswerAppend DEF Always, OneTask, IsAnswer
    <3> QED  BY <1>1, <1>2, <2>1, <2>2, <2>3, <2>4, <3>1
             DEF WindowStays, Always, OneTask, Resizing, Listing, HasAnswer
  <2>6. Epochs(c)'
    <3>1. GrantsUpTo(feed'[c], owner.epoch, c = owner.client)
      <4>1. GrantsUpTo(feed[c], owner.epoch, c = owner.client)
        BY DEF Always, Epochs
      <4>2. g.epoch <= owner.epoch /\ (g.epoch = owner.epoch => c = owner.client)
        BY <1>1, <1>3, <2>1
      <4> QED  BY <1>1, <2>1, <4>1, <4>2, GrantsAppend
    <3> QED  BY <1>1, <2>1, <2>2, <2>3, <3>1 DEF WindowStays, Always, Epochs, Granting
  <2>7. ListTrue(c)'
    <3>1. ListsAre(feed[c], recorded) => ListsAre(feed'[c], recorded)
      BY <1>1, <2>1, ListsAppend
    <3> QED  BY <1>1, <2>1, <2>2, <2>3, <3>1 DEF WindowStays, Always, ListTrue
  <2>8. Holder(c) => Holder(c)'
    <3>1. Reign(feed[c], Knows(c), owner.epoch) => Reign(feed'[c], Knows(c), owner.epoch)
      BY <1>1, <2>1, ReignAppend DEF Knows
    <3>2. Reign(feed'[c], Knows(c), owner.epoch) => Reign(feed[c], Knows(c), owner.epoch)'
      BY <2>1, <2>3 DEF Reign
    <3>3. \A r : SizesAre(feed[c], r) => SizesAre(feed'[c], r)
      BY <1>1, <2>1, SizesAppend
    <3> QED  BY <1>1, <1>2, <2>1, <2>2, <2>3, <2>4, <3>1, <3>2, <3>3
             DEF WindowStays, Holder, Granting, Resizing
  <2> QED  BY <1>1, <1>3, <2>1, <2>4, <2>5, <2>6, <2>7, <2>8, IdleKept DEF Always, InTime
<1>4. ASSUME owner.client # c PROVE Always(c)' /\ (InTime(c) => InTime(c)')
  <2>1. /\ owner' = [client |-> c, epoch |-> owner.epoch + 1] /\ feed' = feed
        /\ owner'.client = c /\ owner'.epoch = owner.epoch + 1
        /\ At(c)' = "announce" /\ serving'[c].size = owner.epoch + 1
    BY <1>1, <1>4, ClientTypes DEF Acquire, TypeOK, At, ResizeAssumption, Serving, Epoch
  <2>2. pty[c].epoch \in Nat /\ (pty[c].pump # None => pty[c].pump.epoch \in Nat)
    BY <1>1, PtyTypes
  <2>3. ~Knows(c)' /\ (Doomed(c) => Doomed(c)') /\ ~(pty[c].pump # None /\ pty[c].pump.epoch = owner'.epoch)
        /\ (Accepted(c)' <=> Accepted(c)) /\ (Acked(c)' <=> Acked(c)) /\ (Fresh(c)' <=> Fresh(c))
        /\ (Resizes(c)' <=> Resizes(c)) /\ (Refreshes(c)' <=> Refreshes(c))
    BY <1>1, <2>1, <2>2 DEF WindowStays, Knows, Doomed, Accepted, Acked, Fresh, Resizes, Refreshes,
                            Resizing, Always, Epochs
  <2>4. OneTask(c)'
    BY <1>1, <1>2, <2>1, <2>3 DEF WindowStays, Always, OneTask, Resizing, Listing
  <2>5. PtyWhole(c)'
    BY <1>1, <2>3 DEF WindowStays, Always, PtyWhole
  <2>6. GrantsUpTo(feed[c], owner.epoch + 1, TRUE) /\ ~Holds(feed[c], GrantOf(owner.epoch + 1))
    BY <1>1, GrantsOlder DEF Always, Epochs
  <2>7. Epochs(c)'
    <3>1. GrantsUpTo(feed[c], owner.epoch, c = owner.client)'
      BY <2>1, <2>6 DEF GrantsUpTo
    <3>2. Has(feed[c], "refused") => pty[c].pump # None
      BY DEF Always, OneTask, Resizes
    <3> QED  BY <1>1, <2>1, <2>2, <2>3, <3>1, <3>2 DEF WindowStays, Always, Epochs
  <2>8. LastSize(feed'[c], recorded')
    BY <1>1, <2>1 DEF Always
  <2>9. ListTrue(c)'
    BY <1>1, <2>1, <2>3 DEF WindowStays, Always, ListTrue
  <2>10. ASSUME InTime(c) PROVE InTime(c)'
    <3>1. Holder(c)'
      <4>1. Reign(feed[c], Knows(c), owner.epoch)'
        BY <2>1, <2>3, <2>6 DEF Reign, Holds
      <4> QED  BY <1>1, <2>1, <2>3, <2>6, <4>1 DEF WindowStays, Holder, Granting, Resizing
    <3>2. Warned(c)' /\ Fits(c)'
      BY <2>1, <2>3 DEF Warned, Fits
    <3>3. Shielded(c)'
      BY <1>1, <2>1, <2>3, <2>10 DEF WindowStays, Shielded, InTime
    <3>4. AsksForWant(c)'
      BY <1>1, <2>3, <2>10 DEF WindowStays, AsksForWant, InTime
    <3>5. Draws(c)'
      BY <1>1, <2>3, <2>10 DEF WindowStays, Draws, InTime
    <3> QED  BY <3>1, <3>2, <3>3, <3>4, <3>5 DEF InTime
  <2> QED  BY <2>4, <2>5, <2>7, <2>8, <2>9, <2>10 DEF Always
<1> QED  BY <1>3, <1>4

LEMMA AnnounceControlKeeps ==
  ASSUME ResizeAssumption, TypeOK, NEW c \in Client, AnnounceControl(c), Always(c)
  PROVE  Always(c)' /\ (InTime(c) /\ ~late' => InTime(c)')
<1> DEFINE x == serving[c].size
           g == ControlOf(x)
<1>1. /\ feed[c] \in Seq(Event) /\ At(c) = "announce" /\ pty[c] \in AgentPty
      /\ owner.epoch \in Nat /\ x \in Epoch /\ owner' = owner
      /\ recorded' = recorded /\ WindowStays(c) /\ reqs' = reqs
  BY ClientTypes, ServingTypes DEF AnnounceControl, At, clientVars, WindowStays, TypeOK, Granting
<1>2. At(c) \in Granting /\ At(c) \notin Resizing \cup Listing
  BY <1>1 DEF Resizing, Listing, Granting
<1>3. /\ At(c)' = "granted" /\ feed'[c] = Append(feed[c], g) /\ g \in Event
      /\ g.ev = "control" /\ g.epoch = x /\ serving'[c].size = x
  <2>1. serving[c] # None /\ serving[c] \in Serving
    BY ClientTypes DEF AnnounceControl
  <2> QED  BY <1>1, <2>1, ClientTypes
           DEF AnnounceControl, Announce, TypeOK, At, ControlOf, Event, ResizeAssumption, Serving
<1>4. c = owner.client \/ (~late' /\ Unannounced => Unannounced')
  BY <1>1 DEF AnnounceControl, Unannounced, TypeOK
<1>5. /\ \A kind : Has(feed'[c], kind) <=> Has(feed[c], kind) \/ kind = "control"
      /\ \A f : Holds(feed'[c], f) <=> Holds(feed[c], f) \/ f = g
  BY <1>1, <1>3, HasAppend, HoldsAppend
<1>6. /\ Knows(c)' <=> Knows(c)
      /\ (Resizes(c)' <=> Resizes(c)) /\ (Refreshes(c)' <=> Refreshes(c))
  BY <1>1 DEF WindowStays, Knows, Resizes, Refreshes
<1>7. (Accepted(c)' <=> Accepted(c)) /\ (Acked(c)' <=> Acked(c)) /\ (Doomed(c)' <=> Doomed(c))
  BY <1>1, <1>2, <1>3, <1>5, <1>6 DEF WindowStays, Accepted, Acked, Doomed, Resizing
<1>8. OneTask(c)'
  <2>1. OneAnswer(feed'[c])
    BY <1>1, <1>3, OneAnswerAppend DEF Always, OneTask, IsAnswer
  <2> QED  BY <1>1, <1>2, <1>3, <1>5, <1>6, <1>7, <2>1
           DEF WindowStays, Always, OneTask, Resizing, Listing, HasAnswer
<1>9. Epochs(c)'
  <2>1. GrantsUpTo(feed'[c], owner.epoch, c = owner.client)
    BY <1>1, <1>3, GrantsAppend DEF Always, Epochs
  <2> QED  BY <1>1, <1>2, <1>3, <1>5, <1>6, <2>1 DEF WindowStays, Always, Epochs
<1>10. ListTrue(c)'
  <2>1. ListsAre(feed[c], recorded) => ListsAre(feed'[c], recorded)
    BY <1>1, <1>3, ListsAppend
  <2> QED  BY <1>1, <1>3, <1>5, <1>6, <2>1 DEF WindowStays, Always, ListTrue
<1>11. Holder(c) => Holder(c)'
  <2>1. SUFFICES ASSUME c = owner.client, Holder(c) PROVE Holder(c)'
    BY <1>1 DEF Holder
  <2>2. /\ x = owner.epoch /\ ~Knows(c) /\ ~Holds(feed[c], GrantOf(owner.epoch))
        /\ Reign(feed[c], Knows(c), owner.epoch)
        /\ ~(pty[c].pump # None /\ pty[c].pump.epoch = owner.epoch)
    BY <1>1, <1>2, <2>1 DEF Always, Epochs, Holder
  <2>3. Reign(feed[c], Knows(c), owner.epoch)'
    <3>1. Reign(feed'[c], Knows(c), owner.epoch)
      BY <1>1, <1>3, <2>2, ReignAppend DEF Knows
    <3> QED  BY <1>1, <1>6, <3>1 DEF Reign
  <2> QED  BY <1>1, <1>3, <1>6, <2>2, <2>3 DEF WindowStays, Holder, Granting, Resizing
<1> QED  BY <1>1, <1>3, <1>4, <1>7, <1>8, <1>9, <1>10, <1>11, IdleKept DEF Always, InTime

LEMMA GrantKeeps ==
  ASSUME ResizeAssumption, TypeOK, NEW c \in Client, Grant(c), Always(c)
  PROVE  Always(c)' /\ (InTime(c) => InTime(c)')
<1> DEFINE x == serving[c].size
           g == GrantOf(x)
<1>1. /\ feed[c] \in Seq(Event) /\ At(c) = "granted" /\ pty[c] \in AgentPty
      /\ owner.epoch \in Nat /\ x \in Epoch /\ owner' = owner
      /\ recorded' = recorded /\ WindowStays(c) /\ reqs' = reqs
      /\ (c = owner.client \/ (Unannounced => Unannounced'))
  BY ClientTypes, ServingTypes
     DEF Grant, At, clientVars, WindowStays, TypeOK, Granting, Answer, Unannounced
<1>2. /\ At(c) \notin Resizing \cup Listing
      /\ x <= owner.epoch /\ (x = owner.epoch <=> c = owner.client)
  BY <1>1 DEF Resizing, Listing, Granting, Always, Epochs
<1>3. /\ At(c)' = "nothing" /\ feed'[c] = Append(feed[c], g) /\ g \in Event
      /\ g.ev = "granted" /\ g.epoch = x
  BY <1>1, ClientTypes DEF Grant, Answer, TypeOK, At, GrantOf, Event
<1>4. /\ \A kind : Has(feed'[c], kind) <=> Has(feed[c], kind) \/ kind = "granted"
      /\ \A f : Holds(feed'[c], f) <=> Holds(feed[c], f) \/ f = g
  BY <1>1, <1>3, HasAppend, HoldsAppend
<1>5. /\ Knows(c)' <=> Knows(c)
      /\ (Resizes(c)' <=> Resizes(c)) /\ (Refreshes(c)' <=> Refreshes(c))
  BY <1>1 DEF WindowStays, Knows, Resizes, Refreshes
<1>6. (Accepted(c)' <=> Accepted(c)) /\ (Acked(c)' <=> Acked(c)) /\ (Doomed(c)' <=> Doomed(c))
  BY <1>1, <1>2, <1>3, <1>4, <1>5 DEF WindowStays, Accepted, Acked, Doomed, Resizing
<1>7. OneTask(c)'
  <2>1. OneAnswer(feed'[c])
    BY <1>1, <1>3, OneAnswerAppend DEF Always, OneTask, IsAnswer
  <2> QED  BY <1>1, <1>2, <1>3, <1>4, <1>5, <1>6, <2>1
           DEF WindowStays, Always, OneTask, Resizing, Listing, HasAnswer
<1>8. Epochs(c)'
  <2>1. GrantsUpTo(feed[c], owner.epoch, c = owner.client)
    BY DEF Always, Epochs
  <2>2. GrantsUpTo(feed'[c], owner.epoch, c = owner.client)
    BY <1>1, <1>2, <1>3, <2>1, GrantsAppend
  <2> QED  BY <1>1, <1>3, <1>4, <1>5, <2>2 DEF WindowStays, Always, Epochs, Granting
<1>9. ListTrue(c)'
  <2>1. ListsAre(feed[c], recorded) => ListsAre(feed'[c], recorded)
    BY <1>1, <1>3, ListsAppend
  <2> QED  BY <1>1, <1>3, <1>4, <1>5, <2>1 DEF WindowStays, Always, ListTrue
<1>10. Holder(c) => Holder(c)'
  <2>1. SUFFICES ASSUME c = owner.client, Holder(c) PROVE Holder(c)'
    BY <1>1 DEF Holder
  <2>2. x = owner.epoch /\ Reign(feed[c], Knows(c), owner.epoch)
    BY <1>2, <2>1 DEF Holder
  <2>3. Reign(feed[c], Knows(c), owner.epoch)'
    <3>1. Reign(feed'[c], Knows(c), owner.epoch)
      BY <1>1, <1>3, <2>2, ReignAppend DEF Knows
    <3> QED  BY <1>1, <1>5, <3>1 DEF Reign
  <2>4. \A r : SizesAre(feed[c], r) => SizesAre(feed'[c], r)
    BY <1>1, <1>3, SizesAppend
  <2> QED  BY <1>1, <1>2, <1>3, <1>4, <1>5, <1>6, <2>1, <2>2, <2>3, <2>4
           DEF WindowStays, Holder, Granting, Resizing
<1> QED  BY <1>1, <1>3, <1>6, <1>7, <1>8, <1>9, <1>10, IdleKept DEF Always, InTime

\* The list of sessions is read, and sent.
LEMMA ListKeeps ==
  ASSUME ResizeAssumption, TypeOK, NEW c \in Client, List(c), Always(c)
  PROVE  Always(c)' /\ (InTime(c) => InTime(c)')
<1>1. /\ feed[c] \in Seq(Event) /\ At(c) = "list" /\ feed' = feed
      /\ owner' = owner /\ recorded' = recorded /\ WindowStays(c) /\ reqs' = reqs
      /\ (c = owner.client \/ (Unannounced => Unannounced'))
  BY ClientTypes DEF List, At, clientVars, WindowStays, TypeOK, Unannounced
<1>2. /\ Refreshes(c) /\ ~Asks(reqs[c]) /\ ~HasAnswer(feed[c])
      /\ At(c) \in Listing /\ At(c) \notin Resizing \cup Granting
  BY <1>1 DEF Always, OneTask, Resizing, Listing, Granting
<1>3. (Knows(c)' <=> Knows(c)) /\ (Resizes(c)' <=> Resizes(c)) /\ (Refreshes(c)' <=> Refreshes(c))
  BY <1>1 DEF WindowStays, Knows, Resizes, Refreshes
<1>4. At(c)' = "listed" /\ serving'[c].size = recorded
  BY ClientTypes DEF List, TypeOK, At, ResizeAssumption, Serving
<1>5. (Accepted(c)' <=> Accepted(c)) /\ (Acked(c)' <=> Acked(c)) /\ (Doomed(c)' <=> Doomed(c))
  BY <1>1, <1>2, <1>3, <1>4 DEF WindowStays, Accepted, Acked, Doomed, Resizing
<1>6. OneTask(c)'
  BY <1>1, <1>2, <1>3, <1>4, <1>5 DEF WindowStays, Always, OneTask, Resizing, Listing
<1>7. Epochs(c)'
  BY <1>1, <1>3, <1>4 DEF WindowStays, Always, Epochs, Granting
<1>8. ListTrue(c)'
  BY <1>1, <1>2, <1>3, <1>4 DEF WindowStays, Always, ListTrue, ListsAre, HasAnswer, Has
<1>9. Holder(c) => Holder(c)'
  <2>1. Reign(feed[c], Knows(c), owner.epoch) => Reign(feed[c], Knows(c), owner.epoch)'
    BY <1>1, <1>3 DEF Reign
  <2> QED  BY <1>1, <1>2, <1>3, <1>4, <1>5, <2>1 DEF WindowStays, Holder, Granting, Resizing
<1> QED  BY <1>1, <1>5, <1>6, <1>7, <1>8, <1>9, IdleKept DEF Always, InTime

LEMMA ListedKeeps ==
  ASSUME ResizeAssumption, TypeOK, NEW c \in Client, Listed(c), Always(c)
  PROVE  Always(c)' /\ (InTime(c) => InTime(c)')
<1> DEFINE e == [ev |-> "sessions", size |-> serving[c].size]
<1>1. /\ feed[c] \in Seq(Event) /\ At(c) = "listed" /\ pty[c] \in AgentPty
      /\ owner.epoch \in Nat /\ serving[c].size \in Size /\ owner' = owner
      /\ recorded' = recorded /\ WindowStays(c) /\ reqs' = reqs
      /\ (c = owner.client \/ (Unannounced => Unannounced'))
  BY ClientTypes, ServingTypes DEF Listed, At, clientVars, WindowStays, TypeOK, Answer, Unannounced
<1>2. /\ Refreshes(c) /\ ~Asks(reqs[c]) /\ ~HasAnswer(feed[c])
      /\ At(c) \notin Resizing \cup Granting
  BY <1>1 DEF Always, OneTask, Resizing, Listing, Granting
<1>3. /\ At(c)' = "nothing" /\ feed'[c] = Append(feed[c], e) /\ e \in Event
  BY <1>1, ClientTypes DEF Listed, Answer, TypeOK, At, Event
<1>4. /\ \A kind : Has(feed'[c], kind) <=> Has(feed[c], kind) \/ kind = "sessions"
      /\ \A f : Holds(feed'[c], f) <=> Holds(feed[c], f) \/ f = e
  BY <1>1, <1>3, HasAppend, HoldsAppend
<1>5. /\ Knows(c)' <=> Knows(c)
      /\ (Resizes(c)' <=> Resizes(c)) /\ (Refreshes(c)' <=> Refreshes(c))
  BY <1>1 DEF WindowStays, Knows, Resizes, Refreshes
<1>6. (Accepted(c)' <=> Accepted(c)) /\ (Acked(c)' <=> Acked(c)) /\ (Doomed(c)' <=> Doomed(c))
  BY <1>1, <1>2, <1>3, <1>4, <1>5 DEF WindowStays, Accepted, Acked, Doomed, Resizing
<1>7. OneTask(c)'
  <2>1. OneAnswer(feed'[c])
    BY <1>1, <1>2, <1>3, OneAnswerAppend DEF Always, OneTask
  <2> QED  BY <1>1, <1>2, <1>3, <1>4, <1>5, <1>6, <2>1
           DEF WindowStays, Always, OneTask, Resizing, Listing, HasAnswer, Resizes, Refreshes
<1>8. Epochs(c)'
  <2>1. GrantsUpTo(feed'[c], owner.epoch, c = owner.client)
    BY <1>1, <1>3, GrantsAppend DEF Always, Epochs
  <2> QED  BY <1>1, <1>3, <1>4, <1>5, <2>1 DEF WindowStays, Always, Epochs, Granting
<1>9. ListTrue(c)'
  <2>1. ASSUME ListsAre(feed[c], recorded), serving[c].size = recorded
        PROVE  ListsAre(feed'[c], recorded)
    BY <1>1, <1>3, <2>1, ListsAppend
  <2> QED  BY <1>1, <1>3, <1>4, <1>5, <2>1 DEF WindowStays, Always, ListTrue
<1>10. Holder(c) => Holder(c)'
  <2>1. Reign(feed[c], Knows(c), owner.epoch) => Reign(feed'[c], Knows(c), owner.epoch)
    BY <1>1, <1>3, ReignAppend DEF Knows
  <2>2. Reign(feed'[c], Knows(c), owner.epoch) => Reign(feed[c], Knows(c), owner.epoch)'
    BY <1>1, <1>5 DEF Reign
  <2>3. \A r : SizesAre(feed[c], r) => SizesAre(feed'[c], r)
    BY <1>1, <1>3, SizesAppend
  <2> QED  BY <1>1, <1>2, <1>3, <1>4, <1>5, <1>6, <2>1, <2>2, <2>3
           DEF WindowStays, Holder, Granting, Resizing, GrantOf
<1> QED  BY <1>1, <1>3, <1>6, <1>7, <1>8, <1>9, <1>10, IdleKept DEF Always, InTime

-----------------------------------------------------------------------------
(* What the user does.                                                     *)

LEMMA TakeControlKeeps ==
  ASSUME ResizeAssumption, TypeOK, NEW c \in Client, takeControl(c), Always(c)
  PROVE  Always(c)' /\ (InTime(c) => InTime(c)')
<1> DEFINE r == [req |-> "acquire"]
<1>1. /\ reqs[c] \in Seq(Request) /\ r \in Request /\ feed' = feed /\ owner' = owner
      /\ recorded' = recorded /\ WindowStays(c) /\ serving' = serving
      /\ reqs'[c] = Append(reqs[c], r)
      /\ (c = owner.client \/ (Unannounced => Unannounced'))
  BY ClientTypes DEF takeControl, agentVars, WindowStays, TypeOK, Unannounced, Request
<1>2. /\ Asks(reqs'[c]) <=> Asks(reqs[c])
      /\ OneRequest(reqs'[c]) /\ Matches(reqs'[c], pty[c])
  BY <1>1, RequestsAppend DEF Always, OneTask
<1>3. (Knows(c)' <=> Knows(c)) /\ (Resizes(c)' <=> Resizes(c)) /\ (Refreshes(c)' <=> Refreshes(c))
      /\ At(c)' = At(c)
  BY <1>1 DEF WindowStays, Knows, Resizes, Refreshes, At
<1>4. (Accepted(c)' <=> Accepted(c)) /\ (Acked(c)' <=> Acked(c)) /\ (Doomed(c)' <=> Doomed(c))
  BY <1>1, <1>2, <1>3 DEF WindowStays, Accepted, Acked, Doomed
<1>5. OneTask(c)'
  BY <1>1, <1>2, <1>3, <1>4 DEF WindowStays, Always, OneTask
<1>6. Epochs(c)'
  BY <1>1, <1>3 DEF WindowStays, Always, Epochs
<1>7. ListTrue(c)'
  BY <1>1, <1>3 DEF WindowStays, Always, ListTrue
<1>8. Holder(c) => Holder(c)'
  <2>1. Reign(feed[c], Knows(c), owner.epoch) => Reign(feed[c], Knows(c), owner.epoch)'
    BY <1>1, <1>3 DEF Reign
  <2> QED  BY <1>1, <1>3, <1>4, <2>1 DEF WindowStays, Holder
<1> QED  BY <1>1, <1>4, <1>5, <1>6, <1>7, <1>8, IdleKept DEF Always, InTime

LEMMA ResizeContainerKeeps ==
  ASSUME ResizeAssumption, TypeOK, NEW c \in Client, NEW size \in Size,
         ResizeContainer(c, size), Always(c)
  PROVE  Always(c)' /\ (InTime(c) => InTime(c)')
<1>1. /\ pty' = pty /\ grid' = grid /\ reqs' = reqs /\ feed' = feed /\ serving' = serving
      /\ owner' = owner /\ recorded' = recorded /\ c \in frames'
  BY DEF ResizeContainer, agentVars
<1>2. At(c)' = At(c) /\ (Knows(c)' <=> Knows(c)) /\ (Doomed(c)' <=> Doomed(c))
      /\ (Accepted(c)' <=> Accepted(c)) /\ (Acked(c)' <=> Acked(c))
      /\ (Fresh(c)' <=> Fresh(c)) /\ (Resizes(c)' <=> Resizes(c))
      /\ (Refreshes(c)' <=> Refreshes(c)) /\ (Unannounced' <=> Unannounced)
  BY <1>1 DEF At, Knows, Doomed, Accepted, Acked, Fresh, Resizes, Refreshes, Unannounced
<1>3. OneTask(c)' /\ PtyWhole(c)'
  BY <1>1, <1>2 DEF Always, OneTask, PtyWhole
<1>4. Epochs(c)' /\ LastSize(feed[c], recorded)' /\ ListTrue(c)'
  BY <1>1, <1>2 DEF Always, Epochs, ListTrue
<1>5. ASSUME InTime(c) PROVE InTime(c)'
  <2>1. Reign(feed[c], Knows(c), owner.epoch) => Reign(feed[c], Knows(c), owner.epoch)'
    BY <1>1, <1>2 DEF Reign
  <2>2. Holder(c)'
    BY <1>1, <1>2, <1>5, <2>1 DEF Holder, InTime
  <2>3. Warned(c)' /\ Shielded(c)' /\ AsksForWant(c)'
    BY <1>1, <1>2, <1>5 DEF Warned, Shielded, AsksForWant, InTime
  <2>4. Draws(c)' /\ Fits(c)'
    BY <1>1, <1>2, <1>5 DEF Draws, Fits, InTime
  <2> QED  BY <2>2, <2>3, <2>4 DEF InTime
<1> QED  BY <1>3, <1>4, <1>5 DEF Always

-----------------------------------------------------------------------------
(* What a client does with the events and answers it receives.             *)

LEMMA ReceivesIs ==
  ASSUME ResizeAssumption, TypeOK, NEW c \in Client, NEW kind, Receives(c, kind), Always(c)
  PROVE  /\ feed[c] \in Seq(Event) /\ feed[c] # <<>> /\ feed'[c] = Tail(feed[c])
         /\ Head(feed[c]) \in Event /\ Head(feed[c]).ev = kind
         /\ \A k : Has(feed[c], k) <=> k = kind \/ Has(feed'[c], k)
         /\ \A f : Holds(feed[c], f) <=> f = Head(feed[c]) \/ Holds(feed'[c], f)
         /\ owner' = owner /\ recorded' = recorded /\ serving' = serving /\ At(c)' = At(c)
         /\ (Unannounced' <=> Unannounced)
         /\ OneAnswer(feed'[c])
         /\ kind \in {"ack", "refused", "sessions"} => ~HasAnswer(feed'[c])
         /\ LastSize(feed'[c], recorded')
         /\ GrantsUpTo(feed'[c], owner.epoch, c = owner.client)
<1>1. /\ feed[c] \in Seq(Event) /\ feed[c] # <<>> /\ feed'[c] = Tail(feed[c])
      /\ Head(feed[c]) \in Event /\ Head(feed[c]).ev = kind
  BY ClientTypes, TailIs DEF Receives, TypeOK
<1>2. owner' = owner /\ recorded' = recorded /\ serving' = serving
  BY DEF Receives, agentVars
<1>3. At(c)' = At(c) /\ (Unannounced' <=> Unannounced)
  BY <1>2 DEF At, Unannounced
<1>4. /\ \A k : Has(feed[c], k) <=> k = kind \/ Has(feed'[c], k)
      /\ \A f : Holds(feed[c], f) <=> f = Head(feed[c]) \/ Holds(feed'[c], f)
  BY <1>1, HasTail, HoldsTail
<1>5. OneAnswer(feed'[c]) /\ (kind \in {"ack", "refused", "sessions"} => ~HasAnswer(feed'[c]))
  BY <1>1, OneAnswerTail DEF Always, OneTask, IsAnswer
<1>6. LastSize(feed'[c], recorded')
  BY <1>1, <1>2, LastSizeTail DEF Always
<1>7. GrantsUpTo(feed'[c], owner.epoch, c = owner.client)
  BY <1>1, GrantsTail, ClientTypes DEF Always, Epochs
<1> QED  BY <1>1, <1>2, <1>3, <1>4, <1>5, <1>6, <1>7

\* The pump goes on with the waiting size, or ends.
LEMMA PumpsIs ==
  ASSUME ResizeAssumption, TypeOK, NEW c \in Client, NEW p \in AgentPty, Pumps(c, p)
  PROVE  LET n == pty'[c] IN
         /\ n.want = p.want /\ n.readOnly = p.readOnly /\ n.epoch = p.epoch
         /\ n.lease = p.lease /\ n.generation = p.generation /\ n.astray = p.astray
         /\ n.missed = p.missed /\ n.pending = None /\ n \in AgentPty
         /\ p.pending # None /\ ~p.readOnly =>
              /\ n.pump # None /\ n.pump = [size |-> p.pending, epoch |-> p.epoch, refresh |-> -1]
              /\ reqs'[c] =
                   Append(reqs[c], [req |-> "resize", size |-> p.pending, epoch |-> p.epoch])
              /\ [req |-> "resize", size |-> p.pending, epoch |-> p.epoch] \in Request
         /\ ~(p.pending # None /\ ~p.readOnly) => n.pump = None /\ reqs'[c] = reqs[c]
<1>1. pty'[c] = PumpOn(p)
  BY DEF Pumps, TypeOK
<1>2. CASE p.pending # None /\ ~p.readOnly
  <2> DEFINE new == [size |-> p.pending, epoch |-> p.epoch, refresh |-> -1]
  <2>1. p.pending \in Size /\ p.epoch \in Nat
    BY <1>2 DEF AgentPty
  <2>2. new \in Pump /\ new # None
    BY <2>1 DEF Pump, ResizeAssumption
  <2>3. PumpOn(p) = [p EXCEPT !.pump = new, !.pending = None]
    BY <1>2 DEF PumpOn
  <2>4. PumpOn(p).pump = new
    BY <2>3 DEF AgentPty
  <2>5. reqs'[c] = Append(reqs[c], ResizeRequest(p))
    BY <2>2, <2>4 DEF Pumps, TypeOK
  <2>6. [req |-> "resize", size |-> p.pending, epoch |-> p.epoch] \in Request
    BY <2>1 DEF Request
  <2> HIDE DEF new
  <2>7. PumpOn(p) \in AgentPty
    BY <2>2, <2>3 DEF AgentPty
  <2> QED  BY <1>1, <1>2, <2>2, <2>3, <2>4, <2>5, <2>6, <2>7 DEF AgentPty, ResizeRequest, new
<1>3. CASE ~(p.pending # None /\ ~p.readOnly)
  <2>1. PumpOn(p) = [p EXCEPT !.pump = None, !.pending = None]
    BY <1>3 DEF PumpOn
  <2>2. PumpOn(p).pump = None
    BY <2>1 DEF AgentPty
  <2>3. reqs'[c] = reqs[c]
    BY <2>2 DEF Pumps, TypeOK
  <2>4. PumpOn(p) \in AgentPty
    BY <2>1 DEF AgentPty
  <2>5. /\ pty'[c].want = p.want /\ pty'[c].readOnly = p.readOnly /\ pty'[c].epoch = p.epoch
        /\ pty'[c].lease = p.lease /\ pty'[c].generation = p.generation
        /\ pty'[c].astray = p.astray /\ pty'[c].missed = p.missed /\ pty'[c].pending = None
    BY <1>1, <2>1 DEF AgentPty
  <2> QED  BY <1>1, <1>3, <2>2, <2>3, <2>4, <2>5
<1> QED  BY <1>2, <1>3

\* With nothing under way, what the pump takes is its one request.
LEMMA PumpsKeep ==
  ASSUME ResizeAssumption, TypeOK, NEW c \in Client, NEW p \in AgentPty, Pumps(c, p),
         At(c)' = At(c), ~Asks(reqs[c]), ~HasAnswer(feed'[c]),
         At(c) \notin Resizing \cup Listing
  PROVE  /\ OneTask(c)' /\ ~Accepted(c)' /\ ~Acked(c)' /\ ~Refreshes(c)'
         /\ Resizes(c)' <=> p.pending # None /\ ~p.readOnly
         /\ ~Resizes(c)' => pty'[c].pump = None /\ ~Doomed(c)'
<1> DEFINE r == [req |-> "resize", size |-> p.pending, epoch |-> p.epoch]
<1>1. OneAnswer(feed'[c]) /\ ~Accepted(c)' /\ ~Acked(c)' /\ ~Has(feed'[c], "refused")
      /\ ~Has(feed'[c], "sessions")
  BY DEF OneAnswer, IsAnswer, HasAnswer, Has, Accepted, Acked, Resizing
<1>2. CASE p.pending # None /\ ~p.readOnly
  <2>1. /\ pty'[c].pump # None /\ pty'[c].pump = [size |-> p.pending, epoch |-> p.epoch, refresh |-> -1]
        /\ reqs'[c] = Append(reqs[c], r) /\ r \in Request
    BY <1>2, PumpsIs
  <2>2. Resizes(c)' /\ ~Refreshes(c)' /\ RequestOf(pty'[c]) = r
    BY <2>1 DEF Resizes, Refreshes, RequestOf
  <2>3. OneRequest(reqs[c]) /\ Matches(reqs[c], pty'[c])
    BY RequestsNone
  <2>4. Asks(reqs'[c]) /\ OneRequest(reqs'[c]) /\ Matches(reqs'[c], pty'[c])
    BY <2>1, <2>2, <2>3, RequestsAppend, ClientTypes
  <2>5. OneTask(c)'
    BY <1>1, <2>2, <2>4 DEF OneTask, HasAnswer
  <2> QED  BY <1>1, <1>2, <2>2, <2>5
<1>3. CASE ~(p.pending # None /\ ~p.readOnly)
  <2>1. pty'[c].pump = None /\ reqs'[c] = reqs[c]
    BY <1>3, PumpsIs
  <2>2. ~Resizes(c)' /\ ~Refreshes(c)'
    BY <2>1 DEF Resizes, Refreshes
  <2>3. OneRequest(reqs'[c]) /\ Matches(reqs'[c], pty'[c]) /\ ~Asks(reqs'[c])
    BY <2>1, RequestsNone
  <2>4. OneTask(c)' /\ ~Doomed(c)'
    BY <1>1, <2>2, <2>3 DEF OneTask, HasAnswer, Doomed
  <2> QED  BY <1>1, <1>3, <2>1, <2>2, <2>4
<1> QED  BY <1>2, <1>3

LEMMA ControlChangedKeeps ==
  ASSUME ResizeAssumption, TypeOK, NEW c \in Client, ControlChanged(c), Always(c)
  PROVE  Always(c)' /\ (InTime(c) => InTime(c)')
<1> DEFINE e == Head(feed[c]).epoch
           p == pty[c]
           n == pty'[c]
<1>1. /\ feed[c] \in Seq(Event) /\ feed[c] # <<>> /\ feed'[c] = Tail(feed[c])
      /\ Head(feed[c]).ev = "control" /\ Head(feed[c]) \in Event
      /\ \A k : Has(feed[c], k) <=> k = "control" \/ Has(feed'[c], k)
      /\ \A f : Holds(feed[c], f) <=> f = Head(feed[c]) \/ Holds(feed'[c], f)
      /\ owner' = owner /\ recorded' = recorded /\ serving' = serving /\ At(c)' = At(c)
      /\ (Unannounced' <=> Unannounced)
      /\ OneAnswer(feed'[c]) /\ LastSize(feed'[c], recorded')
      /\ GrantsUpTo(feed'[c], owner.epoch, c = owner.client)
  BY ReceivesIs DEF ControlChanged
<1>2. reqs' = reqs /\ grid' = grid /\ fit' = fit /\ frames' = frames /\ p \in AgentPty
      /\ owner.epoch \in Nat
  BY ClientTypes DEF ControlChanged
<1>3. /\ n.want = p.want /\ n.epoch = p.epoch /\ n.pump = p.pump
      /\ n.generation = p.generation /\ n.missed = p.missed
      /\ p.lease = e => n = p
      /\ p.lease # e => n.lease = 0 /\ n.pending = None /\ n.readOnly = TRUE
                        /\ n.astray = (p.astray \/ p.pending # None)
  BY <1>2 DEF ControlChanged, LoseControl, TypeOK, AgentPty
<1> HIDE DEF n
<1>4. /\ Knows(c)' <=> Knows(c)
      /\ (Resizes(c)' <=> Resizes(c)) /\ (Refreshes(c)' <=> Refreshes(c))
      /\ (Has(feed[c], "size")' <=> Has(feed[c], "size"))
  BY <1>1, <1>2, <1>3 DEF Knows, Resizes, Refreshes, n
<1>5. (Accepted(c)' <=> Accepted(c)) /\ (Acked(c)' <=> Acked(c)) /\ (Doomed(c)' <=> Doomed(c))
      /\ (Fresh(c)' <=> Fresh(c))
  BY <1>1, <1>2, <1>3, <1>4 DEF Accepted, Acked, Doomed, Fresh, n
<1>6. OneTask(c)'
  <2>1. Matches(reqs'[c], pty'[c])
    BY <1>2, <1>3 DEF Always, OneTask, Matches, RequestOf, n
  <2> QED  BY <1>1, <1>2, <1>3, <1>4, <1>5, <2>1 DEF Always, OneTask, HasAnswer, n
<1>7. PtyWhole(c)'
  BY <1>1, <1>2, <1>3, <1>4 DEF Always, PtyWhole, n
<1>8. Epochs(c)'
  BY <1>1, <1>3, <1>4 DEF Always, Epochs, n
<1>9. ListTrue(c)'
  <2>1. ListsAre(feed[c], recorded) => ListsAre(feed'[c], recorded)
    BY <1>1, ListsTail
  <2> QED  BY <1>1, <1>3, <1>4, <2>1 DEF Always, ListTrue, n
<1>10. ASSUME InTime(c) PROVE InTime(c)'
  <2>1. ASSUME c = owner.client, Knows(c) PROVE e = owner.epoch /\ n = p
    <3>1. e = owner.epoch
      BY <1>1, <1>10, <2>1, ReignTail DEF InTime, Holder, Knows
    <3>2. p.lease = e
      BY <1>10, <2>1, <3>1 DEF InTime, Holder, Knows, Always, PtyWhole
    <3> QED  BY <1>3, <3>1, <3>2
  <2>2. Holder(c)'
    <3>1. SUFFICES ASSUME c = owner.client PROVE Holder(c)'
      BY <1>1 DEF Holder
    <3>2. Head(feed[c]) # GrantOf(owner.epoch)
      BY <1>1 DEF GrantOf
    <3>3. Reign(feed[c], Knows(c), owner.epoch)'
      <4>1. Reign(feed[c], Knows(c), owner.epoch) /\ Knows(c) \in BOOLEAN
        BY <1>10, <3>1 DEF InTime, Holder, Knows
      <4>2. Reign(feed'[c], Knows(c) \/ FALSE, owner.epoch)
        BY <1>1, <3>2, <4>1, ReignTail
      <4> QED  BY <1>1, <1>4, <4>2 DEF Reign
    <3>4. \A r : SizesAre(feed[c], r) => SizesAre(feed'[c], r)
      BY <1>1, SizesTail
    <3>5. Knows(c) => ~n.readOnly
      BY <1>10, <2>1, <3>1 DEF InTime, Holder
    <3> QED  BY <1>1, <1>3, <1>4, <1>5, <1>10, <3>1, <3>2, <3>3, <3>4, <3>5 DEF InTime, Holder, n
  <2>3. Warned(c)'
    <3>1. SUFFICES ASSUME c # owner.client, ~n.readOnly, n = p, e = p.lease, Warned(c)
                   PROVE  Warned(c)'
      BY <1>1, <1>3, <1>10 DEF Warned, InTime, n
    <3>2. Head(feed[c]) # ControlOf(owner.epoch)
      BY <1>1, <3>1 DEF Always, PtyWhole, Epochs, Knows, ControlOf
    <3> QED  BY <1>1, <1>5, <3>1, <3>2 DEF Warned, n
  <2>4. Shielded(c)'
    <3>1. SUFFICES ASSUME Accepted(c), ~n.readOnly, n.pending = None, n = p, e = p.lease
                   PROVE  Guarded(feed'[c], p.lease, p.pump.size)
      BY <1>3, <1>5 DEF Shielded, n
    <3>2. Guarded(feed[c], p.lease, p.pump.size)
      BY <1>10, <3>1 DEF InTime, Shielded
    <3> QED  BY <1>1, <3>1, <3>2, GuardedTail
  <2>5. AsksForWant(c)'
    BY <1>3, <1>4, <1>5, <1>10 DEF InTime, AsksForWant, n
  <2>6. Draws(c)'
    <3>1. Resizes(c) /\ ~p.readOnly /\ p.pending = None /\ ~p.astray /\ ~Doomed(c) =>
            Fresh(c) \/ (p.want = p.pump.size /\ ~Acked(c))
      BY <1>10 DEF InTime, AsksForWant, Draws
    <3>2. Refreshes(c) /\ ~p.readOnly => p.pending # None
      BY DEF Always, PtyWhole
    <3> QED  BY <1>3, <1>4, <1>5, <1>10, <3>1, <3>2 DEF InTime, Draws, n
  <2>7. Fits(c)'
    BY <1>1, <1>2, <1>3, <1>4, <1>10, <2>1 DEF InTime, Fits, n
  <2> QED  BY <2>2, <2>3, <2>4, <2>5, <2>6, <2>7 DEF InTime
<1> QED  BY <1>1, <1>6, <1>7, <1>8, <1>9, <1>10 DEF Always

LEMMA SizeChangedKeeps ==
  ASSUME ResizeAssumption, TypeOK, NEW c \in Client, SizeChanged(c), Always(c)
  PROVE  Always(c)' /\ (InTime(c) => InTime(c)')
<1> DEFINE s == Head(feed[c]).size
           p == pty[c]
           n == pty'[c]
           ignored == ~p.readOnly /\ (p.pump # None \/ p.pending # None) /\ s # p.want
<1>1. /\ feed[c] \in Seq(Event) /\ feed[c] # <<>> /\ feed'[c] = Tail(feed[c])
      /\ Head(feed[c]).ev = "size" /\ Head(feed[c]) \in Event
      /\ \A k : Has(feed[c], k) <=> k = "size" \/ Has(feed'[c], k)
      /\ \A f : Holds(feed[c], f) <=> f = Head(feed[c]) \/ Holds(feed'[c], f)
      /\ owner' = owner /\ recorded' = recorded /\ serving' = serving /\ At(c)' = At(c)
      /\ (Unannounced' <=> Unannounced)
      /\ OneAnswer(feed'[c]) /\ LastSize(feed'[c], recorded')
      /\ GrantsUpTo(feed'[c], owner.epoch, c = owner.client)
  BY ReceivesIs DEF SizeChanged
<1>2. reqs' = reqs /\ fit' = fit /\ frames' = frames /\ p \in AgentPty /\ owner.epoch \in Nat
      /\ (~Has(feed'[c], "size") => s = recorded)
  BY <1>1, ClientTypes, LastSizeTail DEF SizeChanged, Always
<1>3. /\ n.readOnly = p.readOnly /\ n.epoch = p.epoch /\ n.lease = p.lease
      /\ n.pump = p.pump /\ n.pending = p.pending
      /\ ignored => /\ n.want = p.want /\ n.generation = p.generation /\ n.astray = p.astray
                    /\ n.missed = TRUE /\ grid'[c] = grid[c]
      /\ ~ignored => /\ n.want = s /\ n.generation = p.generation + 1 /\ n.astray = FALSE
                     /\ grid'[c] = s
  <2>1. CASE ignored
    BY <1>2, <2>1 DEF SizeChanged, TypeOK, AgentPty
  <2>2. CASE ~ignored
    <3>1. Applies(c, s)
      BY <2>2 DEF SizeChanged
    <3> QED  BY <1>2, <2>2, <3>1 DEF Applies, TypeOK, AgentPty
  <2> QED  BY <2>1, <2>2
<1> HIDE DEF n, ignored
<1>4. /\ Knows(c)' <=> Knows(c)
      /\ (Resizes(c)' <=> Resizes(c)) /\ (Refreshes(c)' <=> Refreshes(c))
  BY <1>1, <1>2, <1>3 DEF Knows, Resizes, Refreshes, n
<1>5. (Accepted(c)' <=> Accepted(c)) /\ (Acked(c)' <=> Acked(c)) /\ (Doomed(c)' <=> Doomed(c))
  BY <1>1, <1>2, <1>3, <1>4 DEF Accepted, Acked, Doomed, n
<1>6. OneTask(c)'
  <2>1. Matches(reqs'[c], pty'[c])
    BY <1>2, <1>3 DEF Always, OneTask, Matches, RequestOf, n
  <2> QED  BY <1>1, <1>2, <1>3, <1>4, <1>5, <2>1 DEF Always, OneTask, HasAnswer, n
<1>7. PtyWhole(c)'
  <2>1. p.generation \in Nat
    BY <1>2 DEF AgentPty
  <2> QED  BY <1>3, <1>4, <2>1 DEF Always, PtyWhole, n, ignored
<1>8. Epochs(c)'
  BY <1>1, <1>3, <1>4 DEF Always, Epochs, n
<1>9. ListTrue(c)'
  <2>1. Refreshes(c) => p.pump.refresh \in Nat /\ p.pump.refresh <= p.generation
    BY DEF Always, PtyWhole
  <2>2. p.generation \in Nat
    BY <1>2 DEF AgentPty
  <2> QED  BY <1>3, <1>4, <2>1, <2>2 DEF ListTrue, n
<1>10. ASSUME InTime(c) PROVE InTime(c)'
  <2>1. Holder(c)'
    <3>1. SUFFICES ASSUME c = owner.client PROVE Holder(c)'
      BY <1>1 DEF Holder
    <3>2. Head(feed[c]) # GrantOf(owner.epoch)
      BY <1>1 DEF GrantOf
    <3>3. Reign(feed[c], Knows(c), owner.epoch)'
      <4>1. Reign(feed[c], Knows(c), owner.epoch) /\ Knows(c) \in BOOLEAN
        BY <1>10, <3>1 DEF InTime, Holder, Knows
      <4>2. Reign(feed'[c], Knows(c) \/ FALSE, owner.epoch)
        BY <1>1, <3>2, <4>1, ReignTail
      <4> QED  BY <1>1, <1>4, <4>2 DEF Reign
    <3>4. \A r : SizesAre(feed[c], r) => SizesAre(feed'[c], r)
      BY <1>1, SizesTail
    <3> QED  BY <1>1, <1>3, <1>4, <1>5, <1>10, <3>1, <3>2, <3>3, <3>4 DEF InTime, Holder, n
  <2>2. Warned(c)'
    <3>1. Head(feed[c]) # ControlOf(owner.epoch)
      BY <1>1 DEF ControlOf
    <3> QED  BY <1>1, <1>3, <1>5, <1>10, <3>1 DEF InTime, Warned, n
  <2>3. Shielded(c)'
    <3>1. SUFFICES ASSUME Accepted(c), ~p.readOnly, p.pending = None
                   PROVE  Guarded(feed'[c], p.lease, p.pump.size)
      BY <1>3, <1>5 DEF Shielded, n
    <3>2. Guarded(feed[c], p.lease, p.pump.size)
      BY <1>10, <3>1 DEF InTime, Shielded
    <3> QED  BY <1>1, <3>2, GuardedTail
  \* An accepted resize of its own is the size that it hears of.
  <2>4. ASSUME Accepted(c), ~p.readOnly, p.pending = None PROVE s = p.pump.size
    <3>1. Guarded(feed[c], p.lease, p.pump.size)
      BY <1>10, <2>4 DEF InTime, Shielded
    <3> QED  BY <1>1, <3>1, GuardedTail
  <2>5. ASSUME Resizes(c), ~p.readOnly, p.pending = None, ~Doomed(c) PROVE Accepted(c)
    <3>1. SUFFICES ASSUME Asks(reqs[c]) PROVE Accepted(c)
      BY <2>5 DEF Always, OneTask, Doomed
    <3>2. p.pump # None /\ p.pump.epoch = owner.epoch
      BY <2>5, <3>1 DEF Doomed, Resizes
    <3>3. c = owner.client /\ Knows(c)
      BY <1>10, <3>2 DEF Always, Epochs, InTime, Holder
    <3> QED  BY <1>1, <1>10, <3>3 DEF InTime, Holder, Acked, Accepted, Resizing
  <2>6. AsksForWant(c)'
    <3>1. SUFFICES ASSUME Resizes(c), ~p.readOnly, p.pending = None, ~Doomed(c),
                          p.want # p.pump.size => p.astray
                   PROVE  n.want = p.pump.size \/ n.astray
      BY <1>3, <1>4, <1>5, <1>10 DEF InTime, AsksForWant, n
    <3> QED  BY <1>3, <2>4, <2>5, <3>1
  <2>7. Draws(c)'
    <3>1. CASE ~ignored
      <4>1. Fresh(c)'
        BY <1>1, <1>2, <1>3, <3>1 DEF Fresh, n
      <4> QED  BY <4>1 DEF Draws
    <3>2. CASE ignored
      <4>1. ~p.readOnly /\ (p.pump # None \/ p.pending # None) /\ s # p.want
        BY <3>2 DEF ignored
      <4>2. p.pump # None
        BY <4>1 DEF Always, PtyWhole
      <4>3. ~(Resizes(c) /\ p.pending = None /\ Acked(c) /\ ~p.astray)
        <5>1. SUFFICES ASSUME Resizes(c), p.pending = None, Acked(c), ~p.astray PROVE FALSE
          OBVIOUS
        <5>2. Accepted(c) /\ ~Doomed(c)
          BY <5>1, AcceptedIs DEF Always, Acked, Accepted, Resizing
        <5>3. s = p.pump.size /\ p.want = p.pump.size
          BY <1>10, <2>4, <4>1, <5>1, <5>2 DEF InTime, AsksForWant
        <5> QED  BY <4>1, <5>3
      <4> QED  BY <1>3, <1>4, <1>5, <3>2, <4>1, <4>2, <4>3 DEF Draws, n
    <3> QED  BY <3>1, <3>2
  <2>8. Fits(c)'
    <3>1. SUFFICES ASSUME c = owner.client, Knows(c), c \notin frames PROVE Fits(c)'
      BY <1>1, <1>2, <1>4 DEF Fits
    <3>2. Acked(c) /\ s = p.pump.size /\ ~p.readOnly
      BY <1>1, <1>10, <3>1, SizesTail DEF InTime, Holder
    <3>3. Resizes(c) /\ p.pump # None
      BY <3>2, AcceptedIs DEF Always, Acked, Accepted, Resizing, Resizes
    <3>4. fit[c] = p.want \/ (p.astray /\ p.pending = None /\ p.pump.size # p.want)
      BY <1>10, <3>1, <3>3 DEF InTime, Fits
    <3>5. CASE ignored
      BY <1>2, <1>3, <1>4, <3>4, <3>5 DEF Fits, n
    <3>6. CASE ~ignored
      <4>1. s = p.want
        BY <3>2, <3>3, <3>6 DEF ignored
      <4> QED  BY <1>2, <1>3, <3>2, <3>4, <3>6, <4>1 DEF Fits, n
    <3> QED  BY <3>5, <3>6
  <2> QED  BY <2>1, <2>2, <2>3, <2>6, <2>7, <2>8 DEF InTime
<1> QED  BY <1>1, <1>6, <1>7, <1>8, <1>9, <1>10 DEF Always

LEMMA AcknowledgedKeeps ==
  ASSUME ResizeAssumption, TypeOK, NEW c \in Client, Acknowledged(c), Always(c)
  PROVE  Always(c)' /\ (InTime(c) => InTime(c)')
<1> DEFINE p == pty[c]
           n == pty'[c]
           more == p.pending # None /\ ~p.readOnly
<1>1. /\ feed[c] \in Seq(Event) /\ feed[c] # <<>> /\ feed'[c] = Tail(feed[c])
      /\ Head(feed[c]).ev = "ack" /\ Head(feed[c]) \in Event
      /\ \A k : Has(feed[c], k) <=> k = "ack" \/ Has(feed'[c], k)
      /\ \A f : Holds(feed[c], f) <=> f = Head(feed[c]) \/ Holds(feed'[c], f)
      /\ owner' = owner /\ recorded' = recorded /\ serving' = serving /\ At(c)' = At(c)
      /\ (Unannounced' <=> Unannounced)
      /\ ~HasAnswer(feed'[c]) /\ LastSize(feed'[c], recorded')
      /\ GrantsUpTo(feed'[c], owner.epoch, c = owner.client)
  BY ReceivesIs DEF Acknowledged
<1>2. fit' = fit /\ frames' = frames /\ grid' = grid /\ p \in AgentPty /\ owner.epoch \in Nat
      /\ Pumps(c, p)
  BY ClientTypes DEF Acknowledged
<1>3. /\ Accepted(c) /\ Acked(c) /\ Resizes(c) /\ ~Doomed(c) /\ ~Asks(reqs[c])
      /\ At(c) \notin Resizing \cup Listing /\ p.pump # None
  BY <1>1, AcceptedIs DEF Always, OneTask, Accepted, Acked, HasAnswer, Resizes
<1>4. /\ n.want = p.want /\ n.readOnly = p.readOnly /\ n.epoch = p.epoch
      /\ n.lease = p.lease /\ n.generation = p.generation /\ n.astray = p.astray
      /\ n.pending = None
      /\ more => n.pump # None /\ n.pump = [size |-> p.pending, epoch |-> p.epoch, refresh |-> -1]
      /\ ~more => n.pump = None
  BY <1>2, PumpsIs
<1>5. /\ OneTask(c)' /\ ~Accepted(c)' /\ ~Acked(c)' /\ ~Refreshes(c)' /\ (Resizes(c)' <=> more)
      /\ ~more => ~Doomed(c)'
  BY <1>1, <1>2, <1>3, PumpsKeep
<1>6. (Knows(c)' <=> Knows(c)) /\ (Fresh(c)' <=> Fresh(c))
  BY <1>1, <1>4 DEF Knows, Fresh
<1> HIDE DEF n, more
<1>7. PtyWhole(c)'
  BY <1>2, <1>4, <1>5 DEF Always, PtyWhole, n, more
<1>8. Epochs(c)'
  BY <1>1, <1>4, <1>5, <1>6 DEF Always, Epochs, Knows, n, HasAnswer
<1>9. ListTrue(c)'
  BY <1>5 DEF ListTrue
<1>10. ASSUME InTime(c) PROVE InTime(c)'
  <2>1. Holder(c)'
    <3>1. SUFFICES ASSUME c = owner.client PROVE Holder(c)'
      BY <1>1 DEF Holder
    <3>2. Head(feed[c]) # GrantOf(owner.epoch)
      BY <1>1 DEF GrantOf
    <3>3. Reign(feed[c], Knows(c), owner.epoch)'
      <4>1. Reign(feed[c], Knows(c), owner.epoch) /\ Knows(c) \in BOOLEAN
        BY <1>10, <3>1 DEF InTime, Holder, Knows
      <4>2. Reign(feed'[c], Knows(c) \/ FALSE, owner.epoch)
        BY <1>1, <3>2, <4>1, ReignTail
      <4> QED  BY <1>1, <1>6, <4>2 DEF Reign
    <3>4. Knows(c) => ~Has(feed'[c], "size")
      BY <1>1, <1>10, <3>1, SizesTail DEF InTime, Holder
    <3>5. n.pump # None /\ n.pump.epoch = owner.epoch => Knows(c)
      BY <1>4, <1>5 DEF Knows
    <3> QED  BY <1>1, <1>3, <1>4, <1>6, <1>10, <3>1, <3>2, <3>3, <3>4, <3>5
             DEF InTime, Holder, n
  <2>2. Warned(c)'
    <3>1. Head(feed[c]) # ControlOf(owner.epoch)
      BY <1>1 DEF ControlOf
    <3>2. SUFFICES ASSUME c # owner.client, ~p.readOnly, ~more, ~Unannounced
                   PROVE  Holds(feed'[c], ControlOf(owner.epoch))
      BY <1>1, <1>4, <1>5 DEF Warned, n
    <3> QED  BY <1>1, <1>3, <1>10, <3>1, <3>2 DEF InTime, Warned, more
  <2>3. Shielded(c)'
    BY <1>5 DEF Shielded
  <2>4. AsksForWant(c)'
    BY <1>4, <1>5 DEF AsksForWant, Always, PtyWhole, n, more
  <2>5. Draws(c)'
    <3>1. ~more /\ ~p.astray => Fresh(c)
      BY <1>3, <1>10 DEF InTime, Draws, more
    <3> QED  BY <1>4, <1>5, <1>6, <3>1 DEF Draws, n, more
  <2>6. Fits(c)'
    <3>1. c = owner.client /\ Knows(c) => ~p.readOnly
      BY <1>10 DEF InTime, Holder
    <3> QED  BY <1>1, <1>2, <1>4, <1>5, <1>6, <1>10, <3>1 DEF InTime, Fits, n, more
  <2> QED  BY <2>1, <2>2, <2>3, <2>4, <2>5, <2>6 DEF InTime
<1> QED  BY <1>1, <1>5, <1>7, <1>8, <1>9, <1>10 DEF Always

LEMMA RefusedKeeps ==
  ASSUME ResizeAssumption, TypeOK, NEW c \in Client, Refused(c), Always(c)
  PROVE  Always(c)' /\ (InTime(c) => InTime(c)')
<1> DEFINE p == pty[c]
           n == pty'[c]
           fails == p.lease \in {0, p.pump.epoch}
<1>1. /\ feed[c] \in Seq(Event) /\ feed[c] # <<>> /\ feed'[c] = Tail(feed[c])
      /\ Head(feed[c]).ev = "refused" /\ Head(feed[c]) \in Event
      /\ \A k : Has(feed[c], k) <=> k = "refused" \/ Has(feed'[c], k)
      /\ \A f : Holds(feed[c], f) <=> f = Head(feed[c]) \/ Holds(feed'[c], f)
      /\ owner' = owner /\ recorded' = recorded /\ serving' = serving /\ At(c)' = At(c)
      /\ (Unannounced' <=> Unannounced)
      /\ OneAnswer(feed'[c]) /\ ~HasAnswer(feed'[c]) /\ LastSize(feed'[c], recorded')
      /\ GrantsUpTo(feed'[c], owner.epoch, c = owner.client)
  BY ReceivesIs DEF Refused
<1>2. fit' = fit /\ frames' = frames /\ grid' = grid /\ p \in AgentPty /\ owner.epoch \in Nat
  BY ClientTypes DEF Refused
<1>3. /\ Resizes(c) /\ ~Asks(reqs[c]) /\ At(c) \notin Resizing \cup Listing /\ p.pump # None
      /\ p.pump.epoch # owner.epoch /\ ~Accepted(c) /\ ~Acked(c)
  <2>1. Has(feed[c], "refused") /\ HasAnswer(feed[c])
    BY <1>1 DEF HasAnswer
  <2>2. ~Accepted(c)
    BY <2>1, AcceptedIs DEF Always
  <2> QED  BY <2>1, <2>2 DEF Always, OneTask, Epochs, Resizes, Accepted, Acked, Resizing
<1>4. ASSUME c = owner.client, InTime(c) PROVE Holder(c)
  BY <1>4 DEF InTime
\* The sizes announced to the holder belong to an accepted resize of its own.
<1>5. ASSUME InTime(c), c = owner.client
      PROVE  /\ Knows(c) => ~Has(feed[c], "size") /\ ~fails /\ ~p.readOnly
             /\ Reign(feed'[c], Knows(c), owner.epoch)
  <2>1. Reign(feed[c], Knows(c), owner.epoch) /\ Knows(c) \in BOOLEAN
        /\ Head(feed[c]) # GrantOf(owner.epoch)
    BY <1>1, <1>5 DEF InTime, Holder, Knows, GrantOf
  <2>2. Reign(feed'[c], Knows(c) \/ FALSE, owner.epoch)
    BY <1>1, <2>1, ReignTail
  <2>3. Reign(feed'[c], Knows(c), owner.epoch)
    BY <2>2 DEF Reign
  <2>4. Knows(c) => ~Has(feed[c], "size") /\ ~p.readOnly
    BY <1>3, <1>5 DEF InTime, Holder
  <2>5. Knows(c) => p.lease = owner.epoch /\ p.lease # 0
    BY <2>4 DEF Always, PtyWhole, Knows
  <2> QED  BY <1>3, <2>3, <2>4, <2>5
<1>6. ASSUME ~fails PROVE Always(c)' /\ (InTime(c) => InTime(c)')
  <2>1. ~p.readOnly /\ p.pending # None
    BY <1>3, <1>6 DEF Always, PtyWhole
  <2>2. Pumps(c, p)
    BY <1>6 DEF Refused
  <2>3. /\ n.want = p.want /\ n.readOnly = p.readOnly /\ n.epoch = p.epoch
        /\ n.lease = p.lease /\ n.generation = p.generation /\ n.astray = p.astray
        /\ n.pending = None
        /\ n.pump # None /\ n.pump = [size |-> p.pending, epoch |-> p.epoch, refresh |-> -1]
    BY <1>2, <2>1, <2>2, PumpsIs
  <2>4. OneTask(c)' /\ ~Accepted(c)' /\ ~Acked(c)' /\ ~Refreshes(c)' /\ Resizes(c)'
    BY <1>1, <1>2, <1>3, <2>1, <2>2, PumpsKeep
  <2>5. Knows(c)' <=> Knows(c)
    BY <1>1, <2>3 DEF Knows
  <2> HIDE DEF n
  <2>6. PtyWhole(c)'
    BY <1>2, <2>1, <2>3, <2>4 DEF Always, PtyWhole, n
  <2>7. Epochs(c)'
    BY <1>1, <2>3, <2>4, <2>5 DEF Always, Epochs, Knows, n, HasAnswer
  <2>8. ListTrue(c)'
    BY <2>4 DEF ListTrue
  <2>9. ASSUME InTime(c) PROVE InTime(c)'
    <3>1. Holder(c)'
      <4>1. SUFFICES ASSUME c = owner.client PROVE Holder(c)'
        BY <1>1 DEF Holder
      <4>2. Reign(feed[c], Knows(c), owner.epoch)'
        BY <1>1, <1>5, <2>5, <2>9, <4>1 DEF Reign
      <4>3. Knows(c) => ~Has(feed'[c], "size")
        BY <1>1, <1>5, <2>9, <4>1
      <4>4. n.pump.epoch = owner.epoch => Knows(c)
        BY <2>3 DEF Knows
      <4>5. Head(feed[c]) # GrantOf(owner.epoch)
        BY <1>1 DEF GrantOf
      <4> QED  BY <1>1, <1>3, <2>1, <2>3, <2>5, <2>9, <4>1, <4>2, <4>3, <4>4, <4>5
               DEF InTime, Holder, n
    <3>2. Warned(c)' /\ Shielded(c)'
      BY <2>3, <2>4 DEF Warned, Shielded, n
    <3>3. AsksForWant(c)'
      BY <2>1, <2>3 DEF AsksForWant, Always, PtyWhole, n
    <3>4. Draws(c)'
      BY <2>1, <2>3, <2>4 DEF Draws, n
    <3>5. Fits(c)'
      BY <1>1, <1>2, <2>1, <2>3, <2>5, <2>9 DEF InTime, Fits, n
    <3> QED  BY <3>1, <3>2, <3>3, <3>4, <3>5 DEF InTime
  <2> QED  BY <1>1, <2>4, <2>6, <2>7, <2>8, <2>9 DEF Always
<1>7. ASSUME fails PROVE Always(c)' /\ (InTime(c) => InTime(c)')
  <2> DEFINE r == [req |-> "list"]
             pump == [p.pump EXCEPT !.refresh = p.generation]
  <2>1. /\ pump \in Pump /\ pump # None /\ pump.size = p.pump.size /\ pump.epoch = p.pump.epoch
        /\ pump.refresh = p.generation /\ p.generation \in Nat /\ p.generation # -1
    <3>1. p.pump \in Pump /\ p.generation \in Nat
      BY <1>2, <1>3 DEF AgentPty
    <3> QED  BY <3>1 DEF Pump, ResizeAssumption
  <2>2. /\ reqs'[c] = Append(reqs[c], r) /\ r \in Request
        /\ pty' = [pty EXCEPT ![c] =
             [LoseControl(p) EXCEPT !.pump.refresh = LoseControl(p).generation, !.missed = FALSE]]
    <3>1. LoseControl(p).readOnly = TRUE
      BY <1>2 DEF LoseControl, AgentPty
    <3> QED  BY <1>2, <1>7, <3>1, ClientTypes DEF Refused, TypeOK, Request
  <2>3. /\ n.want = p.want /\ n.readOnly = TRUE /\ n.epoch = p.epoch /\ n.lease = 0
        /\ n.pending = None /\ n.pump = pump /\ n.generation = p.generation
        /\ n.astray = (p.astray \/ p.pending # None) /\ n.missed = FALSE
    BY <1>2, <2>2 DEF LoseControl, TypeOK, AgentPty
  <2> HIDE DEF n, pump
  <2>4. Refreshes(c)' /\ ~Resizes(c)' /\ RequestOf(pty'[c]) = r /\ (Knows(c)' <=> Knows(c))
    BY <1>1, <2>1, <2>3 DEF Refreshes, Resizes, RequestOf, Knows, n
  <2>5. Asks(reqs'[c]) /\ OneRequest(reqs'[c]) /\ Matches(reqs'[c], pty'[c])
    <3>1. OneRequest(reqs[c]) /\ Matches(reqs[c], pty'[c])
      BY <1>3, RequestsNone
    <3>2. pty'[c].pump # None
      BY <2>4 DEF Refreshes
    <3> QED  BY <1>3, <2>2, <2>4, <3>1, <3>2, RequestsAppend, ClientTypes
  <2>6. ~Accepted(c)' /\ ~Acked(c)' /\ ~Has(feed'[c], "refused") /\ ~Has(feed'[c], "sessions")
        /\ ~Has(feed'[c], "ack")
    BY <1>1, <1>3 DEF Accepted, Acked, HasAnswer, Resizing
  <2>7. OneTask(c)'
    BY <1>1, <1>3, <2>4, <2>5, <2>6 DEF OneTask, HasAnswer
  <2>8. PtyWhole(c)'
    BY <1>2, <2>1, <2>3, <2>4 DEF Always, PtyWhole, n
  <2>9. Epochs(c)'
    BY <1>1, <1>3, <2>1, <2>3, <2>4, <2>6 DEF Always, Epochs, n
  <2>10. ListTrue(c)'
    <3>1. At(c)' # "listed" /\ ListsAre(feed'[c], recorded')
      BY <1>1, <1>3, <2>6 DEF ListsAre, Has, Listing
    <3> QED  BY <3>1 DEF ListTrue
  <2>11. ASSUME InTime(c) PROVE InTime(c)'
    <3>1. Holder(c)'
      <4>1. SUFFICES ASSUME c = owner.client PROVE Holder(c)'
        BY <1>1 DEF Holder
      <4>2. ~Knows(c)
        BY <1>5, <1>7, <2>11, <4>1
      <4>3. Reign(feed[c], Knows(c), owner.epoch)'
        BY <1>1, <1>5, <2>4, <2>11, <4>1 DEF Reign
      <4>4. Head(feed[c]) # GrantOf(owner.epoch)
        BY <1>1 DEF GrantOf
      <4> QED  BY <1>1, <1>3, <2>1, <2>3, <2>4, <2>11, <4>1, <4>2, <4>3, <4>4
               DEF InTime, Holder, n
    <3>2. Warned(c)' /\ Shielded(c)'
      BY <2>3, <2>6 DEF Warned, Shielded, n
    <3>3. AsksForWant(c)'
      BY <2>4 DEF AsksForWant
    <3>4. Draws(c)'
      BY <2>1, <2>3, <2>4 DEF Draws, n
    <3>5. Fits(c)'
      BY <1>1, <1>5, <1>7, <2>4, <2>11 DEF Fits
    <3> QED  BY <3>1, <3>2, <3>3, <3>4, <3>5 DEF InTime
  <2> QED  BY <1>1, <2>7, <2>8, <2>9, <2>10, <2>11 DEF Always
<1> QED  BY <1>6, <1>7

LEMMA SessionsKeeps ==
  ASSUME ResizeAssumption, TypeOK, NEW c \in Client, Sessions(c), Always(c)
  PROVE  Always(c)' /\ (InTime(c) => InTime(c)')
<1> DEFINE p == pty[c]
           n == pty'[c]
           s == Head(feed[c]).size
           fresh == p.pump.refresh = p.generation
           q == IF fresh THEN [p EXCEPT !.want = s, !.astray = ~p.readOnly \/ p.missed] ELSE p
           more == p.pending # None /\ ~p.readOnly
<1>1. /\ feed[c] \in Seq(Event) /\ feed[c] # <<>> /\ feed'[c] = Tail(feed[c])
      /\ Head(feed[c]).ev = "sessions" /\ Head(feed[c]) \in Event
      /\ \A k : Has(feed[c], k) <=> k = "sessions" \/ Has(feed'[c], k)
      /\ \A f : Holds(feed[c], f) <=> f = Head(feed[c]) \/ Holds(feed'[c], f)
      /\ owner' = owner /\ recorded' = recorded /\ serving' = serving /\ At(c)' = At(c)
      /\ (Unannounced' <=> Unannounced)
      /\ ~HasAnswer(feed'[c]) /\ LastSize(feed'[c], recorded')
      /\ GrantsUpTo(feed'[c], owner.epoch, c = owner.client)
  BY ReceivesIs DEF Sessions
<1>2. fit' = fit /\ frames' = frames /\ p \in AgentPty /\ owner.epoch \in Nat /\ s \in Size
  BY <1>1, ClientTypes DEF Sessions, Event
<1>3. /\ Refreshes(c) /\ ~Resizes(c) /\ ~Asks(reqs[c]) /\ p.pump # None
      /\ At(c) \notin Resizing \cup Listing /\ ~Acked(c)
  BY <1>1 DEF Always, OneTask, HasAnswer, Refreshes, Resizes, Acked, Resizing
<1>4. /\ q \in AgentPty /\ q.readOnly = p.readOnly /\ q.epoch = p.epoch
      /\ q.lease = p.lease /\ q.generation = p.generation /\ q.pending = p.pending
      /\ fresh => q.want = s /\ (q.astray <=> ~p.readOnly \/ p.missed)
      /\ ~fresh => q.want = p.want /\ q.astray = p.astray
  BY <1>2 DEF AgentPty
<1>5. Pumps(c, q) /\ grid'[c] = (IF fresh THEN s ELSE grid[c])
  BY DEF Sessions, TypeOK
<1> HIDE DEF q
<1>6. /\ n.want = q.want /\ n.readOnly = p.readOnly /\ n.epoch = p.epoch
      /\ n.lease = p.lease /\ n.generation = p.generation /\ n.astray = q.astray
      /\ n.pending = None
      /\ more => n.pump # None /\ n.pump = [size |-> p.pending, epoch |-> p.epoch, refresh |-> -1]
      /\ ~more => n.pump = None
  <2>1. /\ n.want = q.want /\ n.readOnly = q.readOnly /\ n.epoch = q.epoch
        /\ n.lease = q.lease /\ n.generation = q.generation /\ n.astray = q.astray
        /\ n.pending = None
    BY <1>4, <1>5, PumpsIs
  <2>2. q.pending # None /\ ~q.readOnly =>
          n.pump # None /\ n.pump = [size |-> q.pending, epoch |-> q.epoch, refresh |-> -1]
    BY <1>4, <1>5, PumpsIs
  <2>3. ~(q.pending # None /\ ~q.readOnly) => n.pump = None
    BY <1>4, <1>5, PumpsIs
  <2> QED  BY <1>4, <2>1, <2>2, <2>3
<1>7. /\ OneTask(c)' /\ ~Accepted(c)' /\ ~Acked(c)' /\ ~Refreshes(c)' /\ (Resizes(c)' <=> more)
      /\ ~more => ~Doomed(c)'
  BY <1>1, <1>3, <1>4, <1>5, PumpsKeep
<1>8. /\ Knows(c)' <=> Knows(c)
      /\ ~p.readOnly => p.pending # None /\ ~p.astray /\ p.pending = p.want
  BY <1>1, <1>3, <1>6 DEF Knows, Always, PtyWhole
<1> HIDE DEF n, more, fresh
<1>9. PtyWhole(c)'
  BY <1>2, <1>4, <1>5, <1>6, <1>7 DEF Always, PtyWhole, n, more
<1>10. Epochs(c)'
  BY <1>1, <1>6, <1>7, <1>8 DEF Always, Epochs, Knows, n, HasAnswer
<1>11. ListTrue(c)'
  BY <1>7 DEF ListTrue
<1>12. ASSUME InTime(c) PROVE InTime(c)'
  <2>1. Holder(c)'
    <3>1. SUFFICES ASSUME c = owner.client PROVE Holder(c)'
      BY <1>1 DEF Holder
    <3>2. Head(feed[c]) # GrantOf(owner.epoch)
      BY <1>1 DEF GrantOf
    <3>3. Reign(feed[c], Knows(c), owner.epoch)'
      <4>1. Reign(feed[c], Knows(c), owner.epoch) /\ Knows(c) \in BOOLEAN
        BY <1>12, <3>1 DEF InTime, Holder, Knows
      <4>2. Reign(feed'[c], Knows(c) \/ FALSE, owner.epoch)
        BY <1>1, <3>2, <4>1, ReignTail
      <4> QED  BY <1>1, <1>8, <4>2 DEF Reign
    <3>4. Knows(c) => ~Has(feed'[c], "size")
      BY <1>1, <1>3, <1>12, <3>1 DEF InTime, Holder
    <3>5. n.pump # None /\ n.pump.epoch = owner.epoch => Knows(c)
      BY <1>6, <1>7 DEF Knows
    <3> QED  BY <1>1, <1>3, <1>6, <1>8, <1>12, <3>1, <3>2, <3>3, <3>4, <3>5
             DEF InTime, Holder, n
  <2>2. Warned(c)' /\ Shielded(c)'
    BY <1>6, <1>7, <1>8 DEF Warned, Shielded, n, more
  <2>3. AsksForWant(c)'
    <3>1. ~p.readOnly /\ fresh => n.astray
      BY <1>4, <1>6
    <3>2. ~p.readOnly /\ ~fresh => n.want = n.pump.size
      BY <1>4, <1>6, <1>8 DEF more
    <3> QED  BY <1>6, <3>1, <3>2 DEF AsksForWant, n
  <2>4. Draws(c)'
    <3>1. ASSUME ~n.astray, p.readOnly PROVE Fresh(c)'
      <4>1. CASE fresh
        <5>1. ~p.missed /\ n.want = s
          BY <1>4, <1>6, <3>1, <4>1
        <5>2. ~Has(feed[c], "size") => s = recorded
          BY <1>1, <1>3, <4>1, <5>1, ListsTail DEF Always, ListTrue, fresh
        <5> QED  BY <1>1, <5>1, <5>2 DEF Fresh, n
      <4>2. CASE ~fresh
        <5>1. Fresh(c)
          BY <1>3, <1>4, <1>6, <1>12, <3>1, <4>2 DEF InTime, Draws, fresh
        <5> QED  BY <1>1, <1>4, <1>6, <4>2, <5>1 DEF Fresh, n
      <4> QED  BY <4>1, <4>2
    <3>2. n.pump = None => p.readOnly
      BY <1>6, <1>8 DEF more
    <3> QED  BY <1>6, <1>7, <3>1, <3>2 DEF Draws, n
  <2>5. Fits(c)'
    <3>1. SUFFICES ASSUME c = owner.client, Knows(c), c \notin frames PROVE Fits(c)'
      BY <1>1, <1>2, <1>8 DEF Fits
    <3>2. ~p.readOnly
      BY <1>12, <3>1 DEF InTime, Holder
    <3>3. fit[c] = p.pending
      BY <1>8, <1>12, <3>1, <3>2 DEF InTime, Fits
    <3>4. more /\ n.pump.size = p.pending
      BY <1>6, <1>8, <3>2 DEF more
    <3>5. fresh => n.want = s /\ n.astray /\ n.pending = None
      BY <1>4, <1>6, <3>2
    <3>6. ~fresh => n.want = p.pending
      BY <1>4, <1>6, <1>8, <3>2
    <3> QED  BY <1>2, <3>3, <3>4, <3>5, <3>6 DEF Fits, n
  <2> QED  BY <2>1, <2>2, <2>3, <2>4, <2>5 DEF InTime
<1> QED  BY <1>1, <1>7, <1>9, <1>10, <1>11, <1>12 DEF Always

\* A controller's size becomes the request of an idle pump, or waits for it.
LEMMA EnqueueKeep ==
  ASSUME ResizeAssumption, TypeOK, NEW c \in Client, NEW p \in AgentPty, NEW size \in Size,
         ~p.readOnly, p.pump = pty[c].pump, enqueueResize(c, p, size), OneTask(c),
         serving' = serving, OneAnswer(feed'[c]),
         \A k \in {"ack", "refused", "sessions"} : Has(feed'[c], k) <=> Has(feed[c], k)
  PROVE  LET n == pty'[c] IN
         /\ n.want = p.want /\ ~n.readOnly /\ n.epoch = p.epoch
         /\ n.lease = p.lease /\ n.generation = p.generation /\ n.astray = p.astray
         /\ n.missed = p.missed /\ n.pump # None /\ OneTask(c)' /\ At(c)' = At(c)
         /\ p.pump = None =>
              /\ n.pending = None
              /\ n.pump = [size |-> size, epoch |-> p.epoch, refresh |-> -1]
              /\ ~Accepted(c)' /\ ~Acked(c)' /\ ~Refreshes(c)'
         /\ p.pump # None =>
              /\ n.pump = p.pump /\ n.pending = size
              /\ Resizes(c)' <=> Resizes(c)
              /\ Refreshes(c)' <=> Refreshes(c)
              /\ Acked(c)' <=> Acked(c)
<1>1. At(c)' = At(c)
  BY DEF At
<1>2. size # None
  BY DEF ResizeAssumption
<1>3. CASE p.pump = None
  <2> DEFINE q == [p EXCEPT !.pending = size]
  <2>1. /\ q \in AgentPty /\ q.want = p.want /\ ~q.readOnly /\ q.epoch = p.epoch
        /\ q.lease = p.lease /\ q.generation = p.generation /\ q.astray = p.astray
        /\ q.missed = p.missed /\ q.pending = size
    BY DEF AgentPty
  <2>2. Pumps(c, q)
    BY <1>3 DEF enqueueResize
  <2> HIDE DEF q
  <2>3. /\ pty'[c].want = q.want /\ pty'[c].readOnly = q.readOnly /\ pty'[c].epoch = q.epoch
        /\ pty'[c].lease = q.lease /\ pty'[c].generation = q.generation
        /\ pty'[c].astray = q.astray /\ pty'[c].missed = q.missed /\ pty'[c].pending = None
    BY <2>1, <2>2, PumpsIs
  <2>4. pty'[c].pump # None /\ pty'[c].pump = [size |-> q.pending, epoch |-> q.epoch, refresh |-> -1]
    BY <1>2, <2>1, <2>2, PumpsIs
  <2>5. /\ ~Asks(reqs[c]) /\ ~HasAnswer(feed[c]) /\ At(c) \notin Resizing \cup Listing
    BY <1>3, NothingAsked
  <2>6. ~HasAnswer(feed'[c])
    BY <2>5 DEF HasAnswer
  <2>7. OneTask(c)' /\ ~Accepted(c)' /\ ~Acked(c)' /\ ~Refreshes(c)'
    BY <1>1, <2>1, <2>2, <2>5, <2>6, PumpsKeep
  <2> QED  BY <1>1, <1>3, <2>1, <2>3, <2>4, <2>7
<1>4. CASE p.pump # None
  <2> DEFINE q == [p EXCEPT !.pending = size]
  <2>1. /\ q.want = p.want /\ ~q.readOnly /\ q.epoch = p.epoch
        /\ q.lease = p.lease /\ q.generation = p.generation /\ q.astray = p.astray
        /\ q.missed = p.missed /\ q.pending = size /\ q.pump = p.pump
    BY DEF AgentPty
  <2>2. pty'[c] = q /\ reqs' = reqs
    BY <1>4 DEF enqueueResize, TypeOK
  <2> HIDE DEF q
  <2>3. /\ Resizes(c)' <=> Resizes(c)
        /\ Refreshes(c)' <=> Refreshes(c)
        /\ Acked(c)' <=> Acked(c)
        /\ Accepted(c)' <=> Accepted(c)
        /\ HasAnswer(feed'[c]) <=> HasAnswer(feed[c])
    BY <1>1, <2>1, <2>2 DEF Resizes, Refreshes, Acked, Accepted, HasAnswer
  <2>4. Matches(reqs'[c], pty'[c])
    BY <2>1, <2>2 DEF OneTask, Matches, RequestOf
  <2>5. OneTask(c)'
    BY <1>1, <2>1, <2>2, <2>3, <2>4 DEF OneTask
  <2> QED  BY <1>1, <1>4, <2>1, <2>2, <2>3, <2>5
<1> QED  BY <1>3, <1>4

LEMMA GrantedKeeps ==
  ASSUME ResizeAssumption, TypeOK, NEW c \in Client, Granted(c), Always(c)
  PROVE  Always(c)' /\ (InTime(c) => InTime(c)')
<1> DEFINE p == pty[c]
           n == pty'[c]
           e == Head(feed[c]).epoch
           q == [p EXCEPT !.epoch = e, !.lease = e, !.readOnly = FALSE, !.astray = FALSE]
<1>1. /\ feed[c] \in Seq(Event) /\ feed[c] # <<>> /\ feed'[c] = Tail(feed[c])
      /\ Head(feed[c]).ev = "granted" /\ Head(feed[c]) \in Event
      /\ \A k : Has(feed[c], k) <=> k = "granted" \/ Has(feed'[c], k)
      /\ \A f : Holds(feed[c], f) <=> f = Head(feed[c]) \/ Holds(feed'[c], f)
      /\ owner' = owner /\ recorded' = recorded /\ serving' = serving
      /\ (Unannounced' <=> Unannounced)
      /\ OneAnswer(feed'[c]) /\ LastSize(feed'[c], recorded')
      /\ GrantsUpTo(feed'[c], owner.epoch, c = owner.client)
  BY ReceivesIs DEF Granted
<1>2. /\ fit' = fit /\ grid' = grid /\ c \in frames' /\ p \in AgentPty
      /\ owner.epoch \in Nat /\ e \in Epoch /\ e \in Nat /\ e # 0
      /\ e <= owner.epoch /\ (e = owner.epoch => c = owner.client)
      /\ (Head(feed[c]) = GrantOf(owner.epoch) <=> e = owner.epoch)
  <2>1. e \in Epoch /\ Head(feed[c]) = GrantOf(e)
    BY <1>1 DEF Event, GrantOf
  <2>2. e <= owner.epoch /\ (e = owner.epoch => c = owner.client)
    BY <1>1, ClientTypes, GrantsTail DEF Always, Epochs
  <2> QED  BY <2>1, <2>2, ClientTypes DEF Granted, Epoch, GrantOf
<1>3. /\ q \in AgentPty /\ q.want = p.want /\ ~q.readOnly /\ q.epoch = e /\ q.lease = e
      /\ q.generation = p.generation /\ q.astray = FALSE /\ q.missed = p.missed
      /\ q.pump = p.pump /\ p.want \in Size
  BY <1>2 DEF AgentPty
<1>4. enqueueResize(c, q, q.want)
  BY DEF Granted
<1> HIDE DEF q
<1>5. /\ n.want = p.want /\ ~n.readOnly /\ n.epoch = e
      /\ n.lease = e /\ n.generation = p.generation /\ ~n.astray
      /\ n.missed = p.missed /\ n.pump # None /\ OneTask(c)' /\ At(c)' = At(c)
      /\ p.pump = None =>
           /\ n.pending = None
           /\ n.pump = [size |-> p.want, epoch |-> e, refresh |-> -1]
           /\ ~Accepted(c)' /\ ~Acked(c)' /\ ~Refreshes(c)'
      /\ p.pump # None =>
           /\ n.pump = p.pump /\ n.pending = p.want
           /\ Resizes(c)' <=> Resizes(c)
           /\ Refreshes(c)' <=> Refreshes(c)
           /\ Acked(c)' <=> Acked(c)
  <2>1. \A k \in {"ack", "refused", "sessions"} : Has(feed'[c], k) <=> Has(feed[c], k)
    BY <1>1
  <2> QED  BY <1>1, <1>3, <1>4, <2>1, EnqueueKeep DEF Always
<1>6. p.want # None /\ (Knows(c)' <=> e = owner.epoch)
  BY <1>1, <1>3, <1>5 DEF ResizeAssumption, Knows
<1> HIDE DEF n
<1>7. PtyWhole(c)'
  BY <1>2, <1>5, <1>6 DEF Always, PtyWhole, n, Resizes
<1>8. Epochs(c)'
  <2>1. Has(feed'[c], "refused") => p.pump # None
    BY <1>1 DEF Always, OneTask, Resizes
  <2> QED  BY <1>1, <1>2, <1>5, <1>6, <2>1 DEF Always, Epochs, n
<1>9. ListTrue(c)'
  <2>1. ListsAre(feed[c], recorded) => ListsAre(feed'[c], recorded)
    BY <1>1, ListsTail
  <2> QED  BY <1>1, <1>5, <2>1 DEF Always, ListTrue, n
<1>10. ASSUME InTime(c) PROVE InTime(c)'
  <2>1. Holder(c)'
    <3>1. SUFFICES ASSUME c = owner.client PROVE Holder(c)'
      BY <1>1 DEF Holder
    <3>2. Reign(feed[c], Knows(c), owner.epoch) /\ Knows(c) \in BOOLEAN
      BY <1>10, <3>1 DEF InTime, Holder, Knows
    <3>3. Knows(c) => e = owner.epoch
      BY <1>1, <3>2, ReignTail
    <3>4. Reign(feed[c], Knows(c), owner.epoch)'
      <4>1. Reign(feed'[c], Knows(c) \/ Head(feed[c]) = GrantOf(owner.epoch), owner.epoch)
        BY <1>1, <3>2, ReignTail
      <4> QED  BY <1>1, <1>2, <1>6, <3>3, <4>1 DEF Reign
    <3>5. Knows(c)' /\ Has(feed'[c], "size") => Acked(c)' /\ SizesAre(feed'[c], n.pump.size)
      <4>1. SUFFICES ASSUME e = owner.epoch, Has(feed'[c], "size")
                     PROVE  Acked(c)' /\ SizesAre(feed'[c], n.pump.size)
        BY <1>6
      <4>2. Knows(c)
        BY <1>1, <1>2, <3>2, <4>1, ReignTail
      <4>3. Acked(c) /\ SizesAre(feed[c], p.pump.size)
        BY <1>1, <1>10, <3>1, <4>1, <4>2 DEF InTime, Holder
      <4>4. p.pump # None
        BY <4>3, NothingAsked DEF Always
      <4> QED  BY <1>1, <1>5, <4>3, <4>4, SizesTail
    <3>6. n.pump.epoch = owner.epoch => e = owner.epoch
      BY <1>5, <1>10, <3>1, <3>3 DEF InTime, Holder
    <3>7. ~(e = owner.epoch) => At(c) \in Granting \/ Holds(feed'[c], GrantOf(owner.epoch))
      BY <1>1, <1>2, <1>10, <3>1, <3>3 DEF InTime, Holder
    <3>8. At(c) \in Resizing => e = owner.epoch
      BY <1>10, <3>1, <3>3 DEF InTime, Holder
    <3>9. At(c) = "announce" => e # owner.epoch /\ ~Holds(feed'[c], GrantOf(owner.epoch))
      BY <1>1, <1>2, <1>10, <3>1 DEF InTime, Holder
    <3> QED  BY <1>1, <1>5, <1>6, <3>4, <3>5, <3>6, <3>7, <3>8, <3>9 DEF Holder, n
  <2>2. Warned(c)' /\ Shielded(c)'
    BY <1>5, <1>6 DEF Warned, Shielded, n
  <2>3. AsksForWant(c)'
    BY <1>5, <1>6 DEF AsksForWant, n
  <2>4. Draws(c)'
    BY <1>5, <1>6 DEF Draws, n
  <2>5. Fits(c)'
    BY <1>2 DEF Fits
  <2> QED  BY <2>1, <2>2, <2>3, <2>4, <2>5 DEF InTime
<1> QED  BY <1>1, <1>5, <1>7, <1>8, <1>9, <1>10 DEF Always

LEMMA FrameKeeps ==
  ASSUME ResizeAssumption, TypeOK, NEW c \in Client, Frame(c), Always(c)
  PROVE  Always(c)' /\ (InTime(c) => InTime(c)')
<1> DEFINE p == pty[c]
           n == pty'[c]
           q == [p EXCEPT !.want = fit[c]]
<1>1. /\ owner' = owner /\ recorded' = recorded /\ serving' = serving /\ feed' = feed
      /\ fit' = fit /\ c \notin frames' /\ p \in AgentPty /\ owner.epoch \in Nat
      /\ (Unannounced' <=> Unannounced) /\ At(c)' = At(c) /\ fit[c] \in Size
  BY ClientTypes DEF Frame, agentVars, Unannounced, At
<1>2. ASSUME InTime(c) PROVE Reign(feed[c], Knows(c), owner.epoch) \/ c # owner.client
  BY <1>2 DEF InTime, Holder
<1>3. ASSUME ~p.readOnly, fit[c] # grid[c] PROVE Always(c)' /\ (InTime(c) => InTime(c)')
  <2>1. /\ q \in AgentPty /\ q.want = fit[c] /\ ~q.readOnly /\ q.epoch = p.epoch
        /\ q.lease = p.lease /\ q.generation = p.generation /\ q.astray = p.astray
        /\ q.missed = p.missed /\ q.pump = p.pump
    BY <1>1, <1>3 DEF AgentPty
  <2>2. enqueueResize(c, q, fit[c]) /\ grid'[c] = fit[c]
    BY <1>3 DEF Frame, fitSession, TypeOK
  <2> HIDE DEF q
  <2>3. /\ n.want = fit[c] /\ ~n.readOnly /\ n.epoch = p.epoch
        /\ n.lease = p.lease /\ n.generation = p.generation /\ n.astray = p.astray
        /\ n.missed = p.missed /\ n.pump # None /\ OneTask(c)'
        /\ p.pump = None =>
             /\ n.pending = None
             /\ n.pump = [size |-> fit[c], epoch |-> p.epoch, refresh |-> -1]
             /\ ~Accepted(c)' /\ ~Acked(c)' /\ ~Refreshes(c)'
        /\ p.pump # None =>
             /\ n.pump = p.pump /\ n.pending = fit[c]
             /\ Resizes(c)' <=> Resizes(c)
             /\ Refreshes(c)' <=> Refreshes(c)
             /\ Acked(c)' <=> Acked(c)
    BY <1>1, <2>1, <2>2, EnqueueKeep DEF Always, OneTask
  <2>4. fit[c] # None /\ (Knows(c)' <=> Knows(c))
    BY <1>1, <2>3 DEF ResizeAssumption, Knows
  <2> HIDE DEF n
  <2>5. PtyWhole(c)'
    BY <1>1, <1>3, <2>2, <2>3, <2>4 DEF Always, PtyWhole, n, Resizes
  <2>6. Epochs(c)'
    <3>1. Has(feed[c], "refused") => p.pump # None
      BY DEF Always, OneTask, Resizes
    <3> QED  BY <1>1, <2>3, <2>4, <3>1 DEF Always, Epochs, Knows, n
  <2>7. ListTrue(c)'
    BY <1>1, <2>3 DEF Always, ListTrue, n
  <2>8. ASSUME InTime(c) PROVE InTime(c)'
    <3>1. Holder(c)'
      <4>1. SUFFICES ASSUME c = owner.client PROVE Holder(c)'
        BY <1>1 DEF Holder
      <4>2. Reign(feed[c], Knows(c), owner.epoch)'
        BY <1>1, <1>2, <2>4, <2>8, <4>1 DEF Reign
      <4>3. Knows(c) /\ Has(feed[c], "size") => Acked(c)' /\ SizesAre(feed[c], n.pump.size)
        <5>1. SUFFICES ASSUME Knows(c), Has(feed[c], "size")
                       PROVE  Acked(c)' /\ SizesAre(feed[c], n.pump.size)
          OBVIOUS
        <5>2. Acked(c) /\ SizesAre(feed[c], p.pump.size)
          BY <2>8, <4>1, <5>1 DEF InTime, Holder
        <5>3. p.pump # None
          BY <5>2, NothingAsked DEF Always
        <5> QED  BY <2>3, <5>2, <5>3
      <4>4. n.pump.epoch = owner.epoch => Knows(c)
        BY <2>3, <2>8, <4>1 DEF InTime, Holder, Knows
      <4> QED  BY <1>1, <2>3, <2>4, <2>8, <4>1, <4>2, <4>3, <4>4 DEF InTime, Holder, n
    <3>2. Warned(c)' /\ Shielded(c)'
      BY <2>3, <2>4 DEF Warned, Shielded, n
    <3>3. AsksForWant(c)'
      BY <2>3, <2>4 DEF AsksForWant, n
    <3>4. Draws(c)'
      BY <2>3, <2>4 DEF Draws, n
    <3>5. Fits(c)'
      BY <1>1, <2>3 DEF Fits, n
    <3> QED  BY <3>1, <3>2, <3>3, <3>4, <3>5 DEF InTime
  <2> QED  BY <1>1, <2>3, <2>5, <2>6, <2>7, <2>8 DEF Always
<1>4. ASSUME p.readOnly \/ fit[c] = grid[c] PROVE Always(c)' /\ (InTime(c) => InTime(c)')
  <2>1. pty' = pty /\ grid' = grid /\ reqs' = reqs
    BY <1>1, <1>4 DEF Frame, fitSession, AgentPty
  <2>2. (Knows(c)' <=> Knows(c)) /\ (Doomed(c)' <=> Doomed(c))
        /\ (Accepted(c)' <=> Accepted(c)) /\ (Acked(c)' <=> Acked(c))
        /\ (Fresh(c)' <=> Fresh(c)) /\ (Resizes(c)' <=> Resizes(c))
        /\ (Refreshes(c)' <=> Refreshes(c))
    BY <1>1, <2>1 DEF Knows, Doomed, Accepted, Acked, Fresh, Resizes, Refreshes
  <2>3. OneTask(c)' /\ PtyWhole(c)'
    BY <1>1, <2>1, <2>2 DEF Always, OneTask, PtyWhole
  <2>4. Epochs(c)' /\ LastSize(feed[c], recorded)' /\ ListTrue(c)'
    BY <1>1, <2>1, <2>2 DEF Always, Epochs, ListTrue
  <2>5. ASSUME InTime(c) PROVE InTime(c)'
    <3>1. Reign(feed[c], Knows(c), owner.epoch) => Reign(feed[c], Knows(c), owner.epoch)'
      BY <1>1, <2>2 DEF Reign
    <3>2. Holder(c)'
      BY <1>1, <2>1, <2>2, <2>5, <3>1 DEF Holder, InTime
    <3>3. Warned(c)' /\ Shielded(c)' /\ AsksForWant(c)'
      BY <1>1, <2>1, <2>2, <2>5 DEF Warned, Shielded, AsksForWant, InTime
    <3>4. Draws(c)'
      BY <1>1, <2>1, <2>2, <2>5 DEF Draws, InTime
    <3>5. Fits(c)'
      BY <1>1, <1>4, <2>1, <2>2, <2>5 DEF Fits, InTime, Holder, Always, PtyWhole
    <3> QED  BY <3>2, <3>3, <3>4, <3>5 DEF InTime
  <2> QED  BY <2>3, <2>4, <2>5 DEF Always
<1> QED  BY <1>1, <1>3, <1>4 DEF AgentPty

-----------------------------------------------------------------------------
(* What the others see of a step.                                          *)

\* A step of c that no other client sees.
UnseenByOthers(c) ==
  /\ owner' = owner /\ recorded' = recorded /\ (Unannounced => Unannounced')
  /\ \A d \in Client \ {c} : Still(d) /\ feed'[d] = feed[d]

LEMMA AgentIsLocal ==
  ASSUME TypeOK, NEW c \in Client,
         \/ Take(c) \/ Compare(c) \/ SetGrid(c) \/ Acknowledge(c) \/ Grant(c)
         \/ List(c) \/ Listed(c) \/ (Acquire(c) /\ owner.client = c)
  PROVE  UnseenByOthers(c)
<1>1. SUFFICES ASSUME NEW d \in Client \ {c}
               PROVE  /\ owner' = owner /\ recorded' = recorded /\ (Unannounced => Unannounced')
                      /\ Still(d) /\ feed'[d] = feed[d]
  BY DEF UnseenByOthers, Take, Compare, SetGrid, Acknowledge, Grant, List, Listed, Acquire, Unannounced,
         Answer, TypeOK
<1>2. CASE Take(c)
  BY <1>2 DEF Take, Answer, clientVars, Still, TypeOK, Unannounced
<1>3. CASE Compare(c)
  BY <1>3 DEF Compare, Answer, clientVars, Still, TypeOK, Unannounced
<1>4. CASE SetGrid(c)
  BY <1>4 DEF SetGrid, clientVars, Still, TypeOK, Unannounced
<1>5. CASE Acknowledge(c)
  BY <1>5 DEF Acknowledge, Answer, clientVars, Still, TypeOK, Unannounced
<1>6. CASE Grant(c)
  BY <1>6 DEF Grant, Answer, clientVars, Still, TypeOK, Unannounced
<1>7. CASE List(c)
  BY <1>7 DEF List, clientVars, Still, TypeOK, Unannounced
<1>8. CASE Listed(c)
  BY <1>8 DEF Listed, Answer, clientVars, Still, TypeOK, Unannounced
<1>9. CASE Acquire(c) /\ owner.client = c
  BY <1>9 DEF Acquire, Answer, clientVars, Still, TypeOK, Unannounced
<1> QED  BY <1>2, <1>3, <1>4, <1>5, <1>6, <1>7, <1>8, <1>9

LEMMA ClientIsLocal ==
  ASSUME TypeOK, NEW c \in Client,
         \/ Frame(c) \/ Granted(c) \/ ControlChanged(c) \/ SizeChanged(c)
         \/ Acknowledged(c) \/ Refused(c) \/ Sessions(c) \/ takeControl(c)
         \/ \E size \in Size : ResizeContainer(c, size)
  PROVE  UnseenByOthers(c) /\ ptySize' = ptySize /\ serving' = serving /\ late' = late
<1>1. owner' = owner /\ recorded' = recorded /\ ptySize' = ptySize /\ serving' = serving
      /\ late' = late
  BY DEF Frame, Granted, ControlChanged, SizeChanged, Acknowledged, Refused, Sessions,
         takeControl, ResizeContainer, Receives, agentVars
<1>2. Unannounced' <=> Unannounced
  BY <1>1 DEF Unannounced
<1>3. ASSUME NEW p, Pumps(c, p), NEW d \in Client \ {c}
      PROVE  pty'[d] = pty[d] /\ reqs'[d] = reqs[d]
  BY <1>3 DEF Pumps, TypeOK
<1>4. ASSUME NEW p, NEW size, enqueueResize(c, p, size), NEW d \in Client \ {c}
      PROVE  pty'[d] = pty[d] /\ reqs'[d] = reqs[d]
  BY <1>3, <1>4 DEF enqueueResize, TypeOK
<1>5. ASSUME NEW d \in Client \ {c} PROVE Still(d) /\ feed'[d] = feed[d]
  <2>1. CASE Frame(c)
    <3>1. grid'[d] = grid[d] /\ pty'[d] = pty[d] /\ reqs'[d] = reqs[d]
      BY <1>4, <1>5, <2>1 DEF Frame, fitSession, TypeOK
    <3> QED  BY <1>1, <2>1, <3>1 DEF Frame, Still, TypeOK
  <2>2. CASE Granted(c)
    <3>1. pty'[d] = pty[d] /\ reqs'[d] = reqs[d]
      BY <1>4, <1>5, <2>2 DEF Granted
    <3> QED  BY <1>1, <2>2, <3>1 DEF Granted, Receives, Still, TypeOK
  <2>3. CASE ControlChanged(c)
    BY <1>1, <2>3 DEF ControlChanged, Receives, Still, TypeOK
  <2>4. CASE SizeChanged(c)
    BY <1>1, <2>4 DEF SizeChanged, Applies, Receives, Still, TypeOK
  <2>5. CASE Acknowledged(c)
    <3>1. pty'[d] = pty[d] /\ reqs'[d] = reqs[d]
      BY <1>3, <1>5, <2>5 DEF Acknowledged
    <3> QED  BY <1>1, <2>5, <3>1 DEF Acknowledged, Receives, Still, TypeOK
  <2>6. CASE Refused(c)
    <3>1. pty'[d] = pty[d] /\ reqs'[d] = reqs[d]
      BY <1>3, <1>5, <2>6 DEF Refused, TypeOK
    <3> QED  BY <1>1, <2>6, <3>1 DEF Refused, Receives, Still, TypeOK
  <2>7. CASE Sessions(c)
    <3>1. pty'[d] = pty[d] /\ reqs'[d] = reqs[d]
      BY <1>3, <1>5, <2>7 DEF Sessions
    <3> QED  BY <1>1, <2>7, <3>1 DEF Sessions, Receives, Still, TypeOK
  <2>8. CASE takeControl(c)
    BY <1>1, <2>8 DEF takeControl, Still, TypeOK
  <2>9. CASE \E size \in Size : ResizeContainer(c, size)
    BY <1>1, <2>9 DEF ResizeContainer, Still, TypeOK
  <2> QED  BY <2>1, <2>2, <2>3, <2>4, <2>5, <2>6, <2>7, <2>8, <2>9
<1> QED  BY <1>1, <1>2, <1>5 DEF UnseenByOthers

\* The grid of the PTY is recorded, or about to be, when a step does not touch it.
LEMMA RecordedKept ==
  ASSUME TypeOK, NEW c \in Client, ptySize' = ptySize, recorded' = recorded,
         owner' = owner \/ owner'.client = c, At(c) # "record", At(c)' # "record",
         \A d \in Client \ {c} : serving'[d] = serving[d], Recorded
  PROVE  Recorded'
<1>1. \A d \in Client \ {c} : At(d)' = At(d) /\ serving'[d] = serving[d]
  BY DEF At
<1>2. owner.client \in Client
  BY ClientTypes
<1>3. (At(owner.client) = "record" => ptySize = serving[owner.client].size)'
  <2>1. CASE owner'.client = c
    BY <2>1 DEF At
  <2>2. CASE owner' = owner /\ owner.client # c
    <3>1. At(owner.client) = "record" => ptySize = serving[owner.client].size
      BY DEF Recorded
    <3> QED  BY <1>1, <1>2, <2>2, <3>1 DEF At
  <2> QED  BY <2>1, <2>2
<1>4. ASSUME NEW d \in Client, At(d) = "record", serving[d].size = ptySize
      PROVE  At(d)' = "record" /\ serving'[d].size = ptySize'
  BY <1>1, <1>4
<1> QED  BY <1>3, <1>4 DEF Recorded

-----------------------------------------------------------------------------
(* The types.                                                              *)

LEMMA PumpsTyped ==
  ASSUME ResizeAssumption, TypeOK, NEW c \in Client, NEW p \in AgentPty, Pumps(c, p)
  PROVE  pty' \in [Client -> AgentPty] /\ reqs' \in [Client -> Seq(Request)]
<1>1. pty'[c] \in AgentPty
  BY PumpsIs
<1>2. pty' \in [Client -> AgentPty]
  BY <1>1 DEF Pumps, TypeOK
<1>3. reqs'[c] \in Seq(Request)
  <2> DEFINE r == [req |-> "resize", size |-> p.pending, epoch |-> p.epoch]
  <2>1. reqs'[c] = reqs[c] \/ (reqs'[c] = Append(reqs[c], r) /\ r \in Request)
    BY PumpsIs
  <2>2. reqs[c] \in Seq(Request)
    BY ClientTypes
  <2> HIDE DEF r
  <2>3. r \in Request => Append(reqs[c], r) \in Seq(Request)
    BY <2>2, AppendIs
  <2> QED  BY <2>1, <2>2, <2>3
<1>4. reqs' \in [Client -> Seq(Request)]
  BY <1>3 DEF Pumps, TypeOK
<1> QED  BY <1>2, <1>4

LEMMA EnqueueTyped ==
  ASSUME ResizeAssumption, TypeOK, NEW c \in Client, NEW p \in AgentPty, NEW size \in Size,
         enqueueResize(c, p, size)
  PROVE  pty' \in [Client -> AgentPty] /\ reqs' \in [Client -> Seq(Request)]
<1> DEFINE q == [p EXCEPT !.pending = size]
<1>1. q \in AgentPty
  BY DEF AgentPty
<1>2. CASE p.pump = None
  <2>1. Pumps(c, q)
    BY <1>2 DEF enqueueResize
  <2> QED  BY <1>1, <2>1, PumpsTyped
<1>3. CASE p.pump # None
  BY <1>1, <1>3 DEF enqueueResize, TypeOK
<1> QED  BY <1>2, <1>3

LEMMA AnswerTyped ==
  ASSUME TypeOK, NEW c \in Client, NEW e \in Event, Answer(c, e)
  PROVE  feed' \in [Client -> Seq(Event)] /\ serving' \in [Client -> Serving \cup {None}]
  BY DEF Answer, TypeOK

LEMMA AgentTyped ==
  ASSUME ResizeAssumption, TypeOK, NEW c \in Client,
         \/ Take(c) \/ Compare(c) \/ SetGrid(c) \/ Record(c) \/ Acknowledge(c)
         \/ Acquire(c) \/ AnnounceControl(c) \/ Grant(c) \/ List(c) \/ Listed(c)
  PROVE  TypeOK'
<1>1. clientVars' = clientVars
  BY DEF Take, Compare, SetGrid, Record, Acknowledge, Acquire, AnnounceControl, Grant, List, Listed
<1>2. /\ fit' \in [Client -> Size] /\ grid' \in [Client -> Size]
      /\ pty' \in [Client -> AgentPty] /\ frames' \subseteq Client
      /\ fits' \in 0..MaxFits /\ takes' \in 0..MaxTakes
  BY <1>1 DEF clientVars, TypeOK
<1>3. SUFFICES /\ ptySize' \in Size /\ recorded' \in Size
               /\ owner' \in [client : Client, epoch : Epoch]
               /\ reqs' \in [Client -> Seq(Request)] /\ feed' \in [Client -> Seq(Event)]
               /\ serving' \in [Client -> Serving \cup {None}] /\ late' \in BOOLEAN
  BY <1>2 DEF TypeOK
<1>4. [ev |-> "ack"] \in Event /\ [ev |-> "refused"] \in Event
  BY DEF Event
<1>5. CASE Take(c)
  <2> DEFINE r == Head(reqs[c])
  <2>1. reqs[c] \in Seq(Request) /\ reqs[c] # <<>> /\ r \in Request /\ Tail(reqs[c]) \in Seq(Request)
    BY <1>5, TailIs, ClientTypes DEF Take
  <2>2. CASE r.req = "resize" /\ owner # [client |-> c, epoch |-> r.epoch]
    <3>1. Answer(c, [ev |-> "refused"])
      BY <1>5, <2>2 DEF Take
    <3> QED  BY <1>4, <1>5, <2>1, <3>1, AnswerTyped DEF Take, TypeOK
  <2>3. CASE ~(r.req = "resize" /\ owner # [client |-> c, epoch |-> r.epoch])
    <3>1. (IF r.req = "resize" THEN [at |-> "compare", size |-> r.size]
           ELSE [at |-> r.req, size |-> None]) \in Serving
      BY <2>1 DEF Request, Serving
    <3> QED  BY <1>5, <2>1, <2>3, <3>1 DEF Take, TypeOK
  <2> QED  BY <2>2, <2>3
<1>6. CASE Compare(c)
  <2>1. CASE serving[c].size = recorded
    BY <1>4, <1>6, <2>1, AnswerTyped DEF Compare, TypeOK
  <2>2. CASE serving[c].size # recorded
    <3>1. serving[c] \in Serving /\ serving[c].at = "compare"
      BY <1>6, ClientTypes DEF Compare
    <3>2. [serving[c] EXCEPT !.at = "set"] \in Serving
      BY <3>1 DEF Serving
    <3> QED  BY <1>6, <2>2, <3>2 DEF Compare, TypeOK
  <2> QED  BY <2>1, <2>2
<1>7. CASE SetGrid(c)
  <2>1. serving[c] \in Serving /\ serving[c].at = "set"
    BY <1>7, ClientTypes DEF SetGrid
  <2>2. [serving[c] EXCEPT !.at = "record"] \in Serving /\ serving[c].size \in Size
    BY <2>1 DEF Serving
  <2> QED  BY <1>7, <2>2 DEF SetGrid, TypeOK
<1>8. CASE Record(c)
  <2>1. serving[c] \in Serving /\ serving[c].at = "record"
    BY <1>8, ClientTypes DEF Record
  <2>2. [serving[c] EXCEPT !.at = "recorded"] \in Serving /\ serving[c].size \in Size
    BY <2>1 DEF Serving
  <2>3. [ev |-> "size", size |-> serving[c].size] \in Event
    BY <2>2 DEF Event
  <2> QED  BY <1>8, <2>2, <2>3 DEF Record, Announce, TypeOK
<1>9. CASE Acknowledge(c)
  BY <1>4, <1>9, AnswerTyped DEF Acknowledge, TypeOK
<1>10. CASE Acquire(c)
  <2>1. CASE owner.client = c
    <3>1. [ev |-> "granted", epoch |-> owner.epoch] \in Event
      BY DEF Event, TypeOK
    <3> QED  BY <1>10, <2>1, <3>1, AnswerTyped DEF Acquire, TypeOK
  <2>2. CASE owner.client # c
    <3>1. owner.epoch + 1 \in Epoch
      BY DEF TypeOK, Epoch
    <3>2. [at |-> "announce", size |-> owner.epoch + 1] \in Serving
      BY <3>1 DEF Serving
    <3>3. owner' = [client |-> c, epoch |-> owner.epoch + 1] /\ feed' = feed
          /\ serving' = [serving EXCEPT ![c] = [at |-> "announce", size |-> owner.epoch + 1]]
      BY <1>10, <2>2 DEF Acquire
    <3>4. owner' \in [client : Client, epoch : Epoch]
      BY <3>1, <3>3
    <3>5. serving' \in [Client -> Serving \cup {None}]
      BY <3>2, <3>3 DEF TypeOK
    <3> QED  BY <1>10, <3>3, <3>4, <3>5 DEF Acquire, TypeOK
  <2> QED  BY <2>1, <2>2
<1>11. CASE AnnounceControl(c)
  <2>1. serving[c] \in Serving /\ serving[c].at = "announce"
    BY <1>11, ClientTypes DEF AnnounceControl
  <2>2. [serving[c] EXCEPT !.at = "granted"] \in Serving /\ serving[c].size \in Epoch
    BY <2>1 DEF Serving
  <2>3. [ev |-> "control", epoch |-> serving[c].size] \in Event
    BY <2>2 DEF Event
  <2> QED  BY <1>11, <2>2, <2>3 DEF AnnounceControl, Announce, TypeOK
<1>12. CASE Grant(c)
  <2>1. serving[c] \in Serving /\ serving[c].at = "granted"
    BY <1>12, ClientTypes DEF Grant
  <2>2. [ev |-> "granted", epoch |-> serving[c].size] \in Event
    BY <2>1 DEF Serving, Event
  <2> QED  BY <1>12, <2>2, AnswerTyped DEF Grant, TypeOK
<1>13. CASE List(c)
  <2>1. [at |-> "listed", size |-> recorded] \in Serving
    BY ClientTypes DEF Serving
  <2> QED  BY <1>13, <2>1 DEF List, TypeOK
<1>14. CASE Listed(c)
  <2>1. serving[c] \in Serving /\ serving[c].at = "listed"
    BY <1>14, ClientTypes DEF Listed
  <2>2. [ev |-> "sessions", size |-> serving[c].size] \in Event
    BY <2>1 DEF Serving, Event
  <2> QED  BY <1>14, <2>2, AnswerTyped DEF Listed, TypeOK
<1> QED  BY <1>5, <1>6, <1>7, <1>8, <1>9, <1>10, <1>11, <1>12, <1>13, <1>14

LEMMA ClientTyped ==
  ASSUME ResizeAssumption, TypeOK, NEW c \in Client, Always(c),
         \/ Frame(c) \/ Granted(c) \/ ControlChanged(c) \/ SizeChanged(c)
         \/ Acknowledged(c) \/ Refused(c) \/ Sessions(c) \/ takeControl(c)
         \/ \E size \in Size : ResizeContainer(c, size)
  PROVE  TypeOK'
<1>1. agentVars' = agentVars
  BY DEF Frame, Granted, ControlChanged, SizeChanged, Acknowledged, Refused, Sessions,
         takeControl, ResizeContainer, Receives
<1>2. /\ ptySize' \in Size /\ recorded' \in Size /\ owner' \in [client : Client, epoch : Epoch]
      /\ serving' \in [Client -> Serving \cup {None}] /\ late' \in BOOLEAN
  BY <1>1 DEF agentVars, TypeOK
<1>3. SUFFICES /\ reqs' \in [Client -> Seq(Request)] /\ feed' \in [Client -> Seq(Event)]
               /\ fit' \in [Client -> Size] /\ grid' \in [Client -> Size]
               /\ pty' \in [Client -> AgentPty] /\ frames' \subseteq Client
               /\ fits' \in 0..MaxFits /\ takes' \in 0..MaxTakes
  BY <1>2 DEF TypeOK
<1>4. ASSUME NEW kind, Receives(c, kind)
      PROVE  /\ feed' \in [Client -> Seq(Event)] /\ Head(feed[c]) \in Event
             /\ Head(feed[c]).ev = kind
  <2>1. Tail(feed[c]) \in Seq(Event) /\ Head(feed[c]) \in Event /\ Head(feed[c]).ev = kind
    BY <1>4, TailIs, ClientTypes DEF Receives
  <2> QED  BY <1>4, <2>1 DEF Receives, TypeOK
<1>5. pty[c] \in AgentPty /\ fit[c] \in Size
  BY ClientTypes
<1>6. CASE Frame(c)
  <2>1. CASE ~pty[c].readOnly /\ fit[c] # grid[c]
    <3>1. [pty[c] EXCEPT !.want = fit[c]] \in AgentPty
      BY <1>5 DEF AgentPty
    <3>2. pty' \in [Client -> AgentPty] /\ reqs' \in [Client -> Seq(Request)]
      BY <1>5, <1>6, <2>1, <3>1, EnqueueTyped DEF Frame, fitSession
    <3> QED  BY <1>6, <2>1, <3>2 DEF Frame, fitSession, TypeOK
  <2>2. CASE ~(~pty[c].readOnly /\ fit[c] # grid[c])
    BY <1>6, <2>2 DEF Frame, fitSession, TypeOK
  <2> QED  BY <2>1, <2>2
<1>7. CASE Granted(c)
  <2> DEFINE e == Head(feed[c]).epoch
             q == [pty[c] EXCEPT !.epoch = e, !.lease = e, !.readOnly = FALSE, !.astray = FALSE]
  <2>1. feed' \in [Client -> Seq(Event)] /\ e \in Nat
    BY <1>4, <1>7 DEF Granted, Event, Epoch
  <2>2. q \in AgentPty /\ q.want \in Size
    BY <1>5, <2>1 DEF AgentPty
  <2>3. enqueueResize(c, q, q.want)
    BY <1>7 DEF Granted
  <2>4. pty' \in [Client -> AgentPty] /\ reqs' \in [Client -> Seq(Request)]
    BY <2>2, <2>3, EnqueueTyped
  <2> QED  BY <1>7, <2>1, <2>4 DEF Granted, TypeOK
<1>8. CASE ControlChanged(c)
  <2>1. LoseControl(pty[c]) \in AgentPty
    BY <1>5 DEF LoseControl, AgentPty
  <2>2. feed' \in [Client -> Seq(Event)]
    BY <1>4, <1>8 DEF ControlChanged
  <2> QED  BY <1>8, <2>1, <2>2 DEF ControlChanged, TypeOK
<1>9. CASE SizeChanged(c)
  <2> DEFINE s == Head(feed[c]).size
  <2>1. feed' \in [Client -> Seq(Event)] /\ s \in Size
    BY <1>4, <1>9 DEF SizeChanged, Event
  <2>2. /\ [pty[c] EXCEPT !.missed = TRUE] \in AgentPty
        /\ [pty[c] EXCEPT !.want = s, !.generation = @ + 1, !.astray = FALSE] \in AgentPty
    <3>1. [pty[c] EXCEPT !.missed = TRUE] \in AgentPty
      BY <1>5 DEF AgentPty
    <3>2. pty[c].generation + 1 \in Nat
      BY <1>5 DEF AgentPty
    <3>3. [pty[c] EXCEPT !.want = s, !.generation = @ + 1, !.astray = FALSE] \in AgentPty
      BY <1>5, <2>1, <3>2 DEF AgentPty
    <3> QED  BY <3>1, <3>3
  <2>3. \/ pty' = [pty EXCEPT ![c].missed = TRUE] /\ grid' = grid
        \/ Applies(c, s)
    BY <1>9 DEF SizeChanged
  <2>4. pty' \in [Client -> AgentPty] /\ grid' \in [Client -> Size]
    <3>1. CASE pty' = [pty EXCEPT ![c].missed = TRUE] /\ grid' = grid
      BY <2>2, <3>1 DEF TypeOK
    <3>2. CASE Applies(c, s)
      BY <2>1, <2>2, <3>2 DEF Applies, TypeOK
    <3> QED  BY <2>3, <3>1, <3>2
  <2> QED  BY <1>9, <2>1, <2>4 DEF SizeChanged, TypeOK
<1>10. CASE Acknowledged(c)
  <2>1. pty' \in [Client -> AgentPty] /\ reqs' \in [Client -> Seq(Request)]
    BY <1>5, <1>10, PumpsTyped DEF Acknowledged
  <2>2. feed' \in [Client -> Seq(Event)]
    BY <1>4, <1>10 DEF Acknowledged
  <2> QED  BY <1>10, <2>1, <2>2 DEF Acknowledged, TypeOK
<1>11. CASE Refused(c)
  <2> DEFINE q == IF pty[c].lease \in {0, pty[c].pump.epoch} THEN LoseControl(pty[c]) ELSE pty[c]
  <2>1. feed' \in [Client -> Seq(Event)]
    BY <1>4, <1>11 DEF Refused
  <2>2. q \in AgentPty /\ q.pump = pty[c].pump /\ [req |-> "list"] \in Request
    BY <1>5 DEF LoseControl, AgentPty, Request
  <2>3. q.pump \in Pump
    <3>1. Has(feed[c], "refused")
      BY <1>11, ReceivesIs DEF Refused
    <3>2. pty[c].pump # None
      BY <3>1 DEF Always, OneTask, Resizes
    <3> QED  BY <1>5, <2>2, <3>2 DEF AgentPty
  <2>4. [q EXCEPT !.pump.refresh = q.generation, !.missed = FALSE] \in AgentPty
    <3>1. [q.pump EXCEPT !.refresh = q.generation] \in Pump
      BY <2>2, <2>3 DEF AgentPty, Pump
    <3> QED  BY <2>2, <3>1 DEF AgentPty
  <2> HIDE DEF q
  <2>5. \/ Pumps(c, q)
        \/ /\ pty' = [pty EXCEPT ![c] = [q EXCEPT !.pump.refresh = q.generation, !.missed = FALSE]]
           /\ reqs' = [reqs EXCEPT ![c] = Append(@, [req |-> "list"])]
    BY <1>11 DEF Refused, q
  <2>6. pty' \in [Client -> AgentPty] /\ reqs' \in [Client -> Seq(Request)]
    <3>1. CASE Pumps(c, q)
      BY <2>2, <3>1, PumpsTyped
    <3>2. CASE /\ pty' = [pty EXCEPT ![c] = [q EXCEPT !.pump.refresh = q.generation, !.missed = FALSE]]
               /\ reqs' = [reqs EXCEPT ![c] = Append(@, [req |-> "list"])]
      BY <2>2, <2>4, <3>2 DEF TypeOK
    <3> QED  BY <2>5, <3>1, <3>2
  <2> QED  BY <1>11, <2>1, <2>6 DEF Refused, TypeOK
<1>12. CASE Sessions(c)
  <2> DEFINE s == Head(feed[c]).size
             fresh == pty[c].pump.refresh = pty[c].generation
             q == IF fresh THEN [pty[c] EXCEPT !.want = s, !.astray = ~pty[c].readOnly \/ pty[c].missed]
                  ELSE pty[c]
  <2>1. feed' \in [Client -> Seq(Event)] /\ s \in Size
    BY <1>4, <1>12 DEF Sessions, Event
  <2>2. q \in AgentPty
    BY <1>5, <2>1 DEF AgentPty
  <2>3. Pumps(c, q) /\ grid' = IF fresh THEN [grid EXCEPT ![c] = s] ELSE grid
    BY <1>12 DEF Sessions
  <2>4. pty' \in [Client -> AgentPty] /\ reqs' \in [Client -> Seq(Request)]
    BY <2>2, <2>3, PumpsTyped
  <2> QED  BY <1>12, <2>1, <2>3, <2>4 DEF Sessions, TypeOK
<1>13. CASE takeControl(c)
  <2>1. [req |-> "acquire"] \in Request
    BY DEF Request
  <2> QED  BY <1>13, <2>1 DEF takeControl, TypeOK, ResizeAssumption
<1>14. CASE \E size \in Size : ResizeContainer(c, size)
  BY <1>14 DEF ResizeContainer, TypeOK, ResizeAssumption
<1> QED  BY <1>6, <1>7, <1>8, <1>9, <1>10, <1>11, <1>12, <1>13, <1>14

-----------------------------------------------------------------------------
(* The invariant.                                                          *)

LEMMA LocalKeeps ==
  ASSUME ResizeInv, NEW c \in Client, UnseenByOthers(c), Always(c)'
  PROVE  /\ \A d \in Client : Always(d)'
         /\ (\A d \in Client : InTime(d)) /\ (InTime(c) => InTime(c)') =>
              \A d \in Client : InTime(d)'
<1>1. ASSUME NEW d \in Client \ {c}
      PROVE  Always(d)' /\ (InTime(d) => InTime(d)')
  BY SameKept DEF UnseenByOthers, ResizeInv
<1> QED  BY <1>1

LEMMA RecordStep ==
  ASSUME ResizeAssumption, ResizeInv, NEW c \in Client, Record(c)
  PROVE  /\ \A d \in Client : Always(d)'
         /\ (\A d \in Client : InTime(d)) /\ ~late' => \A d \in Client : InTime(d)'
<1>1. TypeOK /\ recorded' \in Size /\ At(c) = "record" /\ owner' = owner
      /\ (~late' => c = owner.client)
  <2>1. At(c) = "record"
    BY DEF Record, At
  <2> QED  BY <2>1, ServingTypes DEF Record, ResizeInv, Resizing
<1>2. ~late' => ~Unannounced
  BY <1>1 DEF Unannounced, At, Record
<1>3. ASSUME NEW d \in Client \ {c}
      PROVE  Always(d)' /\ (InTime(d) /\ ~late' => InTime(d)')
  <2>1. Still(d) /\ feed'[d] = Append(feed[d], [ev |-> "size", size |-> recorded'])
    BY <1>1 DEF Record, Announce, Still, clientVars, TypeOK
  <2> QED  BY <1>1, <1>2, <2>1, SizeHeard DEF ResizeInv
<1> QED  BY <1>1, <1>3, RecordKeeps DEF ResizeInv

LEMMA AnnounceControlStep ==
  ASSUME ResizeAssumption, ResizeInv, NEW c \in Client, AnnounceControl(c)
  PROVE  /\ \A d \in Client : Always(d)'
         /\ (\A d \in Client : InTime(d)) /\ ~late' => \A d \in Client : InTime(d)'
<1> DEFINE x == serving[c].size
<1>1. TypeOK /\ At(c) = "announce" /\ x \in Epoch /\ owner' = owner /\ recorded' = recorded
      /\ (~late' => Unannounced)
  <2>1. At(c) = "announce"
    BY DEF AnnounceControl, At
  <2> QED  BY <2>1, ServingTypes DEF AnnounceControl, ResizeInv, Granting
<1>2. (x = owner.epoch <=> c = owner.client)
  BY <1>1 DEF ResizeInv, Always, Epochs, Granting
<1>3. c # owner.client /\ ~late' => Unannounced'
  BY <1>1 DEF AnnounceControl, Unannounced, TypeOK
<1>4. ASSUME NEW d \in Client \ {c}
      PROVE  Always(d)' /\ (InTime(d) /\ ~late' => InTime(d)')
  <2>1. Still(d) /\ feed'[d] = Append(feed[d], ControlOf(x))
    BY <1>1 DEF AnnounceControl, Announce, Still, clientVars, TypeOK, ControlOf
  <2> QED  BY <1>1, <1>2, <1>3, <2>1, ControlHeard DEF ResizeInv
<1> QED  BY <1>1, <1>4, AnnounceControlKeeps DEF ResizeInv

LEMMA AcquireStep ==
  ASSUME ResizeAssumption, ResizeInv, NEW c \in Client, Acquire(c)
  PROVE  /\ \A d \in Client : Always(d)'
         /\ (\A d \in Client : InTime(d)) => \A d \in Client : InTime(d)'
<1>1. TypeOK /\ Always(c)' /\ (InTime(c) => InTime(c)')
  BY AcquireKeeps DEF ResizeInv
<1>2. CASE owner.client = c
  BY <1>1, <1>2, AgentIsLocal, LocalKeeps
<1>3. CASE owner.client # c
  <2>1. /\ owner' = [client |-> c, epoch |-> owner.epoch + 1] /\ recorded' = recorded
        /\ Unannounced'
    BY <1>1, <1>3, ClientTypes
       DEF Acquire, Unannounced, TypeOK, ResizeAssumption, Serving, Epoch
  <2>2. ASSUME NEW d \in Client \ {c}
        PROVE  Always(d)' /\ (InTime(d) => InTime(d)')
    <3>1. Still(d) /\ feed'[d] = feed[d]
      BY <1>1, <1>3 DEF Acquire, Still, clientVars, TypeOK
    <3> QED  BY <1>1, <2>1, <3>1, AcquireHeard DEF ResizeInv
  <2> QED  BY <1>1, <2>2
<1> QED  BY <1>2, <1>3

\* While no client is late, the PTY has the recorded grid or is about to record it.
LEMMA RecordedStep ==
  ASSUME ResizeAssumption, TypeOK, NEW c \in Client, Recorded, ~late',
         \/ Take(c) \/ Compare(c) \/ SetGrid(c) \/ Record(c) \/ Acknowledge(c)
         \/ Acquire(c) \/ AnnounceControl(c) \/ Grant(c) \/ List(c) \/ Listed(c)
  PROVE  Recorded'
<1> DEFINE Untouched == /\ ptySize' = ptySize /\ recorded' = recorded
                        /\ owner' = owner \/ owner'.client = c
                        /\ At(c) # "record" /\ At(c)' # "record"
<1>1. serving[c] # None => serving[c] \in Serving
  BY ClientTypes
<1>2. \A d \in Client \ {c} : serving'[d] = serving[d]
  BY DEF Take, Compare, SetGrid, Record, Acknowledge, Acquire, AnnounceControl, Grant, List,
         Listed, Answer, TypeOK
<1>3. Untouched => Recorded'
  BY <1>2, RecordedKept
<1>4. CASE Take(c)
  <2>1. reqs[c] # <<>> /\ Head(reqs[c]) \in Request
    BY <1>4, ClientTypes, TailIs DEF Take
  <2>2. Untouched
    BY <1>4, <2>1 DEF Take, Answer, At, TypeOK, Request
  <2> QED  BY <1>3, <2>2
<1>5. CASE Compare(c) \/ Acknowledge(c)
  <2>1. /\ ptySize' = ptySize /\ recorded' = recorded /\ owner' = owner /\ At(c) # "record"
    BY <1>5 DEF Compare, Acknowledge, At
  <2>2. serving'[c] = None \/ serving'[c] = [serving[c] EXCEPT !.at = "set"]
    BY <1>5 DEF Compare, Acknowledge, Answer, TypeOK
  <2>3. At(c)' # "record"
    BY <1>1, <1>5, <2>2 DEF At, Compare, Acknowledge, Serving
  <2> QED  BY <1>3, <2>1, <2>3
<1>6. CASE Acquire(c)
  <2>1. Untouched
    BY <1>6 DEF Acquire, Answer, At, TypeOK
  <2> QED  BY <1>3, <2>1
<1>7. CASE AnnounceControl(c) \/ Grant(c) \/ List(c) \/ Listed(c)
  <2>1. /\ ptySize' = ptySize /\ recorded' = recorded /\ owner' = owner /\ At(c) # "record"
    BY <1>7 DEF AnnounceControl, Grant, List, Listed, At
  <2>2. \/ serving'[c] = None
        \/ serving'[c] = [serving[c] EXCEPT !.at = "granted"]
        \/ serving'[c] = [at |-> "listed", size |-> recorded]
    BY <1>7 DEF AnnounceControl, Grant, List, Listed, Answer, TypeOK
  <2>3. At(c)' # "record"
    BY <1>1, <1>7, <2>2 DEF At, AnnounceControl, Grant, List, Listed, Serving
  <2> QED  BY <1>3, <2>1, <2>3
<1>8. CASE SetGrid(c)
  <2>1. c = owner.client /\ owner' = owner /\ ptySize' = serving[c].size
    BY <1>8 DEF SetGrid, TypeOK
  <2>2. At(c)' = "record" /\ serving'[c].size = serving[c].size
    BY <1>1, <1>8, ClientTypes DEF SetGrid, At, TypeOK, ResizeAssumption, Serving
  <2> QED  BY <2>1, <2>2 DEF Recorded
<1>9. CASE Record(c)
  <2>1. c = owner.client /\ owner' = owner /\ ptySize' = ptySize /\ At(c) = "record"
        /\ recorded' = serving[c].size
    BY <1>9 DEF Record, At, TypeOK
  <2>2. ptySize' = recorded'
    BY <2>1 DEF Recorded
  <2>3. At(c)' # "record"
    BY <1>1, <1>9, ClientTypes DEF Record, At, TypeOK, ResizeAssumption, Serving
  <2> QED  BY <2>1, <2>2, <2>3 DEF Recorded
<1> QED  BY <1>4, <1>5, <1>6, <1>7, <1>8, <1>9

LEMMA AgentStep ==
  ASSUME ResizeAssumption, ResizeInv, NEW c \in Client,
         \/ Take(c) \/ Compare(c) \/ SetGrid(c) \/ Record(c) \/ Acknowledge(c)
         \/ Acquire(c) \/ AnnounceControl(c) \/ Grant(c) \/ List(c) \/ Listed(c)
  PROVE  ResizeInv'
<1>1. TypeOK /\ TypeOK' /\ Always(c) /\ (~late' => ~late)
  <2>1. TypeOK /\ Always(c)
    BY DEF ResizeInv
  <2>2. TypeOK'
    BY <2>1, AgentTyped
  <2>3. ~late' => ~late
    BY DEF Take, Compare, SetGrid, Record, Acknowledge, Acquire, AnnounceControl, Grant, List,
           Listed
  <2> QED  BY <2>1, <2>2, <2>3
<1>2. ASSUME ~late PROVE Recorded /\ \A d \in Client : InTime(d)
  BY <1>2 DEF ResizeInv
<1>3. ~late' => Recorded'
  BY <1>1, <1>2, RecordedStep
<1>4. /\ \A d \in Client : Always(d)'
      /\ (\A d \in Client : InTime(d)) /\ ~late' => \A d \in Client : InTime(d)'
  <2>1. CASE Take(c)
    BY <1>1, <2>1, TakeKeeps, AgentIsLocal, LocalKeeps
  <2>2. CASE Compare(c)
    BY <1>1, <2>2, CompareKeeps, AgentIsLocal, LocalKeeps
  <2>3. CASE SetGrid(c)
    BY <1>1, <2>3, SetGridKeeps, AgentIsLocal, LocalKeeps
  <2>4. CASE Record(c)
    BY <2>4, RecordStep
  <2>5. CASE Acknowledge(c)
    BY <1>1, <2>5, AcknowledgeKeeps, AgentIsLocal, LocalKeeps
  <2>6. CASE Acquire(c)
    BY <2>6, AcquireStep
  <2>7. CASE AnnounceControl(c)
    BY <2>7, AnnounceControlStep
  <2>8. CASE Grant(c)
    BY <1>1, <2>8, GrantKeeps, AgentIsLocal, LocalKeeps
  <2>9. CASE List(c)
    BY <1>1, <2>9, ListKeeps, AgentIsLocal, LocalKeeps
  <2>10. CASE Listed(c)
    BY <1>1, <2>10, ListedKeeps, AgentIsLocal, LocalKeeps
  <2> QED  BY <2>1, <2>2, <2>3, <2>4, <2>5, <2>6, <2>7, <2>8, <2>9, <2>10
<1> QED  BY <1>1, <1>2, <1>3, <1>4 DEF ResizeInv

LEMMA ClientStep ==
  ASSUME ResizeAssumption, ResizeInv, NEW c \in Client,
         \/ Frame(c) \/ Granted(c) \/ ControlChanged(c) \/ SizeChanged(c)
         \/ Acknowledged(c) \/ Refused(c) \/ Sessions(c) \/ takeControl(c)
         \/ \E size \in Size : ResizeContainer(c, size)
  PROVE  ResizeInv'
<1>1. TypeOK /\ Always(c) /\ UnseenByOthers(c) /\ ptySize' = ptySize /\ serving' = serving /\ late' = late
  BY ClientIsLocal DEF ResizeInv
<1>2. TypeOK'
  BY <1>1, ClientTyped
<1>3. Recorded => Recorded'
  BY <1>1 DEF Recorded, At, UnseenByOthers
<1>4. Always(c)' /\ (InTime(c) => InTime(c)')
  BY <1>1, FrameKeeps, GrantedKeeps, ControlChangedKeeps, SizeChangedKeeps, AcknowledgedKeeps,
     RefusedKeeps, SessionsKeeps, TakeControlKeeps, ResizeContainerKeeps
<1>5. /\ \A d \in Client : Always(d)'
      /\ (\A d \in Client : InTime(d)) => \A d \in Client : InTime(d)'
  BY <1>1, <1>4, LocalKeeps
<1> QED  BY <1>1, <1>2, <1>3, <1>5 DEF ResizeInv

LEMMA InitHolds == ResizeAssumption /\ Init => ResizeInv
<1>1. SUFFICES ASSUME ResizeAssumption, Init PROVE ResizeInv
  OBVIOUS
<1>2. ASSUME NEW c \in Client PROVE NewPty(c) \in AgentPty
  BY <1>1 DEF ResizeAssumption, NewPty, AgentPty
<1>3. TypeOK
  <2>1. /\ ptySize \in Size /\ recorded \in Size /\ owner \in [client : Client, epoch : Epoch]
        /\ fit \in [Client -> Size] /\ grid \in [Client -> Size]
    BY <1>1 DEF Init, ResizeAssumption, Epoch
  <2>2. /\ reqs \in [Client -> Seq(Request)] /\ feed \in [Client -> Seq(Event)]
        /\ serving \in [Client -> Serving \cup {None}]
    BY <1>1 DEF Init
  <2>3. /\ pty \in [Client -> AgentPty] /\ frames \subseteq Client
    BY <1>1, <1>2 DEF Init
  <2>4. fits \in 0..MaxFits /\ takes \in 0..MaxTakes /\ late \in BOOLEAN
    <3>1. fits = 0 /\ takes = 0 /\ late = FALSE
      BY <1>1 DEF Init
    <3>2. MaxFits \in Nat /\ MaxTakes \in Nat
      BY <1>1 DEF ResizeAssumption
    <3>3. fits \in 0..MaxFits /\ takes \in 0..MaxTakes
      BY <3>1, <3>2
    <3> QED  BY <3>1, <3>3
  <2> QED  BY <2>1, <2>2, <2>3, <2>4 DEF TypeOK
<1>4. ASSUME NEW c \in Client PROVE Always(c) /\ InTime(c)
  <2>1. /\ pty[c] = NewPty(c) /\ feed[c] = <<>> /\ reqs[c] = <<>> /\ serving[c] = None
        /\ grid[c] = FirstSize /\ fit[c] = FirstSize /\ recorded = FirstSize
        /\ owner.client = FirstClient /\ owner.epoch = 1
    BY <1>1 DEF Init
  <2>2. /\ pty[c].want = FirstSize /\ pty[c].pending = None /\ pty[c].pump = None
        /\ ~pty[c].astray
        /\ (pty[c].readOnly <=> c # FirstClient)
        /\ pty[c].lease = pty[c].epoch
        /\ c = FirstClient => pty[c].epoch = 1
        /\ c # FirstClient => pty[c].epoch = 0
    <3>1. /\ NewPty(c).want = FirstSize /\ NewPty(c).pending = None /\ NewPty(c).pump = None
          /\ NewPty(c).astray = FALSE /\ NewPty(c).readOnly = (c # FirstClient)
          /\ NewPty(c).epoch = (IF c = FirstClient THEN 1 ELSE 0)
          /\ NewPty(c).lease = (IF c = FirstClient THEN 1 ELSE 0)
      BY DEF NewPty
    <3> QED  BY <2>1, <3>1
  <2>3. /\ \A k : ~Has(feed[c], k)
        /\ ~HasAnswer(feed[c]) /\ ~Asks(reqs[c]) /\ At(c) = "nothing"
    BY <2>1 DEF Has, HasAnswer, Asks, At
  <2>4. /\ ~Resizes(c) /\ ~Refreshes(c) /\ ~Accepted(c) /\ ~Acked(c) /\ ~Doomed(c) /\ Fresh(c)
    BY <2>1, <2>2, <2>3 DEF Resizes, Refreshes, Accepted, Acked, Doomed, Fresh, Resizing
  <2>5. OneTask(c)
    BY <2>1, <2>2, <2>3, <2>4, RequestsNone DEF OneTask, OneAnswer, Resizing, Listing
  <2>6. PtyWhole(c)
    BY <2>1, <2>2, <2>4 DEF PtyWhole
  <2>7. Epochs(c) /\ (Knows(c) <=> c = owner.client)
    BY <2>1, <2>2, <2>3 DEF Epochs, Knows, GrantsUpTo, Granting
  <2>8. LastSize(feed[c], recorded) /\ ListTrue(c)
    BY <2>1, <2>4 DEF LastSize, ListTrue
  <2>9. Holder(c)
    BY <2>1, <2>2, <2>3, <2>7 DEF Holder, Reign, Resizing, Granting
  <2>10. Warned(c) /\ Shielded(c) /\ AsksForWant(c)
    BY <2>1, <2>2, <2>4 DEF Warned, Shielded, AsksForWant
  <2>11. Draws(c) /\ Fits(c)
    BY <2>1, <2>2, <2>4 DEF Draws, Fits
  <2> QED  BY <2>5, <2>6, <2>7, <2>8, <2>9, <2>10, <2>11 DEF Always, InTime
<1>5. Recorded
  BY <1>1 DEF Init, Recorded, At, ResizeAssumption
<1> QED  BY <1>3, <1>4, <1>5 DEF ResizeInv

LEMMA StepHolds == ResizeAssumption /\ ResizeInv /\ [Next]_vars => ResizeInv'
<1>1. SUFFICES ASSUME ResizeAssumption, ResizeInv, [Next]_vars PROVE ResizeInv'
  OBVIOUS
<1>2. CASE UNCHANGED vars
  <2>1. TypeOK' /\ (Recorded => Recorded') /\ late' = late
    BY <1>1, <1>2 DEF vars, ResizeInv, TypeOK, Recorded, At
  <2>2. ASSUME NEW d \in Client PROVE Always(d)' /\ (InTime(d) => InTime(d)')
    <3>1. Still(d) /\ feed'[d] = feed[d] /\ owner' = owner /\ recorded' = recorded
          /\ (Unannounced' <=> Unannounced)
      BY <1>2 DEF vars, Still, Unannounced
    <3> QED  BY <1>1, <3>1, SameKept DEF ResizeInv
  <2> QED  BY <1>1, <2>1, <2>2 DEF ResizeInv
<1>3. CASE AgentNext
  BY <1>1, <1>3, AgentStep DEF AgentNext
<1>4. CASE ClientNext
  BY <1>1, <1>4, ClientStep DEF ClientNext
<1>5. CASE \E c \in Client : takeControl(c) \/ \E size \in Size : ResizeContainer(c, size)
  BY <1>1, <1>5, ClientStep
<1> QED  BY <1>1, <1>2, <1>3, <1>4, <1>5 DEF Next

LEMMA Invariance == ResizeAssumption /\ Spec => []ResizeInv
<1>1. ASSUME ResizeAssumption PROVE Spec => []ResizeInv
  <2>1. Init => ResizeInv
    BY <1>1, InitHolds
  <2>2. ResizeInv /\ [Next]_vars => ResizeInv'
    BY <1>1, StepHolds
  <2> QED  BY <2>1, <2>2, PTL DEF Spec
<1> QED  BY <1>1

\* With nothing under way every window draws what the agent recorded.
LEMMA Settled == ResizeInv => GridsAgree
<1>1. SUFFICES ASSUME ResizeInv, Quiet, ~late
               PROVE  /\ ptySize = recorded
                      /\ \A c \in Client : pty[c].readOnly = (c # owner.client)
                      /\ \A c \in Client : ~pty[c].astray =>
                           grid[c] = recorded /\ (c = owner.client => fit[c] = recorded)
  BY DEF GridsAgree
<1>2. TypeOK /\ owner.client \in Client /\ Recorded
  BY <1>1 DEF ResizeInv, TypeOK
<1>3. ptySize = recorded
  BY <1>1, <1>2 DEF Recorded, At, Quiet
<1>4. ASSUME NEW c \in Client
      PROVE  /\ pty[c].readOnly = (c # owner.client)
             /\ ~pty[c].astray => grid[c] = recorded /\ (c = owner.client => fit[c] = recorded)
  <2>1. /\ feed[c] = <<>> /\ At(c) = "nothing" /\ pty[c].pump = None /\ pty[c].pending = None
        /\ c \notin frames /\ ~Unannounced /\ pty[c] \in AgentPty
    BY <1>1, <1>2, ClientTypes DEF Quiet, At, Unannounced
  <2>2. \A f : ~Holds(feed[c], f) /\ ~Has(feed[c], "size")
    BY <2>1 DEF Holds, Has
  <2>3. Always(c) /\ InTime(c)
    BY <1>1 DEF ResizeInv
  <2>4. c = owner.client => Knows(c) /\ ~pty[c].readOnly
    BY <2>1, <2>2, <2>3 DEF InTime, Holder, Granting
  <2>5. c # owner.client => pty[c].readOnly
    BY <2>1, <2>2, <2>3 DEF InTime, Warned
  <2>6. pty[c].readOnly = (c # owner.client)
    BY <2>1, <2>4, <2>5 DEF AgentPty
  <2>7. ASSUME ~pty[c].astray PROVE grid[c] = recorded /\ (c = owner.client => fit[c] = recorded)
    <3>1. pty[c].want = recorded /\ grid[c] = pty[c].want
      BY <2>1, <2>2, <2>3, <2>7 DEF InTime, Draws, Fresh, Always, PtyWhole
    <3>2. c = owner.client => fit[c] = pty[c].want
      BY <2>1, <2>3, <2>4, <2>7 DEF InTime, Fits
    <3> QED  BY <3>1, <3>2
  <2> QED  BY <2>6, <2>7
<1> QED  BY <1>3, <1>4

-----------------------------------------------------------------------------
\* The state always has the types of the agent's and the windows' data.
THEOREM TypeCorrect == ResizeAssumption /\ Spec => []TypeOK
<1>1. ResizeInv => TypeOK
  BY DEF ResizeInv
<1> QED  BY <1>1, Invariance, PTL

\* When every request, event and frame is done and no client was late, the PTY, the
\* recorded grid and every window that did not go astray agree, and the one window
\* that takes input is the one the agent knows as the controller.
THEOREM GridsSettle == ResizeAssumption /\ Spec => []GridsAgree
<1> QED  BY Settled, Invariance, PTL

-----------------------------------------------------------------------------
(* Composition of text                                                     *)

\* A text and then a preedit, which begins behind `at`.
Preedits(text, at) ==
  /\ at \in 0 .. Len(text)
  /\ \A i \in 1 .. at : text[i] # Typing!Pre
  /\ \A i \in at + 1 .. Len(text) : text[i] = Typing!Pre

NoPreedit(text) == Preedits(text, Len(text))

\* JavaScript's substring of a text.
Part(text, i, j) ==
  SubSeq(text, (IF i <= j THEN i ELSE j) + 1,
         IF j <= Len(text) /\ i <= Len(text) THEN IF i <= j THEN j ELSE i ELSE Len(text))

\* What the timer will send.
DueOf(text, x, set) ==
  IF set = <<>> THEN <<>>
  ELSE IF set[1].is = "send"
  THEN Part(text, set[1].start + x.already, IF x.composing THEN x.start ELSE Len(text))
  ELSE IF x.composing THEN <<>> ELSE SubSeq(text, Len(set[1].old) + 1, Len(text))

Due == DueOf(value, xterm, timers)

Timers == [is : {"diff", "send"}, old : Typing!Text, start : Nat, end : Nat]

XTerm == [composing : BOOLEAN, sending : BOOLEAN, start : Nat, end : Nat, already : Nat]

\* At most one timer is set, and xterm waits for the one that sends.
Plausible ==
  /\ os \in {"linux", "mac"} /\ value \in Typing!Text /\ xterm \in XTerm
  /\ guard \in [target : BOOLEAN, ime : BOOLEAN, pending : {None}]
  /\ typed \in Seq(Char) /\ sent \in Typing!Text /\ keys \in 0 .. MaxKeys
  /\ timers = <<>> \/ \E t \in Timers : timers = <<t>> /\ (t.is = "send" => xterm.sending)

\* xterm composes, and knows where its composition began; if not, there is none.
Open == xterm.composing /\ xterm.already = 0 /\ Preedits(value, xterm.start)
Shut == ~xterm.composing /\ NoPreedit(value)
Steady == (Open /\ xterm.start <= xterm.end) \/ Shut

\* No preedit is shown, whatever xterm waits for.
Unmarked == Steady /\ NoPreedit(value) /\ ~guard.target

\* What the user typed is what was sent, what the timer sends and `text`.
Owes(text) == typed = (sent \o Due) \o text

Unset == timers = <<>>
NoGrowth == timers = <<>> \/ timers = <<Typing!Timer("diff", value, 0, 0)>>

\* The timer of the last composition, if it has yet to run.
SendsBefore(at) ==
  \/ NoGrowth
  \/ /\ timers # <<>> /\ timers[1].is = "send" /\ xterm.already = 0 /\ timers[1].start <= at

\* The rest of a script, and what holds before it.
AtRest ==
  script = <<>> /\ Steady /\ Owes(<<>>)
  /\ (guard.target <=> xterm.composing /\ ~NoPreedit(value))

PlainKeyed == \E c \in Char :
  /\ script = (IF os = "linux" THEN <<Typing!Key(FALSE, <<c>>), Typing!Mutation("insertText", <<c>>)>>
               ELSE <<Typing!Key(FALSE, <<c>>)>>)
  /\ Unmarked /\ Unset /\ Owes(<<c>>)
Echoed == \E c \in Char :
  /\ script = <<Typing!Mutation("insertText", <<c>>)>> /\ os = "linux" /\ ~guard.ime
  /\ Unmarked /\ Shut /\ Unset /\ Owes(<<>>)
DictatedTo == \E c \in Char :
  /\ script = <<Typing!Dictated(<<c>>)>> /\ Unmarked /\ Shut /\ Unset /\ Owes(<<c>>)
DirectKeyed == \E c \in Char :
  /\ script = <<Typing!Key(TRUE, <<>>), Typing!Mutation("insertText", <<c>>)>>
  /\ Unmarked /\ Shut /\ Unset /\ Owes(<<c>>)
Directed == \E c \in Char :
  /\ script = <<Typing!Mutation("insertText", <<c>>)>> /\ guard.ime
  /\ Unmarked /\ Shut /\ timers = <<Typing!Timer("diff", value, 0, 0)>> /\ Owes(<<c>>)
OrphanKeyed == \E c \in Char :
  /\ script = <<Typing!Key(TRUE, <<>>), Typing!Mutation("insertFromComposition", <<c>>), Typing!Bare("end")>>
  /\ os = "linux" /\ Unmarked /\ Unset /\ Owes(<<c>>)
Orphaned == \E c \in Char :
  /\ script = <<Typing!Mutation("insertFromComposition", <<c>>), Typing!Bare("end")>>
  /\ os = "linux" /\ Unmarked /\ NoGrowth /\ Owes(<<c>>)
OrphanEnds ==
  script = <<Typing!Bare("end")>> /\ os = "linux" /\ Unmarked /\ NoGrowth /\ Owes(<<>>)
ComposeKeyed == \E n \in {1, 2} :
  /\ script = <<Typing!Key(TRUE, <<>>), Typing!Begins(n)[1], Typing!Begins(n)[2]>>
  /\ Unmarked /\ Unset /\ Owes(<<>>)
Starts == \E n \in {1, 2} :
  /\ script = <<Typing!Begins(n)[1], Typing!Begins(n)[2]>>
  /\ Unmarked /\ Owes(<<>>)
  /\ NoGrowth \/ (Shut /\ SendsBefore(Len(value)))
Started == \E n \in {1, 2} :
  /\ script = <<Typing!Begins(n)[2]>>
  /\ Open /\ xterm.start = Len(value) /\ guard.target /\ SendsBefore(xterm.start) /\ Owes(<<>>)

\* Of the key that commits: what follows the end.
After(n) == IF n = 0 THEN <<>> ELSE <<Typing!Begins(n)[1], Typing!Begins(n)[2]>>
CommitKeyed == \E c \in Char, n \in {0, 1} :
  /\ script = <<Typing!Key(TRUE, <<>>), Typing!Mutation("insertFromComposition", <<c>>), Typing!Bare("end")>> \o After(n)
  /\ Open /\ guard.target /\ Unset /\ Owes(<<c>>)
Commits == \E c \in Char, n \in {0, 1} :
  /\ script = <<Typing!Mutation("insertFromComposition", <<c>>), Typing!Bare("end")>> \o After(n)
  /\ Open /\ guard.target /\ Unset /\ Owes(<<c>>)
Ending == \E c \in Char, n \in {0, 1} :
  /\ script = <<Typing!Bare("end")>> \o After(n)
  /\ xterm.composing /\ xterm.already = 0 /\ guard.target /\ Unset /\ Owes(<<c>>)
  /\ NoPreedit(value) /\ Len(value) = xterm.start + 1 /\ value[Len(value)] = c
Leaving ==
  script = <<Typing!Bare("focus")>> /\ Open /\ xterm.start <= xterm.end /\ Unset /\ Owes(<<>>)

TypingInv ==
  /\ Plausible
  /\ \/ AtRest \/ PlainKeyed \/ Echoed \/ DictatedTo \/ DirectKeyed \/ Directed
     \/ OrphanKeyed \/ Orphaned \/ OrphanEnds \/ ComposeKeyed \/ Starts \/ Started
     \/ CommitKeyed \/ Commits \/ Ending \/ Leaving

-----------------------------------------------------------------------------
(* Texts.                                                                  *)

LEMMA TextFacts ==
  ASSUME NEW s \in Typing!Text, NEW t \in Typing!Text
  PROVE  /\ s \o <<>> = s /\ <<>> \o s = s /\ <<>> \in Typing!Text
         /\ s \o t \in Typing!Text /\ Len(s \o t) = Len(s) + Len(t) /\ Len(s) \in Nat /\ Len(t) \in Nat
         /\ \A i \in 1 .. Len(s) : (s \o t)[i] = s[i]
         /\ \A i \in 1 .. Len(t) : (s \o t)[Len(s) + i] = t[i]
         /\ \A i \in 1 .. Len(s) : s[i] \in Char \cup {Typing!Pre}
<1>1. Len(s) \in Nat /\ Len(t) \in Nat /\ \A i \in 1 .. Len(s) : s[i] \in Char \cup {Typing!Pre}
  BY LenProperties, ElementOfSeq DEF Typing!Text
<1>2. s \o <<>> = s /\ <<>> \o s = s /\ <<>> \in Typing!Text
  BY ConcatEmptySeq, EmptySeq DEF Typing!Text
<1>3. /\ s \o t \in Typing!Text /\ Len(s \o t) = Len(s) + Len(t)
      /\ \A i \in 1 .. Len(s) + Len(t) :
           (s \o t)[i] = IF i <= Len(s) THEN s[i] ELSE t[i - Len(s)]
  BY ConcatProperties DEF Typing!Text
<1>4. \A i \in 1 .. Len(s) : (s \o t)[i] = s[i]
  BY <1>1, <1>3
<1>5. ASSUME NEW i \in 1 .. Len(t) PROVE (s \o t)[Len(s) + i] = t[i]
  BY <1>1, <1>3
<1> QED  BY <1>1, <1>2, <1>3, <1>4, <1>5

LEMMA TextEqual ==
  ASSUME NEW s \in Typing!Text, NEW t \in Typing!Text, Len(s) = Len(t), \A i \in 1 .. Len(s) : s[i] = t[i]
  PROVE  s = t
BY SeqEqual DEF Typing!Text

LEMMA PartOf ==
  ASSUME NEW s \in Typing!Text, NEW k \in Nat \ {0}, NEW n \in Nat, n <= Len(s)
  PROVE  /\ SubSeq(s, k, n) \in Typing!Text
         /\ Len(SubSeq(s, k, n)) = IF k <= n THEN n - k + 1 ELSE 0
         /\ \A i \in 1 .. Len(SubSeq(s, k, n)) : SubSeq(s, k, n)[i] = s[k + i - 1]
<1>1. Len(s) \in Nat /\ k \in Int /\ n \in Int
  BY LenProperties DEF Typing!Text
<1>2. \A i \in k .. n : s[i] \in Char \cup {Typing!Pre}
  BY <1>1, ElementOfSeq DEF Typing!Text
<1> DEFINE part == SubSeq(s, k, n)
<1>3. /\ part \in Typing!Text
      /\ Len(part) = IF k <= n THEN n - k + 1 ELSE 0
      /\ \A i \in 1 .. n - k + 1 : part[i] = s[k + i - 1]
  BY <1>1, <1>2, SubSeqProperties DEF Typing!Text
<1>4. \A i \in 1 .. Len(part) : part[i] = s[k + i - 1]
  <2> HIDE DEF part
  <2> QED  BY <1>1, <1>3
<1> QED  BY <1>3, <1>4

\* What is behind the beginning of a text that was made of two.
LEMMA Ends ==
  ASSUME NEW s \in Typing!Text, NEW t \in Typing!Text
  PROVE  /\ SubSeq(s \o t, Len(s) + 1, Len(s \o t)) = t
         /\ SubSeq(s \o t, 1, Len(s)) = s
         /\ SubSeq(s, Len(s) + 1, Len(s)) = <<>>
<1>1. s \o t \in Typing!Text /\ Len(s \o t) = Len(s) + Len(t) /\ Len(s) \in Nat /\ Len(t) \in Nat
  BY TextFacts
<1>2. SubSeq(s \o t, Len(s) + 1, Len(s \o t)) = t
  <2> DEFINE both == s \o t
             k == Len(s) + 1
             part == SubSeq(both, k, Len(both))
  <2>1. both \in Typing!Text /\ k \in Nat \ {0} /\ Len(both) \in Nat /\ Len(both) <= Len(both)
    BY <1>1
  <2>2. /\ part \in Typing!Text /\ Len(part) = IF k <= Len(both) THEN Len(both) - k + 1 ELSE 0
        /\ \A i \in 1 .. Len(part) : part[i] = both[k + i - 1]
    <3> HIDE DEF both, k
    <3> QED  BY <2>1, PartOf
  <2> HIDE DEF part
  <2>3. Len(part) = Len(t)
    BY <2>2, <1>1
  <2>4. ASSUME NEW i \in 1 .. Len(t) PROVE part[i] = t[i]
    <3>1. k + i - 1 = Len(s) + i
      BY <1>1
    <3>2. part[i] = (s \o t)[Len(s) + i]
      BY <2>2, <2>3, <3>1
    <3> QED  BY <3>2, TextFacts
  <2>5. part = t
    BY <2>2, <2>3, <2>4, TextEqual
  <2> QED  BY <2>5 DEF part
<1>3. SubSeq(s \o t, 1, Len(s)) = s
  <2> DEFINE part == SubSeq(s \o t, 1, Len(s))
  <2>1. /\ part \in Typing!Text /\ Len(part) = IF 1 <= Len(s) THEN Len(s) - 1 + 1 ELSE 0
        /\ \A i \in 1 .. Len(part) : part[i] = (s \o t)[1 + i - 1]
    <3>1. s \o t \in Typing!Text /\ 1 \in Nat \ {0} /\ Len(s) \in Nat /\ Len(s) <= Len(s \o t)
      BY <1>1
    <3> QED  BY <3>1, PartOf
  <2> HIDE DEF part
  <2>2. Len(part) = Len(s)
    BY <2>1, <1>1
  <2>3. ASSUME NEW i \in 1 .. Len(s) PROVE part[i] = s[i]
    <3>1. 1 + i - 1 = i
      OBVIOUS
    <3> QED  BY <2>1, <2>2, <3>1, TextFacts
  <2>4. part = s
    BY <2>1, <2>2, <2>3, TextEqual
  <2> QED  BY <2>4 DEF part
<1>4. SubSeq(s, Len(s) + 1, Len(s)) = <<>>
  BY <1>1, SubSeqEmpty
<1> QED  BY <1>2, <1>3, <1>4

\* Without its preedit a text is what comes before it.
LEMMA SettledIs ==
  ASSUME NEW text \in Typing!Text, NEW at, Preedits(text, at)
  PROVE  /\ Typing!Settled(text) = SubSeq(text, 1, at) /\ at \in Nat
         /\ Typing!Settled(text) \in Typing!Text /\ Len(Typing!Settled(text)) = at
         /\ \A i \in 1 .. at : Typing!Settled(text)[i] = text[i]
         /\ NoPreedit(Typing!Settled(text))
         /\ at = Len(text) => Typing!Settled(text) = text
<1> DEFINE S == {Len(text)} \cup {i - 1 : i \in {i \in DOMAIN text : text[i] = Typing!Pre}}
<1>1. Len(text) \in Nat /\ DOMAIN text = 1 .. Len(text) /\ at \in 0 .. Len(text)
  BY LenProperties DEF Typing!Text, Preedits
<1>2. at \in S
  <2>1. CASE at = Len(text)
    BY <2>1
  <2>2. CASE at # Len(text)
    <3> DEFINE n == Len(text)
    <3>2. n \in Nat /\ at \in 0 .. n /\ at # n
      BY <1>1, <2>2
    <3>0. at + 1 \in at + 1 .. Len(text) /\ at + 1 \in 1 .. Len(text) /\ (at + 1) - 1 = at
      <4>1. at + 1 \in at + 1 .. n /\ at + 1 \in 1 .. n /\ (at + 1) - 1 = at
        <5> HIDE DEF n
        <5> QED  BY <3>2
      <4> QED  BY <4>1
    <3>1. at + 1 \in DOMAIN text /\ text[at + 1] = Typing!Pre /\ (at + 1) - 1 = at
      BY <1>1, <3>0 DEF Preedits
    <3> QED  BY <3>1
  <2> QED  BY <2>1, <2>2
<1>3. \A x \in S : x \in Int /\ at <= x
  <2>1. ASSUME NEW i \in DOMAIN text, text[i] = Typing!Pre PROVE i - 1 \in Int /\ at <= i - 1
    BY <2>1, <1>1 DEF Preedits
  <2> QED  BY <2>1, <1>1
<1>4. Typing!Min(S) = at
  <2> HIDE DEF S
  <2>1. \E x \in S : \A y \in S : x <= y
    BY <1>2, <1>3
  <2>2. Typing!Min(S) \in S /\ \A y \in S : Typing!Min(S) <= y
    BY <2>1 DEF Typing!Min
  <2> DEFINE m == Typing!Min(S)
  <2>3. m \in S /\ m <= at
    BY <2>2, <1>2
  <2> HIDE DEF m
  <2>4. m \in Int /\ at <= m /\ at \in Int
    BY <2>3, <1>3, <1>1
  <2>5. m = at
    BY <2>3, <2>4
  <2> QED  BY <2>5 DEF m
<1>5. Typing!Settled(text) = SubSeq(text, 1, at)
  BY <1>4 DEF Typing!Settled
<1>6. /\ SubSeq(text, 1, at) \in Typing!Text /\ Len(SubSeq(text, 1, at)) = at
      /\ \A i \in 1 .. at : SubSeq(text, 1, at)[i] = text[i]
  <2> DEFINE part == SubSeq(text, 1, at)
  <2>1. /\ part \in Typing!Text /\ Len(part) = IF 1 <= at THEN at - 1 + 1 ELSE 0
        /\ \A i \in 1 .. Len(part) : part[i] = text[1 + i - 1]
    <3>1. 1 \in Nat \ {0} /\ at \in Nat /\ at <= Len(text)
      BY <1>1
    <3> QED  BY <3>1, PartOf
  <2> HIDE DEF part
  <2>2. Len(part) = at /\ \A i \in 1 .. at : 1 + i - 1 = i
    BY <2>1, <1>1
  <2>3. part \in Typing!Text /\ Len(part) = at /\ \A i \in 1 .. at : part[i] = text[i]
    BY <2>1, <2>2
  <2> QED  BY <2>3 DEF part
<1>7. /\ Typing!Settled(text) \in Typing!Text /\ Len(Typing!Settled(text)) = at
      /\ \A i \in 1 .. at : Typing!Settled(text)[i] = text[i]
  BY <1>5, <1>6
<1>8. NoPreedit(Typing!Settled(text))
  <2>1. \A i \in 1 .. at : text[i] # Typing!Pre
    BY DEF Preedits
  <2>2. at \in 0 .. at /\ at + 1 .. at = {}
    BY <1>1
  <2> QED  BY <1>7, <2>1, <2>2 DEF NoPreedit, Preedits
<1>9. at = Len(text) => Typing!Settled(text) = text
  BY <1>7, TextEqual
<1>10. at \in Nat
  BY <1>1
<1> QED  BY <1>5, <1>7, <1>8, <1>9, <1>10

\* substring, of Min and Max, is Part.
LEMMA MinMax ==
  ASSUME NEW i \in Int, NEW j \in Int
  PROVE  Typing!Min({i, j}) = (IF i <= j THEN i ELSE j) /\ Typing!Max({i, j}) = (IF i <= j THEN j ELSE i)
<1> DEFINE lo == IF i <= j THEN i ELSE j
           hi == IF i <= j THEN j ELSE i
<1>1. \E x \in {i, j} : \A y \in {i, j} : x <= y
  <2>1. lo \in {i, j} /\ \A y \in {i, j} : lo <= y
    OBVIOUS
  <2> QED  BY <2>1
<1>2. \E x \in {i, j} : \A y \in {i, j} : x >= y
  <2>1. hi \in {i, j} /\ \A y \in {i, j} : hi >= y
    OBVIOUS
  <2> QED  BY <2>1
<1>3. Typing!Min({i, j}) \in {i, j} /\ \A y \in {i, j} : Typing!Min({i, j}) <= y
  BY <1>1 DEF Typing!Min
<1>4. Typing!Max({i, j}) \in {i, j} /\ \A y \in {i, j} : Typing!Max({i, j}) >= y
  BY <1>2 DEF Typing!Max
<1> QED  BY <1>3, <1>4

LEMMA SubstringIs ==
  ASSUME value \in Typing!Text, NEW i \in Nat, NEW j \in Nat
  PROVE  Typing!substring(i, j) = Part(value, i, j)
<1>1. Len(value) \in Nat
  BY TextFacts
<1>2. Typing!Min({i, j}) = (IF i <= j THEN i ELSE j) /\ Typing!Max({i, j}) = (IF i <= j THEN j ELSE i)
  BY MinMax
<1> DEFINE hi == IF i <= j THEN j ELSE i
<1>3. Typing!Min({hi, Len(value)}) = (IF hi <= Len(value) THEN hi ELSE Len(value))
  BY <1>1, MinMax
<1>4. (IF hi <= Len(value) THEN hi ELSE Len(value))
        = (IF j <= Len(value) /\ i <= Len(value) THEN hi ELSE Len(value))
  BY <1>1
<1> QED  BY <1>2, <1>3, <1>4 DEF Typing!substring, Part

\* It is a text, and nothing if it begins and ends at the end.
LEMMA PartText ==
  ASSUME NEW s \in Typing!Text, NEW i \in Nat, NEW j \in Nat
  PROVE  /\ Part(s, i, j) \in Typing!Text
         /\ i = Len(s) /\ i <= j => Part(s, i, j) = <<>>
         /\ i <= j /\ j <= Len(s) => Part(s, i, j) = SubSeq(s, i + 1, j)
<1>1. Len(s) \in Nat
  BY TextFacts
<1> DEFINE lo == IF i <= j THEN i ELSE j
           hi == IF j <= Len(s) /\ i <= Len(s) THEN IF i <= j THEN j ELSE i ELSE Len(s)
<1>2. lo \in Nat /\ hi \in 0 .. Len(s) /\ Part(s, i, j) = SubSeq(s, lo + 1, hi)
  BY <1>1 DEF Part
<1>3. Part(s, i, j) \in Typing!Text
  <2> HIDE DEF lo, hi
  <2>1. lo + 1 \in Nat \ {0} /\ hi \in Nat /\ hi <= Len(s)
    BY <1>1, <1>2
  <2>2. SubSeq(s, lo + 1, hi) \in Typing!Text
    BY <2>1, PartOf
  <2> QED  BY <1>2, <2>2
<1>4. i = Len(s) /\ i <= j => lo = Len(s) /\ hi = Len(s)
  BY <1>1
<1>5. i = Len(s) /\ i <= j => Part(s, i, j) = <<>>
  <2> HIDE DEF lo, hi
  <2> QED  BY <1>2, <1>4, Ends
<1>6. i <= j /\ j <= Len(s) => lo = i /\ hi = j
  BY <1>1
<1> QED  BY <1>2, <1>3, <1>5, <1>6

\* The longest beginning that a text shares with its own continuation is the text.
LEMMA LongestIs ==
  ASSUME NEW s \in Typing!Text, NEW t \in Typing!Text, Len(s) <= Len(t),
         \A i \in 1 .. Len(s) : s[i] = t[i]
  PROVE  Len(Typing!LongestCommonPrefix({s, t})) = Len(s)
<1> DEFINE C == Typing!CommonPrefixes({s, t})
<1>1. Len(s) \in Nat /\ Len(t) \in Nat
  BY TextFacts
<1>2. s \in Typing!Prefixes(s)
  <2>1. SubSeq(s, 1, Len(s)) = s
    BY SubSeqFull DEF Typing!Text
  <2>2. Len(s) \in 0 .. Len(s)
    BY <1>1
  <2>3. SubSeq(s, 1, Len(s)) \in Typing!Prefixes(s)
    BY <2>2 DEF Typing!Prefixes
  <2> QED  BY <2>1, <2>3
<1>3. SubSeq(t, 1, Len(s)) = s /\ SubSeq(s, 1, Len(s)) = s
  <2> DEFINE part == SubSeq(t, 1, Len(s))
  <2>1. /\ part \in Typing!Text /\ Len(part) = IF 1 <= Len(s) THEN Len(s) - 1 + 1 ELSE 0
        /\ \A i \in 1 .. Len(part) : part[i] = t[1 + i - 1]
    <3>1. 1 \in Nat \ {0}
      OBVIOUS
    <3> QED  BY <1>1, <3>1, PartOf
  <2> HIDE DEF part
  <2>4. Len(part) = Len(s) /\ \A i \in 1 .. Len(s) : 1 + i - 1 = i
    BY <2>1, <1>1
  <2>5. \A i \in 1 .. Len(part) : part[i] = s[i]
    BY <2>1, <2>4
  <2>2. part = s
    BY <2>1, <2>4, <2>5, TextEqual
  <2>3. SubSeq(t, 1, Len(s)) = s
    BY <2>2 DEF part
  <2> QED  BY <2>3, SubSeqFull DEF Typing!Text
<1>4. s \in C
  <2>1. Typing!IsPrefix(s, s) /\ Typing!IsPrefix(s, t)
    BY <1>1, <1>3 DEF Typing!IsPrefix
  <2> QED  BY <1>2, <2>1 DEF Typing!CommonPrefixes
<1>5. \A p \in C : Len(p) <= Len(s)
  BY DEF Typing!CommonPrefixes, Typing!IsPrefix
<1>6. \E p \in C : \A q \in C : Len(q) <= Len(p)
  BY <1>4, <1>5
<1> DEFINE longest == Typing!LongestCommonPrefix({s, t})
<1>7. longest \in C /\ \A q \in C : Len(q) <= Len(longest)
  <2> HIDE DEF C
  <2>1. longest = CHOOSE p \in C : \A q \in C : Len(q) <= Len(p)
    BY DEF Typing!LongestCommonPrefix, C
  <2> HIDE DEF longest
  <2> QED  BY <1>6, <2>1
<1>8. Len(longest) <= Len(s) /\ Len(s) <= Len(longest) /\ Len(longest) \in Nat
  <2>1. \A p \in C : Len(p) \in Nat
    <3> SUFFICES ASSUME NEW r \in {s, t}, NEW l \in 0 .. Len(r) PROVE Len(SubSeq(r, 1, l)) \in Nat
      BY DEF Typing!CommonPrefixes, Typing!Prefixes
    <3>1. r \in Typing!Text
      OBVIOUS
    <3>0. 1 \in Nat \ {0} /\ l \in Nat /\ l <= Len(r)
      BY <1>1
    <3>2. SubSeq(r, 1, l) \in Typing!Text
      BY <3>0, <3>1, PartOf
    <3> QED  BY <3>2, TextFacts
  <2> HIDE DEF C, longest
  <2> QED  BY <2>1, <1>4, <1>5, <1>7
<1> QED  BY <1>1, <1>8

\* A mutation that adds to the end has inserted what it added.
LEMMA InsertedAtEnd ==
  ASSUME NEW s \in Typing!Text, NEW t \in Typing!Text
  PROVE  Typing!insertedText(s, s \o t) = t
<1>1. s \o t \in Typing!Text /\ Len(s \o t) = Len(s) + Len(t) /\ Len(s) \in Nat /\ Len(t) \in Nat
      /\ <<>> \in Typing!Text
  BY TextFacts
<1>2. \A i \in 1 .. Len(s) : s[i] = (s \o t)[i]
  BY TextFacts
<1>3. Len(Typing!LongestCommonPrefix({s, s \o t})) = Len(s)
  <2>1. Len(s) <= Len(s \o t)
    BY <1>1
  <2> QED  BY <1>1, <1>2, <2>1, LongestIs
<1>4. SubSeq(s, Len(s) + 1, Len(s)) = <<>> /\ SubSeq(s \o t, Len(s) + 1, Len(s \o t)) = t
  BY Ends
<1>5. Typing!Reverse(<<>>) = <<>> /\ Typing!Reverse(t) \in Typing!Text
  <2>1. \A i \in 1 .. Len(t) : t[Len(t) - i + 1] \in Char \cup {Typing!Pre}
    BY <1>1, TextFacts
  <2>2. Len(<<>>) = 0 /\ 1 .. 0 = {}
    OBVIOUS
  <2>3. Typing!Reverse(t) \in Typing!Text
    <3> DEFINE r == [i \in 1 .. Len(t) |-> t[Len(t) - i + 1]]
    <3>1. r \in [1 .. Len(t) -> Char \cup {Typing!Pre}]
      BY <2>1
    <3> HIDE DEF r
    <3>2. r \in Seq(Char \cup {Typing!Pre})
      BY <3>1, <1>1
    <3> QED  BY <3>2 DEF r, Typing!Reverse, Typing!Text
  <2>4. Typing!Reverse(<<>>) = <<>>
    BY <2>2 DEF Typing!Reverse
  <2> QED  BY <2>3, <2>4
<1>6. Len(Typing!LongestCommonPrefix({<<>>, Typing!Reverse(t)})) = 0
  <2>1. Len(<<>>) = 0 /\ Len(Typing!Reverse(t)) \in Nat
    BY <1>5, TextFacts
  <2> QED  BY <1>1, <1>5, <2>1, LongestIs
<1>7. SubSeq(t, 1, Len(t) - 0) = t
  BY <1>1, SubSeqFull DEF Typing!Text
<1> QED  BY <1>3, <1>4, <1>5, <1>6, <1>7 DEF Typing!insertedText

-----------------------------------------------------------------------------
(* Steps.                                                                  *)

LEMMA CharText ==
  ASSUME NEW c \in Char
  PROVE  <<c>> \in Typing!Text /\ Len(<<c>>) = 1 /\ <<c>>[1] = c /\ <<c>> \in Seq(Char)
BY DEF Typing!Text

LEMMA SeqText ==
  ASSUME NEW s \in Seq(Char)
  PROVE  s \in Typing!Text
BY SeqMonotonic DEF Typing!Text

LEMMA DueType ==
  ASSUME NEW text \in Typing!Text, NEW x \in XTerm, NEW set,
         set = <<>> \/ \E t \in Timers : set = <<t>>
  PROVE  DueOf(text, x, set) \in Typing!Text
<1>1. CASE set = <<>>
  BY <1>1, TextFacts DEF DueOf
<1>2. ASSUME NEW t \in Timers, set = <<t>> PROVE DueOf(text, x, set) \in Typing!Text
  <2>1. set # <<>> /\ set[1] = t
    BY <1>2
  <2>2. Len(text) \in Nat /\ t.start + x.already \in Nat /\ x.start \in Nat /\ Len(t.old) \in Nat
    BY TextFacts DEF Timers, XTerm
  <2>3. Part(text, t.start + x.already, IF x.composing THEN x.start ELSE Len(text)) \in Typing!Text
    BY <2>2, PartText
  <2>4. SubSeq(text, Len(t.old) + 1, Len(text)) \in Typing!Text
    <3>1. Len(t.old) + 1 \in Nat \ {0} /\ Len(text) <= Len(text)
      BY <2>2
    <3> QED  BY <2>2, <3>1, PartOf
  <2>5. <<>> \in Typing!Text
    BY TextFacts
  <2> QED  BY <2>1, <2>3, <2>4, <2>5 DEF DueOf
<1> QED  BY <1>1, <1>2

LEMMA Untouched ==
  ASSUME NEW text \in Typing!Text, NEW at, Preedits(text, at), NoPreedit(text)
  PROVE  at = Len(text)
<1> DEFINE n == Len(text)
<1>1. n \in Nat /\ at \in 0 .. n
  BY TextFacts DEF Preedits
<1>2. CASE at # n
  <2>1. at + 1 \in at + 1 .. n /\ at + 1 \in 1 .. n
    <3> HIDE DEF n
    <3> QED  BY <1>1, <1>2
  <2>2. text[at + 1] = Typing!Pre /\ text[at + 1] # Typing!Pre
    BY <2>1 DEF NoPreedit, Preedits
  <2> QED  BY <2>2
<1> QED  BY <1>2

LEMMA PreShown ==
  ASSUME NEW text \in Typing!Text
  PROVE  NoPreedit(text) <=> Typing!Pre \notin Typing!Range(text)
<1>1. Len(text) \in Nat /\ DOMAIN text = 1 .. Len(text)
  BY LenProperties DEF Typing!Text
<1>2. Len(text) \in 0 .. Len(text) /\ Len(text) + 1 .. Len(text) = {}
  BY <1>1
<1> QED  BY <1>1, <1>2 DEF NoPreedit, Preedits, Typing!Range

LEMMA StepIs ==
  ASSUME Typing!Next, script # <<>>
  PROVE  \/ Typing!RunTimer /\ Head(script).ev = "start"
         \/ /\ script' = Tail(script)
            /\ \/ Typing!KeyDown(Head(script)) \/ Typing!CompositionStart(Head(script)) \/ Typing!Insert(Head(script))
               \/ Typing!compositionEnd(Head(script)) \/ Typing!Refocus(Head(script))
<1>1. Typing!RunTimer \/ \E e \in Typing!Range(script) :
        Typing!KeyDown(e) \/ Typing!CompositionStart(e) \/ Typing!Insert(e) \/ Typing!compositionEnd(e) \/ Typing!Refocus(e)
  BY DEF Typing!Next, Typing!PlainKey, Typing!Dictate, Typing!Direct,
     Typing!OrphanCommit, Typing!Compose, Typing!Commit, Typing!Leave, Typing!Enter,
     Typing!Press
<1>2. CASE Typing!RunTimer
  BY <1>2 DEF Typing!RunTimer
<1>3. ASSUME NEW e \in Typing!Range(script),
             Typing!KeyDown(e) \/ Typing!CompositionStart(e) \/ Typing!Insert(e) \/ Typing!compositionEnd(e) \/ Typing!Refocus(e)
      PROVE  e = Head(script) /\ script' = Tail(script)
  BY <1>3 DEF Typing!KeyDown, Typing!CompositionStart, Typing!Insert,
     Typing!compositionEnd, Typing!Refocus, Typing!Next1
<1> QED  BY <1>1, <1>2, <1>3

\* The timer sends what is due.
LEMMA TimerRuns ==
  ASSUME Plausible, Typing!RunTimer
  PROVE  /\ timers' = <<>> /\ sent' = sent \o Due /\ sent' \in Typing!Text /\ xterm' \in XTerm /\ Due' = <<>>
         /\ Plausible'
         /\ xterm'.composing = xterm.composing /\ xterm'.start = xterm.start
         /\ xterm'.end = xterm.end /\ (xterm.composing => xterm'.already = xterm.already)
         /\ UNCHANGED <<os, value, guard, script, typed, keys>>
<1>1. PICK t \in Timers : timers = <<t>> /\ (t.is = "send" => xterm.sending)
  BY DEF Plausible, Typing!RunTimer
<1>2. Head(timers) = t /\ timers[1] = t /\ Tail(timers) = <<>> /\ timers # <<>>
  BY <1>1
<1>3. timers' = <<>> /\ UNCHANGED <<os, value, guard, script, typed, keys>>
  BY <1>2 DEF Typing!RunTimer
<1>4. value \in Typing!Text /\ sent \in Typing!Text /\ xterm \in XTerm /\ Len(value) \in Nat
      /\ Due \in Typing!Text
  BY <1>1, TextFacts, DueType DEF Plausible, Due
<1>5. Due' = <<>>
  BY <1>3 DEF Due, DueOf
<1>6. CASE t.is = "send"
  <2>1. xterm' = [xterm EXCEPT !.sending = FALSE] /\ sent' = sent \o Typing!Committed(t)
    BY <1>1, <1>2, <1>6 DEF Typing!RunTimer
  <2>2. t.start + xterm.already \in Nat /\ xterm.start \in Nat
    BY <1>4 DEF Timers, XTerm
  <2>3. Typing!Committed(t) = Due
    BY <1>2, <1>4, <1>6, <2>2, SubstringIs DEF Typing!Committed, Due, DueOf
  <2>4. xterm' \in XTerm
    BY <1>4, <2>1 DEF XTerm
  <2>5. /\ xterm'.composing = xterm.composing /\ xterm'.start = xterm.start
        /\ xterm'.end = xterm.end /\ xterm'.already = xterm.already
    BY <1>4, <2>1 DEF XTerm
  <2>6. sent' = sent \o Due /\ sent' \in Typing!Text
    BY <1>4, <2>1, <2>3, TextFacts
  <2>7. Plausible'
    BY <1>3, <2>4, <2>6 DEF Plausible
  <2> QED  BY <1>3, <1>5, <2>4, <2>5, <2>6, <2>7
<1>7. CASE t.is # "send" /\ xterm.composing
  <2>1. xterm' = xterm /\ sent' = sent
    BY <1>2, <1>7 DEF Typing!RunTimer
  <2>2. Due = <<>>
    BY <1>2, <1>7 DEF Due, DueOf
  <2>3. sent' = sent \o Due /\ sent' \in Typing!Text
    BY <1>4, <2>1, <2>2, TextFacts
  <2>4. Plausible'
    BY <1>3, <1>4, <2>1, <2>3 DEF Plausible
  <2> QED  BY <1>3, <1>4, <1>5, <2>1, <2>3, <2>4
<1>8. CASE t.is # "send" /\ ~xterm.composing
  <2>1. xterm' = [xterm EXCEPT !.already = Len(Typing!Grown(t))] /\ sent' = sent \o Typing!Grown(t)
    BY <1>2, <1>8 DEF Typing!RunTimer
  <2>2. Typing!Grown(t) = Due
    BY <1>2, <1>8 DEF Due, DueOf, Typing!Grown
  <2>3. Len(Due) \in Nat
    BY <1>4, TextFacts
  <2>4. xterm' \in XTerm
    BY <1>4, <2>1, <2>2, <2>3 DEF XTerm
  <2>5. /\ xterm'.composing = xterm.composing /\ xterm'.start = xterm.start
        /\ xterm'.end = xterm.end
    BY <1>4, <2>1 DEF XTerm
  <2>6. sent' = sent \o Due /\ sent' \in Typing!Text
    BY <1>4, <2>1, <2>2, TextFacts
  <2>7. Plausible'
    BY <1>3, <2>4, <2>6 DEF Plausible
  <2> QED  BY <1>3, <1>5, <1>8, <2>4, <2>5, <2>6, <2>7
<1> QED  BY <1>6, <1>7, <1>8

\* What became of the promise that everything typed is sent or due.
LEMMA StillOwes ==
  ASSUME Plausible, NEW w \in Typing!Text, NEW v \in Typing!Text, Owes(w), sent' \in Typing!Text,
         typed' = typed, Due' \in Typing!Text,
         \/ sent' = sent /\ Due' = Due /\ v = w
         \/ sent' = sent \o Due /\ Due' = <<>> /\ v = w
         \/ sent' = sent /\ Due = <<>> /\ Due' = w /\ v = <<>>
         \/ sent' = sent \o w /\ Due = <<>> /\ Due' = <<>> /\ v = <<>>
  PROVE  Owes(v)'
<1>1. sent \in Typing!Text /\ Due \in Typing!Text
  BY DueType DEF Plausible, Due
<1>2. sent \o Due \in Typing!Text /\ sent \o w \in Typing!Text /\ <<>> \in Typing!Text
  BY <1>1, TextFacts
<1>3. /\ \A s \in Typing!Text : s \o <<>> = s
      /\ typed' = (sent \o Due) \o w
  BY TextFacts DEF Owes
<1>4. typed' = (sent' \o Due') \o v
  BY <1>1, <1>2, <1>3
<1> QED  BY <1>4 DEF Owes

Kept == UNCHANGED <<os, typed, keys>>

\* A key of the input method.
LEMMA ImeKey ==
  ASSUME Plausible, Unset, Typing!KeyDown(Typing!Key(TRUE, <<>>))
  PROVE  /\ Plausible' /\ Kept /\ UNCHANGED <<value, xterm, sent>>
         /\ guard'.ime /\ guard'.target = guard.target
         /\ timers' = IF xterm.composing THEN <<>> ELSE <<Typing!Timer("diff", value, 0, 0)>>
         /\ Due = <<>> /\ Due' = <<>>
<1>1. Typing!Key(TRUE, <<>>).ime = TRUE
  BY DEF Typing!Key
<1>2. /\ guard' = [guard EXCEPT !.ime = TRUE, !.pending = None]
      /\ timers' = IF xterm.composing THEN timers ELSE Append(timers, Typing!Timer("diff", value, 0, 0))
      /\ UNCHANGED <<xterm, sent, os, value, typed, keys>>
  BY <1>1 DEF Typing!KeyDown
<1>3. timers' = IF xterm.composing THEN <<>> ELSE <<Typing!Timer("diff", value, 0, 0)>>
  BY <1>2 DEF Unset
<1>4. guard' \in [target : BOOLEAN, ime : BOOLEAN, pending : {None}] /\ guard'.ime
      /\ guard'.target = guard.target
  BY <1>2 DEF Plausible
<1>5. Typing!Timer("diff", value, 0, 0) \in Timers /\ Typing!Timer("diff", value, 0, 0).is = "diff"
      /\ Typing!Timer("diff", value, 0, 0).old = value
  BY DEF Typing!Timer, Timers, Plausible
<1>6. Plausible'
  BY <1>2, <1>3, <1>4, <1>5 DEF Plausible
<1>7. Due = <<>>
  BY DEF Due, DueOf, Unset
<1>8. value \in Typing!Text /\ SubSeq(value, Len(value) + 1, Len(value)) = <<>>
  BY Ends DEF Plausible
<1>9. Due' = <<>>
  <2>1. CASE xterm.composing
    BY <1>2, <1>3, <2>1 DEF Due, DueOf
  <2>2. CASE ~xterm.composing
    <3>1. timers' # <<>> /\ timers'[1] = Typing!Timer("diff", value, 0, 0)
      BY <1>3, <2>2
    <3> QED  BY <1>2, <1>5, <1>8, <2>2, <3>1 DEF Due, DueOf
  <2> QED  BY <2>1, <2>2
<1> QED  BY <1>2, <1>3, <1>4, <1>6, <1>7, <1>9 DEF Kept

\* A key that xterm sends itself; what it still composed is nothing.
LEMMA PlainKeySent ==
  ASSUME Plausible, Unset, Unmarked, NEW c \in Char, Typing!KeyDown(Typing!Key(FALSE, <<c>>))
  PROVE  /\ Plausible' /\ Kept /\ UNCHANGED value
         /\ sent' = sent \o <<c>> /\ sent' \in Typing!Text
         /\ ~xterm'.composing /\ ~guard'.ime /\ guard'.target = guard.target
         /\ timers' = <<>> /\ Due = <<>> /\ Due' = <<>>
<1>1. Typing!Key(FALSE, <<c>>).ime = FALSE /\ Typing!Key(FALSE, <<c>>).text = <<c>>
  BY DEF Typing!Key
<1>2. /\ guard' = [guard EXCEPT !.ime = FALSE, !.pending = None]
      /\ xterm' = [xterm EXCEPT !.composing = FALSE, !.sending = FALSE]
      /\ sent' = (IF xterm.composing THEN sent \o Typing!substring(xterm.start, xterm.end) ELSE sent)
                   \o <<c>>
      /\ UNCHANGED <<timers, os, value, typed, keys>>
  BY <1>1 DEF Typing!KeyDown
<1>3. value \in Typing!Text /\ sent \in Typing!Text /\ xterm \in XTerm /\ <<c>> \in Typing!Text
  BY CharText DEF Plausible
<1>4. xterm.composing => Typing!substring(xterm.start, xterm.end) = <<>>
  <2> SUFFICES ASSUME xterm.composing PROVE Typing!substring(xterm.start, xterm.end) = <<>>
    OBVIOUS
  <2>1. Preedits(value, xterm.start) /\ NoPreedit(value) /\ xterm.start <= xterm.end
    BY DEF Unmarked, Steady, Open, Shut
  <2>2. xterm.start = Len(value) /\ xterm.start \in Nat /\ xterm.end \in Nat
    BY <1>3, <2>1, Untouched DEF XTerm
  <2>3. Part(value, xterm.start, xterm.end) = <<>>
    BY <1>3, <2>1, <2>2, PartText
  <2> QED  BY <1>3, <2>2, <2>3, SubstringIs
<1>5. sent' = sent \o <<c>> /\ sent' \in Typing!Text
  <2>1. sent \o <<c>> \in Typing!Text
    BY <1>3, TextFacts
  <2>2. sent \o <<>> = sent
    BY <1>3, TextFacts
  <2>3. (IF xterm.composing THEN sent \o Typing!substring(xterm.start, xterm.end) ELSE sent) = sent
    BY <1>4, <2>2
  <2>4. sent' = sent \o <<c>>
    BY <1>2, <2>3
  <2> QED  BY <2>1, <2>4
<1>6. xterm' \in XTerm /\ ~xterm'.composing
  BY <1>2, <1>3 DEF XTerm
<1>7. guard' \in [target : BOOLEAN, ime : BOOLEAN, pending : {None}] /\ ~guard'.ime
      /\ guard'.target = guard.target
  BY <1>2 DEF Plausible
<1>8. timers' = <<>>
  BY <1>2 DEF Unset
<1>9. Plausible'
  BY <1>2, <1>5, <1>6, <1>7, <1>8 DEF Plausible
<1>10. Due = <<>> /\ Due' = <<>>
  BY <1>8 DEF Due, DueOf, Unset
<1> QED  BY <1>2, <1>5, <1>6, <1>7, <1>8, <1>9, <1>10 DEF Kept

\* What the guard has of a mutation is no None.
LEMMA PendingIs ==
  ASSUME Typing!CompositionAssumption, value \in Typing!Text, NEW d \in Typing!Text \cup {None}, NEW b \in BOOLEAN
  PROVE  [value |-> value, deliver |-> d, echo |-> b] # None
BY DEF Typing!CompositionAssumption, Typing!Text

\* The guard takes back the echo of a key.
LEMMA EchoUndone ==
  ASSUME Typing!CompositionAssumption, Plausible, NEW e, Typing!Insert(e), NEW c \in Char,
         e.type = "insertText", e.text = <<c>>, e.dictated \in BOOLEAN,
         os = "linux", ~guard.target, ~guard.ime
  PROVE  /\ Kept /\ UNCHANGED <<value, xterm, timers>>
         /\ sent' = IF e.dictated THEN sent \o <<c>> ELSE sent
         /\ guard' = guard
<1> DEFINE p == [value |-> value, deliver |-> None, echo |-> TRUE]
<1>1. Typing!beforeInput("insertText", <<c>>) = p
  BY DEF Typing!beforeInput
<1>2. p # None /\ p.value = value
  BY PendingIs DEF Plausible
<1>3. \A new : Typing!Delivered(p, new) = <<>>
  BY DEF Typing!Delivered
<1>4. /\ value' = value /\ sent' = (IF e.dictated THEN sent \o <<c>> ELSE sent) \o <<>>
      /\ guard' = [guard EXCEPT !.pending = None] /\ xterm' = xterm
      /\ UNCHANGED <<os, timers, typed, keys>>
  <2> HIDE DEF p
  <2> QED  BY <1>1, <1>2, <1>3 DEF Typing!Insert
<1>5. guard' = guard
  BY <1>4 DEF Plausible
<1>6. (IF e.dictated THEN sent \o <<c>> ELSE sent) \in Typing!Text
  BY CharText, TextFacts DEF Plausible
<1>7. sent' = IF e.dictated THEN sent \o <<c>> ELSE sent
  BY <1>4, <1>6, TextFacts
<1> QED  BY <1>4, <1>5, <1>7 DEF Kept

\* It delivers the commit that had no start, and takes it out of the text.
LEMMA OrphanDelivered ==
  ASSUME Typing!CompositionAssumption, Plausible, NEW c \in Char, NoPreedit(value),
         Typing!Insert(Typing!Mutation("insertFromComposition", <<c>>)), os = "linux", ~guard.target
  PROVE  /\ Kept /\ UNCHANGED <<value, xterm, timers>>
         /\ sent' = sent \o <<c>> /\ guard' = guard
<1> DEFINE e == Typing!Mutation("insertFromComposition", <<c>>)
<1>1. e.type = "insertFromComposition" /\ e.text = <<c>> /\ e.dictated = FALSE
  BY DEF Typing!Mutation
<1>2. value \in Typing!Text /\ sent \in Typing!Text /\ <<c>> \in Typing!Text
  BY CharText DEF Plausible
<1>3. Typing!Settled(value) = value
  BY <1>2, SettledIs DEF NoPreedit
<1>4. PICK data \in {<<c>>, None} :
        LET pending == Typing!beforeInput(e.type, data)
            new == Typing!Settled(value) \o e.text IN
        IF pending = None
        THEN value' = new /\ sent' = IF e.dictated THEN sent \o e.text ELSE sent
        ELSE /\ value' = pending.value
             /\ sent' = (IF e.dictated THEN sent \o e.text ELSE sent) \o Typing!Delivered(pending, new)
  BY <1>1 DEF Typing!Insert
<1> DEFINE p == [value |-> value, deliver |-> data, echo |-> FALSE]
<1>5. Typing!beforeInput(e.type, data) = p
  BY <1>1 DEF Typing!beforeInput
<1>6. p # None /\ p.value = value /\ p.echo = FALSE /\ p.deliver = data
  BY <1>2, PendingIs
<1>7. Typing!Delivered(p, value \o <<c>>) = <<c>>
  <2>1. Typing!insertedText(value, value \o <<c>>) = <<c>>
    BY <1>2, InsertedAtEnd
  <2> HIDE DEF p
  <2> QED  BY <1>4, <1>6, <2>1 DEF Typing!Delivered
<1>8. value' = value /\ sent' = sent \o <<c>>
  <2> HIDE DEF p, e
  <2> QED  BY <1>1, <1>3, <1>4, <1>5, <1>6, <1>7
<1>9. /\ guard' = [guard EXCEPT !.pending = None] /\ xterm' = xterm
      /\ UNCHANGED <<os, timers, typed, keys>>
  BY <1>1 DEF Typing!Insert
<1>10. guard' = guard
  BY <1>9 DEF Plausible
<1> QED  BY <1>8, <1>9, <1>10 DEF Kept

\* A mutation that is left to xterm replaces the preedit.
LEMMA Inserted ==
  ASSUME Typing!CompositionAssumption, Plausible, NEW e, Typing!Insert(e), e.text \in Typing!Text, e.dictated \in BOOLEAN,
         \/ e.type = "insertCompositionText"
         \/ e.type = "insertFromComposition" /\ (os = "mac" \/ guard.target)
         \/ e.type = "insertText" /\ (os = "mac" \/ guard.ime)
  PROVE  /\ Kept /\ UNCHANGED timers /\ guard' = guard
         /\ value' = Typing!Settled(value) \o e.text
         /\ sent' = IF e.dictated THEN sent \o e.text ELSE sent
         /\ xterm' = IF e.type = "insertCompositionText" THEN [xterm EXCEPT !.end = Len(value')]
                     ELSE xterm
<1>1. guard.pending = None /\ os \in {"linux", "mac"} /\ (os = "mac" => os # "linux")
  BY DEF Plausible
<1>2. \A data : Typing!beforeInput(e.type, data) = None
  BY <1>1 DEF Typing!beforeInput
<1>3. /\ value' = Typing!Settled(value) \o e.text /\ sent' = IF e.dictated THEN sent \o e.text ELSE sent
      /\ guard' = [guard EXCEPT !.pending = None]
      /\ xterm' = IF e.type = "insertCompositionText" THEN [xterm EXCEPT !.end = Len(value')]
                  ELSE xterm
      /\ UNCHANGED <<os, timers, typed, keys>>
  BY <1>2 DEF Typing!Insert
<1>4. guard' = guard
  BY <1>3 DEF Plausible
<1> QED  BY <1>3, <1>4 DEF Kept

LEMMA EmptyText == <<>> \in Typing!Text
BY DEF Typing!Text

LEMMA DueText ==
  Plausible => Due \in Typing!Text
BY DueType DEF Plausible, Due

\* A committed text behind one without a preedit.
LEMMA ClearGrows ==
  ASSUME Typing!CompositionAssumption, NEW text \in Typing!Text, NEW c \in Char, NoPreedit(text)
  PROVE  text \o <<c>> \in Typing!Text /\ NoPreedit(text \o <<c>>)
<1>1. <<c>> \in Typing!Text /\ <<c>>[1] = c /\ Len(<<c>>) = 1 /\ c # Typing!Pre
  BY CharText DEF Typing!CompositionAssumption
<1> DEFINE both == text \o <<c>>
<1>2. /\ both \in Typing!Text /\ Len(both) = Len(text) + 1 /\ Len(text) \in Nat
      /\ \A i \in 1 .. Len(text) : both[i] = text[i]
      /\ \A i \in 1 .. Len(<<c>>) : both[Len(text) + i] = <<c>>[i]
  BY <1>1, TextFacts
<1>3. both[Len(text) + 1] = c
  BY <1>1, <1>2
<1>4. \A i \in 1 .. Len(text) : text[i] # Typing!Pre
  BY DEF NoPreedit, Preedits
<1> HIDE DEF both
<1>5. ASSUME NEW i \in 1 .. Len(both) PROVE both[i] # Typing!Pre
  <2>1. i \in 1 .. Len(text) \/ i = Len(text) + 1
    BY <1>2
  <2> QED  BY <1>1, <1>2, <1>3, <1>4, <2>1
<1>6. Len(both) \in 0 .. Len(both) /\ Len(both) + 1 .. Len(both) = {}
  BY <1>2
<1>7. NoPreedit(both)
  BY <1>5, <1>6 DEF NoPreedit, Preedits
<1> QED  BY <1>2, <1>7 DEF both

\* Each script in turn, from its first event to the next.
LEMMA PlainKeyedGoes ==
  ASSUME Typing!CompositionAssumption, Plausible, PlainKeyed, Typing!Next
  PROVE  Plausible' /\ (AtRest' \/ Echoed')
<1>1. PICK c \in Char :
        /\ script = (IF os = "linux" THEN <<Typing!Key(FALSE, <<c>>), Typing!Mutation("insertText", <<c>>)>>
                     ELSE <<Typing!Key(FALSE, <<c>>)>>)
        /\ Unmarked /\ Unset /\ Owes(<<c>>)
  BY DEF PlainKeyed
<1>2. /\ script # <<>> /\ Head(script) = Typing!Key(FALSE, <<c>>)
      /\ Tail(script) = (IF os = "linux" THEN <<Typing!Mutation("insertText", <<c>>)>> ELSE <<>>)
  BY <1>1
<1>3. Head(script).ev = "keydown"
  BY <1>2 DEF Typing!Key
<1>4. Typing!KeyDown(Typing!Key(FALSE, <<c>>)) /\ script' = Tail(script)
  BY <1>2, <1>3, StepIs DEF Typing!CompositionStart, Typing!Insert,
     Typing!compositionEnd, Typing!Refocus
<1>5. /\ Plausible' /\ Kept /\ UNCHANGED value
      /\ sent' = sent \o <<c>> /\ sent' \in Typing!Text
      /\ ~xterm'.composing /\ ~guard'.ime /\ guard'.target = guard.target
      /\ timers' = <<>> /\ Due = <<>> /\ Due' = <<>>
  BY <1>1, <1>4, PlainKeySent
<1>6. Owes(<<>>)'
  BY <1>1, <1>5, CharText, EmptyText, DueText, StillOwes DEF Kept
<1>7. Shut' /\ Unmarked' /\ Steady' /\ NoPreedit(value')
  BY <1>1, <1>5 DEF Unmarked, Steady, Shut
<1>8. CASE os = "linux"
  <2>1. Echoed'
    BY <1>1, <1>2, <1>4, <1>5, <1>6, <1>7, <1>8 DEF Echoed, Unset, Kept
  <2> QED  BY <1>5, <2>1
<1>9. CASE os # "linux"
  <2>1. AtRest'
    BY <1>1, <1>2, <1>4, <1>5, <1>6, <1>7, <1>9 DEF AtRest, Unmarked
  <2> QED  BY <1>5, <2>1
<1> QED  BY <1>8, <1>9

LEMMA EchoedGoes ==
  ASSUME Typing!CompositionAssumption, Plausible, Echoed, Typing!Next
  PROVE  Plausible' /\ AtRest'
<1>1. PICK c \in Char :
        /\ script = <<Typing!Mutation("insertText", <<c>>)>> /\ os = "linux" /\ ~guard.ime
        /\ Unmarked /\ Shut /\ Unset /\ Owes(<<>>)
  BY DEF Echoed
<1> DEFINE e == Typing!Mutation("insertText", <<c>>)
<1>2. /\ script # <<>> /\ Head(script) = e /\ Tail(script) = <<>>
      /\ e.ev = "insert" /\ e.type = "insertText" /\ e.text = <<c>> /\ e.dictated = FALSE
  BY <1>1 DEF Typing!Mutation
<1> HIDE DEF e
<1>3. Typing!Insert(e) /\ script' = <<>>
  BY <1>2, StepIs DEF Typing!KeyDown, Typing!CompositionStart, Typing!compositionEnd,
     Typing!Refocus
<1>4. /\ Kept /\ UNCHANGED <<value, xterm, timers>>
      /\ sent' = IF e.dictated THEN sent \o <<c>> ELSE sent
      /\ guard' = guard
  BY <1>1, <1>2, <1>3, EchoUndone DEF Unmarked
<1>5. sent' = sent
  BY <1>2, <1>4
<1>6. Plausible'
  BY <1>4, <1>5 DEF Plausible, Kept
<1>7. AtRest'
  BY <1>1, <1>3, <1>4, <1>5 DEF AtRest, Steady, Shut, Unmarked, Owes, Due, Kept
<1> QED  BY <1>6, <1>7

LEMMA DictatedGoes ==
  ASSUME Typing!CompositionAssumption, Plausible, DictatedTo, Typing!Next
  PROVE  Plausible' /\ AtRest'
<1>1. PICK c \in Char :
        script = <<Typing!Dictated(<<c>>)>> /\ Unmarked /\ Shut /\ Unset /\ Owes(<<c>>)
  BY DEF DictatedTo
<1> DEFINE e == Typing!Dictated(<<c>>)
<1>2. /\ script # <<>> /\ Head(script) = e /\ Tail(script) = <<>>
      /\ e.ev = "insert" /\ e.type = "insertText" /\ e.text = <<c>> /\ e.dictated = TRUE
  BY <1>1 DEF Typing!Dictated, Typing!Mutation
<1> HIDE DEF e
<1>3. Typing!Insert(e) /\ script' = <<>>
  BY <1>2, StepIs DEF Typing!KeyDown, Typing!CompositionStart, Typing!compositionEnd,
     Typing!Refocus
<1>4. <<c>> \in Typing!Text /\ <<c>>[1] = c /\ Len(<<c>>) = 1 /\ c # Typing!Pre /\ value \in Typing!Text /\ sent \in Typing!Text
  BY CharText DEF Plausible, Typing!CompositionAssumption
<1>5. Typing!Settled(value) = value
  BY <1>1, <1>4, SettledIs DEF Shut, NoPreedit
<1>6. /\ Kept /\ UNCHANGED <<xterm, timers>> /\ sent' = sent \o <<c>> /\ guard' = guard
      /\ value' = value \/ value' = value \o <<c>>
  <2>1. CASE os = "linux" /\ ~guard.ime
    BY <1>1, <1>2, <1>3, <2>1, EchoUndone DEF Unmarked
  <2>2. CASE os = "mac" \/ guard.ime
    BY <1>2, <1>3, <1>4, <1>5, <2>2, Inserted
  <2> QED  BY <2>1, <2>2 DEF Plausible
<1>7. NoPreedit(value') /\ value' \in Typing!Text
  <2>1. CASE value' = value
    BY <1>1, <1>4, <2>1 DEF Shut
  <2>2. CASE value' = value \o <<c>>
    BY <1>1, <1>4, <2>2, ClearGrows DEF Shut
  <2> QED  BY <1>6, <2>1, <2>2
<1>8. sent' \in Typing!Text /\ Due = <<>> /\ Due' = <<>>
  BY <1>1, <1>4, <1>6, TextFacts DEF Unset, Due, DueOf
<1>9. Plausible'
  BY <1>6, <1>7, <1>8 DEF Plausible, Kept
<1>10. Owes(<<>>)'
  BY <1>1, <1>4, <1>6, <1>8, EmptyText, StillOwes DEF Kept
<1>11. AtRest'
  BY <1>1, <1>3, <1>6, <1>7, <1>10 DEF AtRest, Steady, Shut, Unmarked
<1> QED  BY <1>9, <1>11

LEMMA DirectKeyedGoes ==
  ASSUME Typing!CompositionAssumption, Plausible, DirectKeyed, Typing!Next
  PROVE  Plausible' /\ Directed'
<1>1. PICK c \in Char :
        /\ script = <<Typing!Key(TRUE, <<>>), Typing!Mutation("insertText", <<c>>)>>
        /\ Unmarked /\ Shut /\ Unset /\ Owes(<<c>>)
  BY DEF DirectKeyed
<1>2. /\ script # <<>> /\ Head(script) = Typing!Key(TRUE, <<>>) /\ Typing!Key(TRUE, <<>>).ev = "keydown"
      /\ Tail(script) = <<Typing!Mutation("insertText", <<c>>)>>
  BY <1>1 DEF Typing!Key
<1>3. Typing!KeyDown(Typing!Key(TRUE, <<>>)) /\ script' = Tail(script)
  BY <1>2, StepIs DEF Typing!CompositionStart, Typing!Insert, Typing!compositionEnd,
     Typing!Refocus
<1>4. /\ Plausible' /\ Kept /\ UNCHANGED <<value, xterm, sent>>
      /\ guard'.ime /\ guard'.target = guard.target
      /\ timers' = IF xterm.composing THEN <<>> ELSE <<Typing!Timer("diff", value, 0, 0)>>
      /\ Due = <<>> /\ Due' = <<>>
  BY <1>1, <1>3, ImeKey
<1>5. Shut' /\ Unmarked' /\ timers' = <<Typing!Timer("diff", value', 0, 0)>>
  BY <1>1, <1>4 DEF Shut, Unmarked, Steady
<1>6. Owes(<<c>>)'
  BY <1>1, <1>4, CharText, EmptyText, StillOwes DEF Kept, Plausible
<1>7. Directed'
  BY <1>2, <1>3, <1>4, <1>5, <1>6 DEF Directed, Typing!Timer
<1> QED  BY <1>4, <1>7

LEMMA DirectedGoes ==
  ASSUME Typing!CompositionAssumption, Plausible, Directed, Typing!Next
  PROVE  Plausible' /\ AtRest'
<1>1. PICK c \in Char :
        /\ script = <<Typing!Mutation("insertText", <<c>>)>> /\ guard.ime
        /\ Unmarked /\ Shut /\ timers = <<Typing!Timer("diff", value, 0, 0)>> /\ Owes(<<c>>)
  BY DEF Directed
<1> DEFINE e == Typing!Mutation("insertText", <<c>>)
<1>2. /\ script # <<>> /\ Head(script) = e /\ Tail(script) = <<>>
      /\ e.ev = "insert" /\ e.type = "insertText" /\ e.text = <<c>> /\ e.dictated = FALSE
  BY <1>1 DEF Typing!Mutation
<1> HIDE DEF e
<1>3. Typing!Insert(e) /\ script' = <<>>
  BY <1>2, StepIs DEF Typing!KeyDown, Typing!CompositionStart, Typing!compositionEnd,
     Typing!Refocus
<1>4. <<c>> \in Typing!Text /\ value \in Typing!Text /\ sent \in Typing!Text
  BY CharText DEF Plausible
<1>5. Typing!Settled(value) = value
  BY <1>1, <1>4, SettledIs DEF Shut, NoPreedit
<1>6. /\ Kept /\ UNCHANGED <<xterm, timers, sent>> /\ guard' = guard /\ value' = value \o <<c>>
  BY <1>1, <1>2, <1>3, <1>4, <1>5, Inserted
<1>7. NoPreedit(value') /\ value' \in Typing!Text
  BY <1>1, <1>4, <1>6, ClearGrows DEF Shut
<1>8. timers[1] = Typing!Timer("diff", value, 0, 0) /\ timers # <<>> /\ timers[1].is = "diff"
      /\ timers[1].old = value
  BY <1>1 DEF Typing!Timer
<1>9. Due = <<>> /\ Due' = <<c>>
  <2>1. /\ SubSeq(value, Len(value) + 1, Len(value)) = <<>>
        /\ SubSeq(value \o <<c>>, Len(value) + 1, Len(value \o <<c>>)) = <<c>>
    BY <1>4, Ends
  <2>2. ~xterm.composing
    BY <1>1 DEF Shut
  <2>3. Due = <<>>
    BY <1>8, <2>1, <2>2 DEF Due, DueOf
  <2>4. timers' # <<>> /\ timers'[1].is = "diff" /\ timers'[1].old = value /\ ~xterm'.composing
    BY <1>6, <1>8, <2>2
  <2>5. Due' = SubSeq(value', Len(value) + 1, Len(value'))
    BY <2>4 DEF Due, DueOf
  <2>6. Due' = <<c>>
    BY <1>6, <2>1, <2>5
  <2> QED  BY <2>3, <2>6
<1>10. Plausible'
  BY <1>6, <1>7 DEF Plausible, Kept
<1>11. Owes(<<>>)'
  BY <1>1, <1>4, <1>6, <1>9, EmptyText, StillOwes DEF Kept
<1>12. AtRest'
  BY <1>1, <1>3, <1>6, <1>7, <1>11 DEF AtRest, Steady, Shut, Unmarked
<1> QED  BY <1>10, <1>12

LEMMA OrphanKeyedGoes ==
  ASSUME Typing!CompositionAssumption, Plausible, OrphanKeyed, Typing!Next
  PROVE  Plausible' /\ Orphaned'
<1>1. PICK c \in Char :
        /\ script = <<Typing!Key(TRUE, <<>>), Typing!Mutation("insertFromComposition", <<c>>), Typing!Bare("end")>>
        /\ os = "linux" /\ Unmarked /\ Unset /\ Owes(<<c>>)
  BY DEF OrphanKeyed
<1>2. /\ script # <<>> /\ Head(script) = Typing!Key(TRUE, <<>>) /\ Typing!Key(TRUE, <<>>).ev = "keydown"
      /\ Tail(script) = <<Typing!Mutation("insertFromComposition", <<c>>), Typing!Bare("end")>>
  BY <1>1 DEF Typing!Key
<1>3. Typing!KeyDown(Typing!Key(TRUE, <<>>)) /\ script' = Tail(script)
  BY <1>2, StepIs DEF Typing!CompositionStart, Typing!Insert, Typing!compositionEnd,
     Typing!Refocus
<1>4. /\ Plausible' /\ Kept /\ UNCHANGED <<value, xterm, sent>>
      /\ guard'.ime /\ guard'.target = guard.target
      /\ timers' = IF xterm.composing THEN <<>> ELSE <<Typing!Timer("diff", value, 0, 0)>>
      /\ Due = <<>> /\ Due' = <<>>
  BY <1>1, <1>3, ImeKey
<1>5. Unmarked' /\ NoGrowth'
  BY <1>1, <1>4 DEF Shut, Open, Unmarked, Steady, NoGrowth, Typing!Timer
<1>6. Owes(<<c>>)'
  BY <1>1, <1>4, CharText, EmptyText, StillOwes DEF Kept, Plausible
<1>7. Orphaned'
  BY <1>1, <1>2, <1>3, <1>4, <1>5, <1>6 DEF Orphaned, Kept
<1> QED  BY <1>4, <1>7

\* Nothing is due while the text is as it was when the timer was set.
LEMMA NoGrowthNoDue ==
  ASSUME value \in Typing!Text, NoGrowth
  PROVE  Due = <<>>
<1>1. SubSeq(value, Len(value) + 1, Len(value)) = <<>>
  BY Ends
<1>2. CASE timers = <<>>
  BY <1>2 DEF Due, DueOf
<1>3. CASE timers = <<Typing!Timer("diff", value, 0, 0)>>
  <2>1. timers # <<>> /\ timers[1].is = "diff" /\ timers[1].old = value
    BY <1>3 DEF Typing!Timer
  <2> QED  BY <1>1, <2>1 DEF Due, DueOf
<1> QED  BY <1>2, <1>3 DEF NoGrowth

LEMMA OrphanedGoes ==
  ASSUME Typing!CompositionAssumption, Plausible, Orphaned, Typing!Next
  PROVE  Plausible' /\ OrphanEnds'
<1>1. PICK c \in Char :
        /\ script = <<Typing!Mutation("insertFromComposition", <<c>>), Typing!Bare("end")>>
        /\ os = "linux" /\ Unmarked /\ NoGrowth /\ Owes(<<c>>)
  BY DEF Orphaned
<1> DEFINE e == Typing!Mutation("insertFromComposition", <<c>>)
<1>2. script # <<>> /\ Head(script) = e /\ Tail(script) = <<Typing!Bare("end")>> /\ e.ev = "insert"
  BY <1>1 DEF Typing!Mutation
<1>3. Typing!Insert(e) /\ script' = <<Typing!Bare("end")>>
  <2> HIDE DEF e
  <2> QED  BY <1>2, StepIs DEF Typing!KeyDown, Typing!CompositionStart,
              Typing!compositionEnd, Typing!Refocus
<1>4. /\ Kept /\ UNCHANGED <<value, xterm, timers>>
      /\ sent' = sent \o <<c>> /\ guard' = guard
  BY <1>1, <1>3, OrphanDelivered DEF Unmarked
<1>5. <<c>> \in Typing!Text /\ sent \in Typing!Text /\ sent' \in Typing!Text /\ value \in Typing!Text
  BY <1>4, CharText, TextFacts DEF Plausible
<1>6. Due = <<>> /\ Due' = <<>>
  <2>1. Due = <<>>
    BY <1>1, <1>5, NoGrowthNoDue
  <2>2. Due' = Due
    BY <1>4 DEF Due
  <2> QED  BY <2>1, <2>2
<1>7. Plausible'
  BY <1>4, <1>5 DEF Plausible, Kept
<1>8. Owes(<<>>)'
  BY <1>1, <1>4, <1>5, <1>6, EmptyText, StillOwes DEF Kept
<1>9. Unmarked' /\ NoGrowth'
  BY <1>1, <1>4 DEF Unmarked, Steady, Open, Shut, NoGrowth
<1>10. OrphanEnds'
  BY <1>1, <1>3, <1>4, <1>8, <1>9 DEF OrphanEnds, Kept
<1> QED  BY <1>7, <1>10

LEMMA OrphanEndsGoes ==
  ASSUME Typing!CompositionAssumption, Plausible, OrphanEnds, Typing!Next
  PROVE  Plausible' /\ AtRest'
<1>1. script # <<>> /\ Head(script) = Typing!Bare("end") /\ Tail(script) = <<>> /\ Typing!Bare("end").ev = "end"
  BY DEF OrphanEnds, Typing!Bare
<1>2. Typing!compositionEnd(Typing!Bare("end")) /\ script' = <<>>
  BY <1>1, StepIs DEF Typing!KeyDown, Typing!CompositionStart, Typing!Insert,
     Typing!Refocus
<1>3. os = "linux" /\ ~guard.target /\ Unmarked /\ Owes(<<>>)
  BY DEF OrphanEnds, Unmarked
<1>4. /\ guard' = [guard EXCEPT !.target = FALSE]
      /\ UNCHANGED <<os, value, typed, sent, keys, xterm, timers>>
  BY <1>2, <1>3 DEF Typing!compositionEnd
<1>5. Plausible' /\ ~guard'.target
  BY <1>4 DEF Plausible
<1>6. Owes(<<>>)'
  BY <1>3, <1>4 DEF Owes, Due
<1>7. AtRest'
  BY <1>2, <1>3, <1>4, <1>5, <1>6 DEF AtRest, Unmarked, Steady, Open, Shut
<1> QED  BY <1>5, <1>7

LEMMA ComposeKeyedGoes ==
  ASSUME Typing!CompositionAssumption, Plausible, ComposeKeyed, Typing!Next
  PROVE  Plausible' /\ Starts'
<1>1. PICK n \in {1, 2} :
        /\ script = <<Typing!Key(TRUE, <<>>), Typing!Begins(n)[1], Typing!Begins(n)[2]>>
        /\ Unmarked /\ Unset /\ Owes(<<>>)
  BY DEF ComposeKeyed
<1>2. /\ script # <<>> /\ Head(script) = Typing!Key(TRUE, <<>>) /\ Typing!Key(TRUE, <<>>).ev = "keydown"
      /\ Tail(script) = <<Typing!Begins(n)[1], Typing!Begins(n)[2]>>
  BY <1>1 DEF Typing!Key
<1>3. Typing!KeyDown(Typing!Key(TRUE, <<>>)) /\ script' = Tail(script)
  BY <1>2, StepIs DEF Typing!CompositionStart, Typing!Insert, Typing!compositionEnd,
     Typing!Refocus
<1>4. /\ Plausible' /\ Kept /\ UNCHANGED <<value, xterm, sent>>
      /\ guard'.ime /\ guard'.target = guard.target
      /\ timers' = IF xterm.composing THEN <<>> ELSE <<Typing!Timer("diff", value, 0, 0)>>
      /\ Due = <<>> /\ Due' = <<>>
  BY <1>1, <1>3, ImeKey
<1>5. Unmarked' /\ NoGrowth'
  BY <1>1, <1>4 DEF Shut, Open, Unmarked, Steady, NoGrowth, Typing!Timer
<1>6. Owes(<<>>)'
  BY <1>1, <1>4, EmptyText, StillOwes DEF Kept, Plausible
<1>7. Starts'
  BY <1>2, <1>3, <1>5, <1>6 DEF Starts
<1> QED  BY <1>4, <1>7

LEMMA BeginsIs ==
  ASSUME NEW n \in {1, 2}
  PROVE  LET pre == [i \in 1 .. n |-> Typing!Pre] IN
         /\ Typing!Begins(n)[1] = Typing!Bare("start") /\ Typing!Begins(n)[1].ev = "start"
         /\ Typing!Begins(n)[2] = Typing!Mutation("insertCompositionText", pre) /\ Typing!Begins(n)[2].ev = "insert"
         /\ Typing!Begins(n)[2].type = "insertCompositionText" /\ Typing!Begins(n)[2].text = pre
         /\ Typing!Begins(n)[2].dictated = FALSE
         /\ pre \in Typing!Text /\ Len(pre) = n /\ \A i \in 1 .. n : pre[i] = Typing!Pre
<1> DEFINE pre == [i \in 1 .. n |-> Typing!Pre]
<1>1. n \in Nat /\ pre \in [1 .. n -> Char \cup {Typing!Pre}]
  OBVIOUS
<1>2. pre \in Typing!Text /\ Len(pre) = n
  <2> HIDE DEF pre
  <2> QED  BY <1>1 DEF Typing!Text
<1>3. \A i \in 1 .. n : pre[i] = Typing!Pre
  OBVIOUS
<1> HIDE DEF pre
<1>4. Typing!Begins(n) = <<Typing!Bare("start"), Typing!Mutation("insertCompositionText", pre)>>
  BY DEF Typing!Begins, pre
<1> QED  BY <1>2, <1>3, <1>4 DEF Typing!Bare, Typing!Mutation, pre

\* What the timer of the last composition sends ends before the next one.
LEMMA DueBefore ==
  ASSUME NEW text \in Typing!Text, NEW more \in Typing!Text, NEW x \in XTerm, NEW y \in XTerm, NEW set,
         NEW t \in Timers, set = <<t>>, t.is = "send", x.already = 0, y.already = 0,
         t.start <= Len(text), y.composing, y.start = Len(text),
         x.composing => x.start = Len(text)
  PROVE  DueOf(text \o more, y, set) = DueOf(text, x, set)
<1>1. set # <<>> /\ set[1] = t /\ Len(text) \in Nat /\ Len(more) \in Nat /\ t.start \in Nat
      /\ text \o more \in Typing!Text /\ Len(text \o more) = Len(text) + Len(more)
  BY TextFacts DEF Timers
<1> DEFINE s == t.start
           n == Len(text)
           both == text \o more
<1>2. /\ DueOf(both, y, set) = Part(both, s + 0, n)
      /\ DueOf(text, x, set) = Part(text, s + 0, n)
  BY <1>1 DEF DueOf
<1>3. s + 0 = s /\ n <= Len(both) /\ n <= Len(text)
  BY <1>1
<1>4. Part(both, s, n) = SubSeq(both, s + 1, n) /\ Part(text, s, n) = SubSeq(text, s + 1, n)
  <2>1. both \in Typing!Text
    BY <1>1
  <2> HIDE DEF both
  <2> QED  BY <1>1, <1>3, <2>1, PartText
<1>5. SubSeq(both, s + 1, n) = SubSeq(text, s + 1, n)
  <2> DEFINE p == SubSeq(both, s + 1, n)
             q == SubSeq(text, s + 1, n)
  <2>0. s + 1 \in Nat \ {0} /\ n \in Nat /\ n <= Len(both) /\ n <= Len(text)
    BY <1>1, <1>3
  <2>1. /\ p \in Typing!Text /\ Len(p) = IF s + 1 <= n THEN n - (s + 1) + 1 ELSE 0
        /\ \A i \in 1 .. Len(p) : p[i] = both[s + 1 + i - 1]
    <3>1. both \in Typing!Text
      BY <1>1
    <3> HIDE DEF s, n, both
    <3> QED  BY <3>1, <2>0, PartOf
  <2>2. /\ q \in Typing!Text /\ Len(q) = IF s + 1 <= n THEN n - (s + 1) + 1 ELSE 0
        /\ \A i \in 1 .. Len(q) : q[i] = text[s + 1 + i - 1]
    <3> HIDE DEF s, n, both
    <3> QED  BY <1>1, <2>0, PartOf
  <2> HIDE DEF p, q
  <2>3. ASSUME NEW i \in 1 .. Len(p) PROVE p[i] = q[i]
    <3>1. s + 1 + i - 1 \in 1 .. Len(text)
      BY <1>1, <2>1
    <3>2. both[s + 1 + i - 1] = text[s + 1 + i - 1]
      BY <3>1, TextFacts
    <3> QED  BY <2>1, <2>2, <3>2
  <2>4. p = q
    BY <2>1, <2>2, <2>3, TextEqual
  <2> QED  BY <2>4 DEF p, q
<1> QED  BY <1>2, <1>3, <1>4, <1>5

LEMMA StartsGoes ==
  ASSUME Typing!CompositionAssumption, Plausible, Starts, Typing!Next
  PROVE  Plausible' /\ (Starts' \/ Started')
<1>1. PICK n \in {1, 2} :
        /\ script = <<Typing!Begins(n)[1], Typing!Begins(n)[2]>>
        /\ Unmarked /\ Owes(<<>>)
        /\ NoGrowth \/ (Shut /\ SendsBefore(Len(value)))
  BY DEF Starts
<1>2. /\ script # <<>> /\ Head(script) = Typing!Bare("start") /\ Tail(script) = <<Typing!Begins(n)[2]>>
      /\ Typing!Bare("start").ev = "start"
  BY <1>1, BeginsIs DEF Typing!Bare
<1>3. value \in Typing!Text /\ xterm \in XTerm /\ Len(value) \in Nat /\ Due \in Typing!Text
  BY TextFacts, DueText DEF Plausible
<1>4. CASE Typing!RunTimer
  <2>1. /\ timers' = <<>> /\ sent' = sent \o Due /\ sent' \in Typing!Text /\ Due' = <<>>
        /\ Plausible'
        /\ xterm'.composing = xterm.composing /\ xterm'.start = xterm.start
        /\ xterm'.end = xterm.end /\ (xterm.composing => xterm'.already = xterm.already)
        /\ UNCHANGED <<os, value, guard, script, typed, keys>>
    BY <1>4, TimerRuns
  <2>2. Owes(<<>>)'
    BY <1>1, <2>1, EmptyText, StillOwes
  <2>3. Unmarked' /\ NoGrowth'
    BY <1>1, <2>1 DEF Unmarked, Steady, Open, Shut, NoGrowth
  <2>4. Starts'
    BY <1>1, <2>1, <2>2, <2>3 DEF Starts
  <2> QED  BY <2>1, <2>4
<1>5. CASE ~Typing!RunTimer
  <2>1. Typing!CompositionStart(Typing!Bare("start")) /\ script' = Tail(script)
    BY <1>2, <1>5, StepIs DEF Typing!KeyDown, Typing!Insert, Typing!compositionEnd,
       Typing!Refocus
  <2>2. /\ guard' = [guard EXCEPT !.target = TRUE, !.pending = None]
        /\ xterm' = [xterm EXCEPT !.composing = TRUE, !.start = Len(value), !.already = 0]
        /\ UNCHANGED <<os, value, timers, typed, sent, keys>>
    BY <2>1 DEF Typing!CompositionStart
  <2>3. /\ xterm' \in XTerm /\ xterm'.composing /\ xterm'.start = Len(value)
        /\ xterm'.already = 0 /\ xterm'.sending = xterm.sending
    BY <1>3, <2>2 DEF XTerm
  <2>4. guard' \in [target : BOOLEAN, ime : BOOLEAN, pending : {None}] /\ guard'.target
    BY <2>2 DEF Plausible
  <2>5. Plausible'
    BY <2>2, <2>3, <2>4 DEF Plausible
  <2>6. Due' = Due
    <3>1. CASE NoGrowth
      <4>1. Due = <<>>
        BY <1>3, <3>1, NoGrowthNoDue
      <4>2. timers' = <<>> \/ timers'[1].is = "diff"
        BY <2>2, <3>1 DEF NoGrowth, Typing!Timer
      <4>3. Due' = <<>>
        BY <2>3, <4>2 DEF Due, DueOf
      <4> QED  BY <4>1, <4>3
    <3>2. CASE ~NoGrowth
      <4>1. /\ Shut /\ timers # <<>> /\ timers[1].is = "send" /\ xterm.already = 0
            /\ timers[1].start <= Len(value)
        BY <1>1, <3>2 DEF SendsBefore
      <4>2. PICK t \in Timers : timers = <<t>>
        BY <4>1 DEF Plausible
      <4>3. t.is = "send" /\ t.start <= Len(value)
        BY <4>1, <4>2
      <4> DEFINE x == xterm
                 y == xterm'
                 set == timers
                 text == value
      <4>4. /\ x \in XTerm /\ y \in XTerm /\ set = <<t>> /\ x.already = 0 /\ y.already = 0
            /\ y.composing /\ y.start = Len(text) /\ ~x.composing /\ text \in Typing!Text
            /\ <<>> \in Typing!Text
        BY <1>3, <2>3, <4>1, <4>2, EmptyText DEF Shut
      <4>5. DueOf(text \o <<>>, y, set) = DueOf(text, x, set)
        <5> HIDE DEF x, y, set, text
        <5>1. t.start <= Len(text)
          BY <4>3 DEF text
        <5> QED  BY <4>3, <4>4, <5>1, DueBefore
      <4>6. text \o <<>> = text
        BY <1>3, TextFacts
      <4>7. DueOf(text, y, set) = DueOf(text, x, set)
        <5> HIDE DEF x, y, set, text
        <5> QED  BY <4>5, <4>6
      <4> QED  BY <2>2, <4>7 DEF Due
    <3> QED  BY <3>1, <3>2
  <2>7. Owes(<<>>)'
    BY <1>1, <2>2, <2>6 DEF Owes
  <2>8. Open' /\ xterm'.start = Len(value')
    BY <1>1, <2>2, <2>3 DEF Open, Unmarked, NoPreedit
  <2>9. SendsBefore(xterm.start)'
    <3>1. CASE NoGrowth
      BY <2>2, <3>1 DEF SendsBefore, NoGrowth, Typing!Timer
    <3>2. CASE ~NoGrowth
      BY <1>1, <2>2, <2>3, <3>2 DEF SendsBefore
    <3> QED  BY <3>1, <3>2
  <2>10. Started'
    BY <1>2, <2>1, <2>4, <2>7, <2>8, <2>9 DEF Started
  <2> QED  BY <2>5, <2>10
<1> QED  BY <1>4, <1>5

LEMMA StartedGoes ==
  ASSUME Typing!CompositionAssumption, Plausible, Started, Typing!Next
  PROVE  Plausible' /\ AtRest'
<1>1. PICK n \in {1, 2} :
        /\ script = <<Typing!Begins(n)[2]>>
        /\ Open /\ xterm.start = Len(value) /\ guard.target /\ SendsBefore(xterm.start)
        /\ Owes(<<>>)
  BY DEF Started
<1> DEFINE e == Typing!Begins(n)[2]
           pre == [i \in 1 .. n |-> Typing!Pre]
<1>2. /\ script # <<>> /\ Head(script) = e /\ Tail(script) = <<>> /\ e.ev = "insert"
      /\ e.type = "insertCompositionText" /\ e.text = pre /\ e.dictated = FALSE
      /\ pre \in Typing!Text /\ Len(pre) = n /\ \A i \in 1 .. n : pre[i] = Typing!Pre
  <2>1. /\ e.ev = "insert" /\ e.type = "insertCompositionText" /\ e.text = pre /\ e.dictated = FALSE
        /\ pre \in Typing!Text /\ Len(pre) = n /\ \A i \in 1 .. n : pre[i] = Typing!Pre
    BY BeginsIs
  <2> HIDE DEF pre
  <2>2. script = <<e>>
    BY <1>1
  <2> HIDE DEF e
  <2>3. script # <<>> /\ Head(script) = e /\ Tail(script) = <<>>
    BY <2>2
  <2> QED  BY <2>1, <2>3
<1> HIDE DEF e, pre
<1>3. Typing!Insert(e) /\ script' = <<>>
  BY <1>2, StepIs DEF Typing!KeyDown, Typing!CompositionStart, Typing!compositionEnd,
     Typing!Refocus
<1>4. value \in Typing!Text /\ xterm \in XTerm /\ Len(value) \in Nat /\ sent \in Typing!Text /\ n \in Nat /\ 1 <= n
  BY TextFacts DEF Plausible
<1>5. Typing!Settled(value) = value
  BY <1>1, <1>4, SettledIs DEF Open
<1>6. /\ Kept /\ UNCHANGED <<timers, sent>> /\ guard' = guard /\ value' = value \o pre
      /\ xterm' = [xterm EXCEPT !.end = Len(value')]
  BY <1>2, <1>3, <1>5, Inserted
<1>7. /\ value' \in Typing!Text /\ Len(value') = Len(value) + n /\ Len(value') \in Nat
      /\ \A i \in 1 .. Len(value) : value'[i] = value[i]
      /\ \A i \in 1 .. n : value'[Len(value) + i] = Typing!Pre
  <2>1. /\ value \o pre \in Typing!Text /\ Len(value \o pre) = Len(value) + Len(pre)
        /\ \A i \in 1 .. Len(value) : (value \o pre)[i] = value[i]
        /\ \A i \in 1 .. Len(pre) : (value \o pre)[Len(value) + i] = pre[i]
    BY <1>2, <1>4, TextFacts
  <2>2. Len(value') = Len(value) + n
    BY <1>2, <1>6, <2>1
  <2>3. \A i \in 1 .. n : value'[Len(value) + i] = Typing!Pre
    BY <1>2, <1>6, <2>1
  <2>4. Len(value') \in Nat
    BY <1>4, <2>2
  <2> QED  BY <1>6, <2>1, <2>2, <2>3, <2>4
<1>8. /\ xterm' \in XTerm /\ xterm'.composing /\ xterm'.start = Len(value)
      /\ xterm'.already = 0 /\ xterm'.end = Len(value') /\ xterm'.sending = xterm.sending
  BY <1>1, <1>4, <1>6, <1>7 DEF XTerm, Open
<1>9. Plausible'
  BY <1>6, <1>7, <1>8 DEF Plausible, Kept
<1>10. Preedits(value', Len(value)) /\ ~NoPreedit(value')
  <2>1. \A i \in 1 .. Len(value) : value'[i] # Typing!Pre
    BY <1>1, <1>7 DEF Open, Preedits
  <2>2. ASSUME NEW i \in Len(value) + 1 .. Len(value') PROVE value'[i] = Typing!Pre
    <3> DEFINE k == i - Len(value)
    <3>1. k \in 1 .. n /\ i = Len(value) + k
      BY <1>4, <1>7
    <3> QED  BY <1>7, <3>1
  <2>3. Len(value) \in 0 .. Len(value')
    BY <1>4, <1>7
  <2>4. Preedits(value', Len(value))
    BY <2>1, <2>2, <2>3 DEF Preedits
  <2>5. Len(value) # Len(value')
    BY <1>4, <1>7
  <2> QED  BY <1>4, <1>7, <2>4, <2>5, Untouched
<1>11. Due' = Due
  <2>1. CASE NoGrowth
    <3>1. Due = <<>>
      BY <1>4, <2>1, NoGrowthNoDue
    <3>2. timers' = <<>> \/ timers'[1].is = "diff"
      BY <1>6, <2>1 DEF NoGrowth, Typing!Timer
    <3>3. Due' = <<>>
      BY <1>8, <3>2 DEF Due, DueOf
    <3> QED  BY <3>1, <3>3
  <2>2. CASE ~NoGrowth
    <3>1. timers # <<>> /\ timers[1].is = "send" /\ timers[1].start <= Len(value)
      BY <1>1, <2>2 DEF SendsBefore
    <3>2. PICK t \in Timers : timers = <<t>>
      BY <3>1 DEF Plausible
    <3> DEFINE x == xterm
               y == xterm'
               set == timers
               text == value
    <3>3. /\ t.is = "send" /\ t.start <= Len(text)
          /\ x \in XTerm /\ y \in XTerm /\ set = <<t>> /\ x.already = 0 /\ y.already = 0
          /\ y.composing /\ y.start = Len(text) /\ x.start = Len(text) /\ text \in Typing!Text
      BY <1>1, <1>4, <1>8, <3>1, <3>2 DEF Open
    <3>4. DueOf(text \o pre, y, set) = DueOf(text, x, set)
      <4> HIDE DEF x, y, set, text
      <4> QED  BY <1>2, <3>3, DueBefore
    <3> QED  BY <1>6, <3>4 DEF Due
  <2> QED  BY <2>1, <2>2
<1>12. Owes(<<>>)'
  BY <1>1, <1>6, <1>11 DEF Owes, Kept
<1>13. Open' /\ (xterm.start <= xterm.end)'
  BY <1>4, <1>7, <1>8, <1>10 DEF Open
<1>14. AtRest'
  BY <1>1, <1>3, <1>6, <1>8, <1>10, <1>12, <1>13 DEF AtRest, Steady
<1> QED  BY <1>9, <1>14

LEMMA JoinedOf ==
  ASSUME NEW S, NEW p \in Seq(S), NEW q \in Seq(S), NEW both \in Seq(S),
         Len(both) = Len(p) + Len(q), \A i \in 1 .. Len(p) : both[i] = p[i],
         \A i \in 1 .. Len(q) : both[Len(p) + i] = q[i]
  PROVE  p \o q = both
<1>1. /\ p \o q \in Seq(S) /\ Len(p \o q) = Len(p) + Len(q) /\ Len(p) \in Nat /\ Len(q) \in Nat
      /\ \A i \in 1 .. Len(p) + Len(q) : (p \o q)[i] = IF i <= Len(p) THEN p[i] ELSE q[i - Len(p)]
  BY ConcatProperties, LenProperties
<1>2. ASSUME NEW i \in 1 .. Len(both) PROVE (p \o q)[i] = both[i]
  <2>1. CASE i <= Len(p)
    BY <1>1, <2>1
  <2>2. CASE ~(i <= Len(p))
    <3> DEFINE k == i - Len(p)
    <3>1. k \in 1 .. Len(q) /\ i = Len(p) + k /\ i \in 1 .. Len(p) + Len(q)
      BY <1>1, <2>2
    <3>2. (p \o q)[i] = q[k]
      BY <1>1, <2>2, <3>1
    <3> HIDE DEF k
    <3> QED  BY <3>1, <3>2
  <2> QED  BY <2>1, <2>2
<1> QED  BY <1>1, <1>2, SeqEqual

LEMMA JoinedTwo ==
  ASSUME NEW r, NEW s
  PROVE  <<r>> \o <<s>> = <<r, s>>
<1> DEFINE S == {r, s}
           p == <<r>>
           q == <<s>>
           t == <<r, s>>
<1>1. p \in Seq(S) /\ q \in Seq(S) /\ t \in Seq(S)
  OBVIOUS
<1>2. /\ Len(t) = Len(p) + Len(q) /\ \A i \in 1 .. Len(p) : t[i] = p[i]
      /\ \A i \in 1 .. Len(q) : t[Len(p) + i] = q[i]
  <2>1. Len(t) = 2 /\ Len(p) = 1 /\ Len(q) = 1 /\ 1 .. 1 = {1}
    OBVIOUS
  <2>2. t[1] = p[1] /\ t[1 + 1] = q[1]
    OBVIOUS
  <2> HIDE DEF p, q, t
  <2> QED  BY <2>1, <2>2
<1> HIDE DEF S, p, q, t
<1>3. p \o q = t
  BY <1>1, <1>2, JoinedOf
<1> QED  BY <1>3 DEF p, q, t

LEMMA JoinedThree ==
  ASSUME NEW w, NEW r, NEW s
  PROVE  <<w>> \o <<r, s>> = <<w, r, s>>
<1> DEFINE S == {w, r, s}
           p == <<w>>
           q == <<r, s>>
           t == <<w, r, s>>
<1>1. p \in Seq(S) /\ q \in Seq(S) /\ t \in Seq(S)
  OBVIOUS
<1>2. /\ Len(t) = Len(p) + Len(q) /\ \A i \in 1 .. Len(p) : t[i] = p[i]
      /\ \A i \in 1 .. Len(q) : t[Len(p) + i] = q[i]
  OBVIOUS
<1> HIDE DEF S, p, q, t
<1>3. p \o q = t
  BY <1>1, <1>2, JoinedOf
<1> QED  BY <1>3 DEF p, q, t

LEMMA JoinedFour ==
  ASSUME NEW u, NEW w, NEW r, NEW s
  PROVE  <<u, w>> \o <<r, s>> = <<u, w, r, s>>
<1> DEFINE S == {u, w, r, s}
           p == <<u, w>>
           q == <<r, s>>
           t == <<u, w, r, s>>
<1>1. p \in Seq(S) /\ q \in Seq(S) /\ t \in Seq(S)
  OBVIOUS
<1>2. /\ Len(t) = Len(p) + Len(q) /\ \A i \in 1 .. Len(p) : t[i] = p[i]
      /\ \A i \in 1 .. Len(q) : t[Len(p) + i] = q[i]
  OBVIOUS
<1> HIDE DEF S, p, q, t
<1>3. p \o q = t
  BY <1>1, <1>2, JoinedOf
<1> QED  BY <1>3 DEF p, q, t

LEMMA JoinedFive ==
  ASSUME NEW v, NEW u, NEW w, NEW r, NEW s
  PROVE  <<v, u, w>> \o <<r, s>> = <<v, u, w, r, s>>
<1> DEFINE S == {v, u, w, r, s}
           p == <<v, u, w>>
           q == <<r, s>>
           t == <<v, u, w, r, s>>
<1>1. p \in Seq(S) /\ q \in Seq(S) /\ t \in Seq(S)
  OBVIOUS
<1>2. /\ Len(t) = Len(p) + Len(q) /\ \A i \in 1 .. Len(p) : t[i] = p[i]
      /\ \A i \in 1 .. Len(q) : t[Len(p) + i] = q[i]
  OBVIOUS
<1> HIDE DEF S, p, q, t
<1>3. p \o q = t
  BY <1>1, <1>2, JoinedOf
<1> QED  BY <1>3 DEF p, q, t

LEMMA AfterLast ==
  ASSUME NEW n \in {0, 1}, NEW w
  PROVE  /\ <<w>> \o After(n) # <<>> /\ Head(<<w>> \o After(n)) = w
         /\ Tail(<<w>> \o After(n)) = After(n)
<1>1. CASE n = 0
  BY <1>1 DEF After
<1>2. CASE n = 1
  <2> DEFINE r == Typing!Begins(n)[1]
             s == Typing!Begins(n)[2]
  <2>1. After(n) = <<r, s>>
    BY <1>2 DEF After
  <2> HIDE DEF r, s
  <2>2. <<w>> \o After(n) = <<w, r, s>>
    BY <2>1, JoinedThree, ZenonT(30)
  <2>3. After(n) = <<r, s>>
    BY <2>1
  <2>4. /\ Head(<<w, r, s>>) = w
        /\ Tail(<<w, r, s>>) = <<r, s>>
        /\ <<w, r, s>> # <<>>
    OBVIOUS
  <2> QED  BY <2>2, <2>3, <2>4
<1> QED  BY <1>1, <1>2

LEMMA AfterTwo ==
  ASSUME NEW n \in {0, 1}, NEW u, NEW w
  PROVE  /\ <<u, w>> \o After(n) # <<>> /\ Head(<<u, w>> \o After(n)) = u
         /\ Tail(<<u, w>> \o After(n)) = <<w>> \o After(n)
<1>1. CASE n = 0
  BY <1>1 DEF After
<1>2. CASE n = 1
  <2> DEFINE r == Typing!Begins(n)[1]
             s == Typing!Begins(n)[2]
  <2>1. After(n) = <<r, s>>
    BY <1>2 DEF After
  <2> HIDE DEF r, s
  <2>2. <<u, w>> \o After(n) = <<u, w, r, s>>
    BY <2>1, JoinedFour, ZenonT(30)
  <2>3. <<w>> \o After(n) = <<w, r, s>>
    BY <2>1, JoinedThree, ZenonT(30)
  <2>4. /\ Head(<<u, w, r, s>>) = u
        /\ Tail(<<u, w, r, s>>) = <<w, r, s>>
        /\ <<u, w, r, s>> # <<>>
    OBVIOUS
  <2> QED  BY <2>2, <2>3, <2>4
<1> QED  BY <1>1, <1>2

LEMMA AfterThree ==
  ASSUME NEW n \in {0, 1}, NEW v, NEW u, NEW w
  PROVE  /\ <<v, u, w>> \o After(n) # <<>> /\ Head(<<v, u, w>> \o After(n)) = v
         /\ Tail(<<v, u, w>> \o After(n)) = <<u, w>> \o After(n)
<1>1. CASE n = 0
  BY <1>1 DEF After
<1>2. CASE n = 1
  <2> DEFINE r == Typing!Begins(n)[1]
             s == Typing!Begins(n)[2]
  <2>1. After(n) = <<r, s>>
    BY <1>2 DEF After
  <2> HIDE DEF r, s
  <2>2. <<v, u, w>> \o After(n) = <<v, u, w, r, s>>
    BY <2>1, JoinedFive, ZenonT(30)
  <2>3. <<u, w>> \o After(n) = <<u, w, r, s>>
    BY <2>1, JoinedFour, ZenonT(30)
  <2>4. /\ Head(<<v, u, w, r, s>>) = v
        /\ Tail(<<v, u, w, r, s>>) = <<u, w, r, s>>
        /\ <<v, u, w, r, s>> # <<>>
    OBVIOUS
  <2> QED  BY <2>2, <2>3, <2>4
<1> QED  BY <1>1, <1>2

LEMMA CommitKeyedGoes ==
  ASSUME Typing!CompositionAssumption, Plausible, CommitKeyed, Typing!Next
  PROVE  Plausible' /\ Commits'
<1>1. PICK c \in Char, n \in {0, 1} :
        /\ script = <<Typing!Key(TRUE, <<>>), Typing!Mutation("insertFromComposition", <<c>>), Typing!Bare("end")>>
                      \o After(n)
        /\ Open /\ guard.target /\ Unset /\ Owes(<<c>>)
  BY DEF CommitKeyed
<1>2. /\ script # <<>> /\ Head(script) = Typing!Key(TRUE, <<>>)
      /\ Tail(script) = <<Typing!Mutation("insertFromComposition", <<c>>), Typing!Bare("end")>> \o After(n)
  <2> DEFINE v == Typing!Key(TRUE, <<>>)
             u == Typing!Mutation("insertFromComposition", <<c>>)
             w == Typing!Bare("end")
  <2>1. script = <<v, u, w>> \o After(n)
    BY <1>1
  <2> HIDE DEF u, v, w
  <2>2. /\ script # <<>> /\ Head(script) = v
        /\ Tail(script) = <<u, w>> \o After(n)
    <3>1. /\ <<v, u, w>> \o After(n) # <<>> /\ Head(<<v, u, w>> \o After(n)) = v
          /\ Tail(<<v, u, w>> \o After(n)) = <<u, w>> \o After(n)
      BY AfterThree
    <3> QED  BY <2>1, <3>1
  <2> QED  BY <2>2 DEF u, v, w
<1>3. Typing!Key(TRUE, <<>>).ev = "keydown"
  BY DEF Typing!Key
<1>4. Typing!KeyDown(Typing!Key(TRUE, <<>>)) /\ script' = Tail(script)
  BY <1>2, <1>3, StepIs DEF Typing!CompositionStart, Typing!Insert,
     Typing!compositionEnd, Typing!Refocus
<1>5. /\ Plausible' /\ Kept /\ UNCHANGED <<value, xterm, sent>>
      /\ guard'.ime /\ guard'.target = guard.target
      /\ timers' = IF xterm.composing THEN <<>> ELSE <<Typing!Timer("diff", value, 0, 0)>>
      /\ Due = <<>> /\ Due' = <<>>
  BY <1>1, <1>4, ImeKey
<1>6. Owes(<<c>>)'
  BY <1>1, <1>5, CharText, EmptyText, StillOwes DEF Kept, Plausible
<1>7. Open' /\ Unset' /\ guard'.target
  BY <1>1, <1>5 DEF Open, Unset
<1>8. script' = <<Typing!Mutation("insertFromComposition", <<c>>), Typing!Bare("end")>> \o After(n)
  BY <1>2, <1>4
<1>9. Commits'
  BY <1>6, <1>7, <1>8 DEF Commits
<1> QED  BY <1>5, <1>9

LEMMA CommitsGoes ==
  ASSUME Typing!CompositionAssumption, Plausible, Commits, Typing!Next
  PROVE  Plausible' /\ Ending'
<1>1. PICK c \in Char, n \in {0, 1} :
        /\ script = <<Typing!Mutation("insertFromComposition", <<c>>), Typing!Bare("end")>> \o After(n)
        /\ Open /\ guard.target /\ Unset /\ Owes(<<c>>)
  BY DEF Commits
<1> DEFINE e == Typing!Mutation("insertFromComposition", <<c>>)
<1>2. /\ script # <<>> /\ Head(script) = e /\ Tail(script) = <<Typing!Bare("end")>> \o After(n)
  <2> DEFINE w == Typing!Bare("end")
  <2>1. script = <<e, w>> \o After(n)
    BY <1>1
  <2> HIDE DEF e, w
  <2>2. script # <<>> /\ Head(script) = e /\ Tail(script) = <<w>> \o After(n)
    <3>1. /\ <<e, w>> \o After(n) # <<>> /\ Head(<<e, w>> \o After(n)) = e
          /\ Tail(<<e, w>> \o After(n)) = <<w>> \o After(n)
      BY AfterTwo
    <3> QED  BY <2>1, <3>1
  <2> QED  BY <2>2 DEF w
<1>3. e.ev = "insert" /\ e.type = "insertFromComposition" /\ e.text = <<c>> /\ e.dictated = FALSE
  BY DEF Typing!Mutation
<1> HIDE DEF e
<1>4. Typing!Insert(e) /\ script' = <<Typing!Bare("end")>> \o After(n)
  BY <1>2, <1>3, StepIs DEF Typing!KeyDown, Typing!CompositionStart,
     Typing!compositionEnd, Typing!Refocus
<1>5. <<c>> \in Typing!Text /\ <<c>>[1] = c /\ Len(<<c>>) = 1 /\ value \in Typing!Text /\ sent \in Typing!Text
      /\ xterm \in XTerm
  BY CharText DEF Plausible
<1>6. /\ Kept /\ UNCHANGED <<timers, sent, xterm>> /\ guard' = guard
      /\ value' = Typing!Settled(value) \o <<c>>
  BY <1>1, <1>3, <1>4, <1>5, Inserted
<1>7. /\ Typing!Settled(value) \in Typing!Text /\ Len(Typing!Settled(value)) = xterm.start /\ xterm.start \in Nat
      /\ NoPreedit(Typing!Settled(value))
  BY <1>1, <1>5, SettledIs DEF Open
<1>8. value' \in Typing!Text /\ NoPreedit(value')
  BY <1>6, <1>7, ClearGrows
<1>9. Len(value') = xterm.start + 1 /\ value'[Len(value')] = c
  <2> DEFINE s == Typing!Settled(value)
             u == <<c>>
  <2>1. /\ s \in Typing!Text /\ u \in Typing!Text /\ Len(s) = xterm.start /\ Len(u) = 1 /\ value' = s \o u
        /\ u[1] = c
    BY <1>5, <1>6, <1>7
  <2> HIDE DEF s, u
  <2>2. /\ Len(s \o u) = Len(s) + Len(u)
        /\ \A i \in 1 .. Len(u) : (s \o u)[Len(s) + i] = u[i]
    BY <2>1, TextFacts
  <2>3. Len(value') = xterm.start + 1 /\ value'[xterm.start + 1] = u[1]
    BY <2>1, <2>2
  <2> QED  BY <2>1, <2>3
<1>10. Plausible'
  BY <1>6, <1>8 DEF Plausible, Kept
<1>11. Due = <<>> /\ Due' = <<>>
  BY <1>1, <1>6 DEF Due, DueOf, Unset
<1>12. Owes(<<c>>)'
  BY <1>1, <1>5, <1>6, <1>11, EmptyText, StillOwes DEF Kept
<1>13. /\ xterm'.composing /\ xterm'.already = 0 /\ guard'.target /\ Unset'
       /\ Len(value') = xterm'.start + 1
  BY <1>1, <1>6, <1>9 DEF Open, Unset
<1>14. Ending'
  BY <1>4, <1>8, <1>9, <1>12, <1>13 DEF Ending
<1> QED  BY <1>10, <1>14

\* What was committed is what the timer sends, the next composition having begun or not.
LEMMA CommitDue ==
  ASSUME NEW text \in Typing!Text, NEW at \in Nat, NEW c \in Char, Len(text) = at + 1, text[Len(text)] = c
  PROVE  Part(text, at, Len(text)) = <<c>>
<1>1. Part(text, at, Len(text)) = SubSeq(text, at + 1, Len(text))
  <2>1. Len(text) \in Nat /\ at <= Len(text) /\ Len(text) <= Len(text)
    OBVIOUS
  <2> QED  BY <2>1, PartText
<1> DEFINE p == SubSeq(text, at + 1, Len(text))
<1>2. /\ p \in Typing!Text
      /\ Len(p) = IF at + 1 <= Len(text) THEN Len(text) - (at + 1) + 1 ELSE 0
      /\ \A i \in 1 .. Len(p) : p[i] = text[at + 1 + i - 1]
  <2>1. at + 1 \in Nat \ {0} /\ Len(text) \in Nat /\ Len(text) <= Len(text)
    OBVIOUS
  <2> QED  BY <2>1, PartOf
<1> HIDE DEF p
<1>3. Len(p) = 1 /\ at + 1 + 1 - 1 = Len(text)
  BY <1>2
<1>4. p[1] = c
  BY <1>2, <1>3
<1>5. p = <<c>>
  <2>1. /\ <<c>> \in Typing!Text /\ Len(<<c>>) = 1 /\ <<c>>[1] = c
    BY CharText
  <2> DEFINE u == <<c>>
  <2> HIDE DEF u
  <2>2. u \in Typing!Text /\ Len(u) = 1 /\ u[1] = c
    BY <2>1 DEF u
  <2>3. \A i \in 1 .. Len(p) : p[i] = u[i]
    BY <1>3, <1>4, <2>2
  <2>4. p = u
    BY <1>2, <1>3, <2>2, <2>3, TextEqual
  <2> QED  BY <2>4 DEF u
<1> QED  BY <1>1, <1>5 DEF p

\* The end of a composition: xterm waits for the timer.
LEMMA Finalized ==
  ASSUME Plausible, Unset, xterm' = Typing!Finalize(xterm),
         timers' = Append(timers, Typing!Timer("send", <<>>, xterm.start, xterm.end))
  PROVE  /\ xterm' \in XTerm /\ ~xterm'.composing /\ xterm'.sending /\ xterm'.start = xterm.start
         /\ xterm'.end = xterm.end /\ xterm'.already = xterm.already
         /\ \E t \in Timers : timers' = <<t>> /\ t.is = "send" /\ t.start = xterm.start
<1>1. /\ xterm' \in XTerm /\ ~xterm'.composing /\ xterm'.sending /\ xterm'.start = xterm.start
      /\ xterm'.end = xterm.end /\ xterm'.already = xterm.already
  BY DEF Typing!Finalize, XTerm, Plausible
<1> DEFINE t == Typing!Timer("send", <<>>, xterm.start, xterm.end)
<1>2. t \in Timers /\ t.is = "send" /\ t.start = xterm.start
  BY EmptyText DEF Typing!Timer, Timers, Plausible, XTerm
<1> HIDE DEF t
<1>3. timers' = <<t>>
  BY DEF Unset, t
<1> QED  BY <1>1, <1>2, <1>3

LEMMA EndingGoes ==
  ASSUME Typing!CompositionAssumption, Plausible, Ending, Typing!Next
  PROVE  Plausible' /\ (AtRest' \/ Starts')
<1>1. PICK c \in Char, n \in {0, 1} :
        /\ script = <<Typing!Bare("end")>> \o After(n)
        /\ xterm.composing /\ xterm.already = 0 /\ guard.target /\ Unset /\ Owes(<<c>>)
        /\ NoPreedit(value) /\ Len(value) = xterm.start + 1 /\ value[Len(value)] = c
  BY DEF Ending
<1>2. script # <<>> /\ Head(script) = Typing!Bare("end") /\ Tail(script) = After(n)
  <2> DEFINE w == Typing!Bare("end")
  <2>1. script = <<w>> \o After(n)
    BY <1>1
  <2> HIDE DEF w
  <2>2. script # <<>> /\ Head(script) = w /\ Tail(script) = After(n)
    BY <2>1, AfterLast
  <2> QED  BY <2>2 DEF w
<1>3. Typing!Bare("end").ev = "end"
  BY DEF Typing!Bare
<1>4. Typing!compositionEnd(Typing!Bare("end")) /\ script' = After(n)
  BY <1>2, <1>3, StepIs DEF Typing!KeyDown, Typing!CompositionStart, Typing!Insert,
     Typing!Refocus
<1>5. /\ guard' = [guard EXCEPT !.target = FALSE] /\ xterm' = Typing!Finalize(xterm)
      /\ timers' = Append(timers, Typing!Timer("send", <<>>, xterm.start, xterm.end))
      /\ Kept /\ UNCHANGED <<value, sent>>
  BY <1>1, <1>4 DEF Typing!compositionEnd, Kept
<1>6. /\ xterm' \in XTerm /\ ~xterm'.composing /\ xterm'.sending /\ xterm'.start = xterm.start
      /\ xterm'.end = xterm.end /\ xterm'.already = xterm.already
      /\ \E t \in Timers : timers' = <<t>> /\ t.is = "send" /\ t.start = xterm.start
  BY <1>1, <1>5, Finalized
<1>7. PICK t \in Timers : timers' = <<t>> /\ t.is = "send" /\ t.start = xterm.start
  BY <1>6
<1>8. guard' \in [target : BOOLEAN, ime : BOOLEAN, pending : {None}] /\ ~guard'.target
  BY <1>5 DEF Plausible
<1>9. Plausible'
  BY <1>5, <1>6, <1>7, <1>8 DEF Plausible, Kept
<1>10. xterm.start \in Nat /\ value \in Typing!Text /\ sent \in Typing!Text
  BY DEF Plausible, XTerm
<1>11. Due = <<>> /\ Due' = <<c>>
  <2>1. Due = <<>>
    BY <1>1 DEF Due, DueOf, Unset
  <2>2. timers' # <<>> /\ timers'[1] = t
    BY <1>7
  <2>3. Due' = Part(value', t.start + xterm'.already, Len(value'))
    BY <1>6, <1>7, <2>2 DEF Due, DueOf
  <2>4. t.start + xterm'.already = xterm.start
    BY <1>1, <1>6, <1>7, <1>10
  <2>5. Part(value, xterm.start, Len(value)) = <<c>>
    BY <1>1, <1>10, CommitDue
  <2> QED  BY <1>5, <2>1, <2>3, <2>4, <2>5
<1>12. Owes(<<>>)'
  BY <1>1, <1>5, <1>10, <1>11, CharText, EmptyText, StillOwes DEF Kept
<1>13. Shut' /\ Unmarked' /\ Steady'
  BY <1>1, <1>5, <1>6, <1>8 DEF Shut, Unmarked, Steady
<1>14. CASE n = 0
  <2>1. AtRest'
    BY <1>4, <1>6, <1>8, <1>12, <1>13, <1>14 DEF AtRest, After
  <2> QED  BY <1>9, <2>1
<1>15. CASE n = 1
  <2>1. SendsBefore(Len(value))'
    <3>1. timers' # <<>> /\ timers'[1].is = "send" /\ timers'[1].start = xterm.start
      BY <1>7
    <3>2. xterm'.already = 0 /\ xterm.start <= Len(value')
      BY <1>1, <1>5, <1>6, <1>10
    <3> QED  BY <3>1, <3>2 DEF SendsBefore
  <2>2. script' = <<Typing!Begins(1)[1], Typing!Begins(1)[2]>>
    BY <1>4, <1>15 DEF After
  <2>3. Starts'
    BY <1>12, <1>13, <2>1, <2>2 DEF Starts
  <2> QED  BY <1>9, <2>3
<1> QED  BY <1>14, <1>15

LEMMA LeavesGoes ==
  ASSUME Typing!CompositionAssumption, Plausible, Leaving, Typing!Next
  PROVE  Plausible' /\ AtRest'
<1>1. script = <<Typing!Bare("focus")>> /\ Open /\ xterm.start <= xterm.end /\ Unset /\ Owes(<<>>)
  BY DEF Leaving
<1>2. script # <<>> /\ Head(script) = Typing!Bare("focus") /\ Tail(script) = <<>>
      /\ Typing!Bare("focus").ev = "focus"
  BY <1>1 DEF Typing!Bare
<1>3. Typing!Refocus(Typing!Bare("focus")) /\ script' = <<>>
  BY <1>2, StepIs DEF Typing!KeyDown, Typing!CompositionStart, Typing!Insert,
     Typing!compositionEnd
<1>4. /\ value' = Typing!Settled(value)
      /\ guard' = [guard EXCEPT !.target = FALSE, !.ime = FALSE, !.pending = None]
      /\ Kept /\ sent' = sent
  BY <1>3 DEF Typing!Refocus, Typing!reset, Kept
<1>5. value \in Typing!Text /\ xterm \in XTerm /\ sent \in Typing!Text /\ xterm.start \in Nat
  BY DEF Plausible, XTerm
<1>6. value' \in Typing!Text /\ Len(value') = xterm.start /\ NoPreedit(value')
  BY <1>1, <1>4, <1>5, SettledIs DEF Open
<1>7. guard' \in [target : BOOLEAN, ime : BOOLEAN, pending : {None}] /\ ~guard'.target
  BY <1>4 DEF Plausible
<1>8. Due = <<>>
  BY <1>1 DEF Due, DueOf, Unset
<1>9. CASE UNCHANGED <<xterm, timers>>
  <2>1. Plausible' /\ Due' = <<>>
    BY <1>1, <1>4, <1>6, <1>7, <1>9 DEF Plausible, Kept, Due, DueOf, Unset
  <2>2. Owes(<<>>)'
    BY <1>1, <1>4, <1>5, <1>8, <2>1, EmptyText, StillOwes DEF Kept
  <2>3. Steady'
    BY <1>1, <1>6, <1>9 DEF Steady, Open, NoPreedit
  <2>4. AtRest'
    BY <1>3, <1>6, <1>7, <2>2, <2>3 DEF AtRest
  <2> QED  BY <2>1, <2>4
<1>10. CASE ~UNCHANGED <<xterm, timers>>
  <2>1. /\ xterm' = Typing!Finalize(xterm)
        /\ timers' = Append(timers, Typing!Timer("send", <<>>, xterm.start, xterm.end))
    BY <1>3, <1>10 DEF Typing!Refocus
  <2>2. /\ xterm' \in XTerm /\ ~xterm'.composing /\ xterm'.sending /\ xterm'.start = xterm.start
        /\ xterm'.end = xterm.end /\ xterm'.already = xterm.already
        /\ \E t \in Timers : timers' = <<t>> /\ t.is = "send" /\ t.start = xterm.start
    BY <1>1, <2>1, Finalized
  <2>3. PICK t \in Timers : timers' = <<t>> /\ t.is = "send" /\ t.start = xterm.start
    BY <2>2
  <2>4. Plausible'
    BY <1>4, <1>6, <1>7, <2>2, <2>3 DEF Plausible, Kept
  <2>5. Due' = <<>>
    <3>1. timers' # <<>> /\ timers'[1] = t
      BY <2>3
    <3>2. Due' = Part(value', t.start + xterm'.already, Len(value'))
      BY <2>2, <2>3, <3>1 DEF Due, DueOf
    <3>3. t.start + xterm'.already = Len(value') /\ Len(value') <= Len(value')
      BY <1>1, <1>5, <1>6, <2>2, <2>3 DEF Open
    <3> DEFINE s == value'
               i == Len(value')
    <3>4. s \in Typing!Text /\ i \in Nat /\ i = Len(s) /\ i <= i
      BY <1>5, <1>6
    <3>5. Part(s, i, i) = <<>>
      <4> HIDE DEF s, i
      <4> QED  BY <3>4, PartText
    <3> QED  BY <3>2, <3>3, <3>5
  <2>6. Owes(<<>>)'
    BY <1>1, <1>4, <1>5, <1>8, <2>5, EmptyText, StillOwes DEF Kept
  <2>7. AtRest'
    BY <1>3, <1>6, <1>7, <2>2, <2>6 DEF AtRest, Steady, Shut
  <2> QED  BY <2>4, <2>7
<1> QED  BY <1>9, <1>10

\* A key starts its script.
LEMMA PressIs ==
  ASSUME Typing!CompositionAssumption, Plausible, AtRest, NEW steps, NEW text \in Seq(Char),
         Typing!Press(steps, text)
  PROVE  /\ Plausible' /\ script' = steps /\ Unset /\ Unset' /\ Owes(text)'
         /\ UNCHANGED <<os, value, xterm, guard, timers, sent>>
         /\ Steady' /\ guard'.target = guard.target /\ (guard.target <=> Typing!Composing)
<1>1. /\ timers = <<>> /\ keys < MaxKeys
      /\ keys' = keys + 1 /\ script' = steps /\ typed' = typed \o text
      /\ UNCHANGED <<os, value, xterm, guard, timers, sent>>
  BY DEF Typing!Press
<1>2. /\ typed \in Seq(Char) /\ sent \in Typing!Text /\ value \in Typing!Text
  BY DEF Plausible
<1>3. typed' \in Seq(Char)
  BY <1>1, <1>2, ConcatProperties
<1>4. Plausible'
  <2>1. MaxKeys \in Nat /\ keys \in 0 .. MaxKeys
    BY DEF Plausible, Typing!CompositionAssumption
  <2>2. keys' \in 0 .. MaxKeys
    BY <1>1, <2>1
  <2> QED  BY <1>1, <1>3, <2>2 DEF Plausible
<1>5. Due = <<>> /\ Due' = <<>>
  BY <1>1 DEF Due, DueOf
<1>6. typed = sent
  BY <1>2, <1>5, TextFacts DEF AtRest, Owes
<1>7. Owes(text)'
  BY <1>1, <1>2, <1>5, <1>6, TextFacts DEF Owes
<1>8. Steady'
  BY <1>1 DEF AtRest, Steady, Open, Shut
<1>9. guard.target <=> Typing!Composing
  BY <1>2, PreShown DEF AtRest, Typing!Composing
<1> QED  BY <1>1, <1>4, <1>7, <1>8, <1>9 DEF Unset

\* No key but those of a composition: no preedit is shown.
LEMMA UnmarkedIs ==
  ASSUME Plausible, AtRest, ~Typing!Composing
  PROVE  Unmarked
<1>1. ~guard.target /\ (~xterm.composing \/ NoPreedit(value))
  BY PreShown DEF AtRest, Typing!Composing, Plausible
<1>2. NoPreedit(value)
  BY <1>1 DEF AtRest, Steady, Open, Shut
<1> QED  BY <1>1, <1>2 DEF AtRest, Unmarked

LEMMA AtRestGoes ==
  ASSUME Typing!CompositionAssumption, Plausible, AtRest, Typing!Next
  PROVE  TypingInv'
<1>1. script = <<>> /\ Typing!Range(script) = {}
  BY DEF AtRest, Typing!Range
<1>2. CASE Typing!RunTimer
  <2>1. /\ timers' = <<>> /\ sent' = sent \o Due /\ sent' \in Typing!Text /\ Due' = <<>>
        /\ Plausible'
        /\ xterm'.composing = xterm.composing /\ xterm'.start = xterm.start
        /\ xterm'.end = xterm.end /\ (xterm.composing => xterm'.already = xterm.already)
        /\ UNCHANGED <<os, value, guard, script, typed, keys>>
    BY <1>2, TimerRuns
  <2>2. Owes(<<>>)'
    BY <2>1, EmptyText, StillOwes DEF AtRest
  <2>3. Steady'
    BY <2>1 DEF AtRest, Steady, Open, Shut
  <2>4. AtRest'
    BY <2>1, <2>2, <2>3 DEF AtRest
  <2> QED  BY <2>1, <2>4 DEF TypingInv
<1>3. ASSUME NEW c \in Char, Typing!PlainKey(c) PROVE TypingInv'
  <2> DEFINE steps == <<Typing!Key(FALSE, <<c>>)>> \o (IF os = "linux"
                         THEN <<Typing!Mutation("insertText", <<c>>)>> ELSE <<>>)
  <2>1. Typing!Press(steps, <<c>>) /\ ~Typing!Composing /\ <<c>> \in Seq(Char)
    BY <1>3, CharText DEF Typing!PlainKey
  <2>2. steps = (IF os = "linux" THEN <<Typing!Key(FALSE, <<c>>), Typing!Mutation("insertText", <<c>>)>>
                  ELSE <<Typing!Key(FALSE, <<c>>)>>)
    <3> DEFINE r == Typing!Key(FALSE, <<c>>)
               s == Typing!Mutation("insertText", <<c>>)
    <3>1. steps = <<r>> \o (IF os = "linux" THEN <<s>> ELSE <<>>)
      OBVIOUS
    <3> HIDE DEF r, s, steps
    <3>2. <<r>> \o <<s>> = <<r, s>> /\ <<r>> \o <<>> = <<r>>
      <4>1. <<r>> \o <<s>> = <<r, s>>
        BY JoinedTwo, ZenonT(30)
      <4>2. <<r>> \o <<>> = <<r>>
        OBVIOUS
      <4> QED  BY <4>1, <4>2
    <3>3. steps = (IF os = "linux" THEN <<r, s>> ELSE <<r>>)
      BY <3>1, <3>2
    <3> QED  BY <3>3 DEF r, s
  <2> HIDE DEF steps
  <2>3. /\ Plausible' /\ script' = steps /\ Unset' /\ Owes(<<c>>)'
        /\ UNCHANGED <<os, value, xterm, guard>> /\ Steady'
    BY <2>1, PressIs
  <2>4. Unmarked'
    BY <2>1, <2>3, UnmarkedIs DEF Unmarked
  <2>5. PlainKeyed'
    BY <2>2, <2>3, <2>4 DEF PlainKeyed
  <2> QED  BY <2>3, <2>5 DEF TypingInv
<1>4. ASSUME NEW c \in Char, Typing!Dictate(c) PROVE TypingInv'
  <2> DEFINE steps == <<Typing!Dictated(<<c>>)>>
  <2>1. Typing!Press(steps, <<c>>) /\ ~xterm.composing /\ ~Typing!Composing /\ <<c>> \in Seq(Char)
    BY <1>4, CharText DEF Typing!Dictate, Typing!Composing
  <2> HIDE DEF steps
  <2>3. /\ Plausible' /\ script' = steps /\ Unset' /\ Owes(<<c>>)'
        /\ UNCHANGED <<os, value, xterm, guard>> /\ Steady'
    BY <2>1, PressIs
  <2>4. Unmarked' /\ Shut'
    BY <2>1, <2>3, UnmarkedIs DEF Unmarked, Shut
  <2>5. DictatedTo'
    BY <2>3, <2>4 DEF DictatedTo, steps
  <2> QED  BY <2>3, <2>5 DEF TypingInv
<1>5. ASSUME NEW c \in Char, Typing!Direct(c) PROVE TypingInv'
  <2> DEFINE steps == <<Typing!Key(TRUE, <<>>), Typing!Mutation("insertText", <<c>>)>>
  <2>1. Typing!Press(steps, <<c>>) /\ ~xterm.composing /\ ~Typing!Composing /\ <<c>> \in Seq(Char)
    BY <1>5, CharText DEF Typing!Direct, Typing!Composing
  <2> HIDE DEF steps
  <2>3. /\ Plausible' /\ script' = steps /\ Unset' /\ Owes(<<c>>)'
        /\ UNCHANGED <<os, value, xterm, guard>> /\ Steady'
    BY <2>1, PressIs
  <2>4. Unmarked' /\ Shut'
    BY <2>1, <2>3, UnmarkedIs DEF Unmarked, Shut
  <2>5. DirectKeyed'
    BY <2>3, <2>4 DEF DirectKeyed, steps
  <2> QED  BY <2>3, <2>5 DEF TypingInv
<1>6. ASSUME NEW c \in Char, Typing!OrphanCommit(c) PROVE TypingInv'
  <2> DEFINE steps == <<Typing!Key(TRUE, <<>>), Typing!Mutation("insertFromComposition", <<c>>), Typing!Bare("end")>>
  <2>1. Typing!Press(steps, <<c>>) /\ os = "linux" /\ ~Typing!Composing /\ <<c>> \in Seq(Char)
    BY <1>6, CharText DEF Typing!OrphanCommit
  <2> HIDE DEF steps
  <2>3. /\ Plausible' /\ script' = steps /\ Unset' /\ Owes(<<c>>)'
        /\ UNCHANGED <<os, value, xterm, guard>> /\ Steady'
    BY <2>1, PressIs
  <2>4. Unmarked'
    BY <2>1, <2>3, UnmarkedIs DEF Unmarked
  <2>5. OrphanKeyed'
    BY <2>1, <2>3, <2>4 DEF OrphanKeyed, steps
  <2> QED  BY <2>3, <2>5 DEF TypingInv
<1>7. ASSUME NEW n \in {1, 2}, Typing!Compose(n) PROVE TypingInv'
  <2> DEFINE steps == <<Typing!Key(TRUE, <<>>)>> \o Typing!Begins(n)
  <2>1. Typing!Press(steps, <<>>) /\ ~Typing!Composing /\ <<>> \in Seq(Char)
    BY <1>7 DEF Typing!Compose
  <2>2. steps = <<Typing!Key(TRUE, <<>>), Typing!Begins(n)[1], Typing!Begins(n)[2]>>
    <3> DEFINE r == Typing!Bare("start")
               s == Typing!Mutation("insertCompositionText", [i \in 1 .. n |-> Typing!Pre])
               v == Typing!Key(TRUE, <<>>)
    <3>1. Typing!Begins(n) = <<r, s>> /\ steps = <<v>> \o Typing!Begins(n)
      BY DEF Typing!Begins
    <3> HIDE DEF r, s, v, steps
    <3>3. <<v>> \o <<r, s>> = <<v, r, s>> /\ <<r, s>>[1] = r /\ <<r, s>>[2] = s
      BY JoinedThree, ZenonT(30)
    <3>2. steps = <<v, Typing!Begins(n)[1], Typing!Begins(n)[2]>>
      BY <3>1, <3>3
    <3> QED  BY <3>2 DEF v
  <2> HIDE DEF steps
  <2>3. /\ Plausible' /\ script' = steps /\ Unset' /\ Owes(<<>>)'
        /\ UNCHANGED <<os, value, xterm, guard>> /\ Steady'
    BY <2>1, PressIs
  <2>4. Unmarked'
    BY <2>1, <2>3, UnmarkedIs DEF Unmarked
  <2>5. ComposeKeyed'
    BY <2>2, <2>3, <2>4 DEF ComposeKeyed
  <2> QED  BY <2>3, <2>5 DEF TypingInv
<1>8. ASSUME NEW c \in Char, NEW n \in {0, 1}, Typing!Commit(c, n) PROVE TypingInv'
  <2> DEFINE first == <<Typing!Key(TRUE, <<>>), Typing!Mutation("insertFromComposition", <<c>>), Typing!Bare("end")>>
             steps == first \o (IF n > 0 THEN Typing!Begins(n) ELSE <<>>)
  <2>1. Typing!Press(steps, <<c>>) /\ Typing!Composing /\ <<c>> \in Seq(Char)
    BY <1>8, CharText DEF Typing!Commit
  <2>2. steps = first \o After(n)
    <3>1. CASE n = 0
      BY <3>1 DEF After
    <3>2. CASE n = 1
      <4> DEFINE r == Typing!Bare("start")
                 s == Typing!Mutation("insertCompositionText", [i \in 1 .. n |-> Typing!Pre])
      <4>1. Typing!Begins(n) = <<r, s>>
        BY DEF Typing!Begins
      <4> HIDE DEF r, s, first
      <4>2. After(n) = Typing!Begins(n)
        BY <3>2, <4>1 DEF After
      <4>3. steps = first \o Typing!Begins(n)
        BY <3>2
      <4> QED  BY <4>2, <4>3
    <3> QED  BY <3>1, <3>2
  <2> HIDE DEF steps
  <2>3. /\ Plausible' /\ script' = steps /\ Unset' /\ Owes(<<c>>)'
        /\ UNCHANGED <<os, value, xterm, guard>> /\ Steady' /\ guard.target
    BY <2>1, PressIs
  <2>4. Open' /\ guard'.target
    BY <2>1, <2>3 DEF Steady, Shut, Open, Typing!Composing
  <2>5. CommitKeyed'
    BY <2>2, <2>3, <2>4 DEF CommitKeyed
  <2> QED  BY <2>3, <2>5 DEF TypingInv
<1>9. CASE Typing!Leave
  <2> DEFINE steps == <<Typing!Bare("focus")>>
  <2>1. Typing!Press(steps, <<>>) /\ Typing!Composing /\ <<>> \in Seq(Char)
    BY <1>9 DEF Typing!Leave
  <2> HIDE DEF steps
  <2>3. /\ Plausible' /\ script' = steps /\ Unset' /\ Owes(<<>>)'
        /\ UNCHANGED <<os, value, xterm, guard>> /\ Steady'
    BY <2>1, PressIs
  <2>4. Open' /\ (xterm.start <= xterm.end)'
    BY <2>1, <2>3 DEF Steady, Shut, Open, Typing!Composing
  <2>5. Leaving'
    BY <2>3, <2>4 DEF Leaving, steps
  <2> QED  BY <2>3, <2>5 DEF TypingInv
<1>10. CASE Typing!Enter
  <2>1. /\ timers = <<>> /\ value' = <<>> /\ keys < MaxKeys /\ keys' = keys + 1
        /\ xterm' = [xterm EXCEPT !.composing = FALSE, !.sending = FALSE]
        /\ guard' = [guard EXCEPT !.ime = FALSE, !.pending = None]
        /\ UNCHANGED <<os, script, timers, typed, sent>> /\ ~Typing!Composing
    BY <1>10 DEF Typing!Enter
  <2>2. xterm' \in XTerm /\ ~xterm'.composing
    BY <2>1 DEF XTerm, Plausible
  <2>3. guard' \in [target : BOOLEAN, ime : BOOLEAN, pending : {None}]
        /\ guard'.target = guard.target
    BY <2>1 DEF Plausible
  <2>4. keys' \in 0 .. MaxKeys
    <3>1. MaxKeys \in Nat /\ keys \in 0 .. MaxKeys
      BY DEF Plausible, Typing!CompositionAssumption
    <3> QED  BY <2>1, <3>1
  <2>5. Plausible'
    BY <2>1, <2>2, <2>3, <2>4, EmptyText DEF Plausible
  <2>6. Due' = <<>> /\ Due = <<>>
    BY <2>1 DEF Due, DueOf
  <2>7. Owes(<<>>)'
    BY <2>1, <2>6 DEF AtRest, Owes
  <2>8. NoPreedit(<<>>)
    <3>1. Len(<<>>) = 0 /\ 1 .. 0 = {} /\ 0 + 1 .. 0 = {} /\ 0 \in 0 .. 0
      OBVIOUS
    <3> QED  BY <3>1 DEF NoPreedit, Preedits
  <2>9. Shut' /\ Steady'
    BY <2>1, <2>2, <2>8 DEF Shut, Steady
  <2>10. ~guard'.target
    BY <2>1, <2>3, UnmarkedIs DEF Unmarked
  <2>11. AtRest'
    BY <1>1, <2>1, <2>2, <2>7, <2>9, <2>10 DEF AtRest
  <2> QED  BY <2>5, <2>11 DEF TypingInv
<1> QED  BY <1>1, <1>2, <1>3, <1>4, <1>5, <1>6, <1>7, <1>8, <1>9, <1>10 DEF Typing!Next

LEMMA InitTyping ==
  Typing!CompositionAssumption /\ Typing!Init => TypingInv
<1> SUFFICES ASSUME Typing!CompositionAssumption, Typing!Init PROVE TypingInv
  OBVIOUS
<1>1. /\ os \in {"linux", "mac"} /\ value = <<>>
      /\ xterm = [composing |-> FALSE, sending |-> FALSE, start |-> 0, end |-> 0, already |-> 0]
      /\ guard = [target |-> FALSE, ime |-> FALSE, pending |-> None]
      /\ script = <<>> /\ timers = <<>> /\ typed = <<>> /\ sent = <<>> /\ keys = 0
      /\ MaxKeys \in Nat
  BY DEF Typing!Init, Typing!CompositionAssumption
<1>2. <<>> \in Seq(Char) /\ keys \in 0 .. MaxKeys
  BY <1>1
<1>3. xterm \in XTerm /\ guard \in [target : BOOLEAN, ime : BOOLEAN, pending : {None}]
  BY <1>1 DEF XTerm
<1>4. Plausible
  BY <1>1, <1>2, <1>3, EmptyText DEF Plausible
<1>5. Due = <<>>
  BY <1>1 DEF Due, DueOf
<1>6. Owes(<<>>)
  <2>1. <<>> = (<<>> \o <<>>) \o <<>>
    OBVIOUS
  <2> QED  BY <1>1, <1>5, <2>1 DEF Owes
<1>7. NoPreedit(value)
  <2>1. Len(<<>>) = 0 /\ 1 .. 0 = {} /\ 0 + 1 .. 0 = {} /\ 0 \in 0 .. 0
    OBVIOUS
  <2> QED  BY <1>1, <2>1 DEF NoPreedit, Preedits
<1>8. ~xterm.composing /\ ~guard.target
  BY <1>1
<1>9. AtRest
  BY <1>1, <1>6, <1>7, <1>8 DEF AtRest, Steady, Shut
<1> QED  BY <1>4, <1>9 DEF TypingInv

LEMMA StepTyping ==
  Typing!CompositionAssumption /\ TypingInv /\ [Typing!Next]_(Typing!vars) => TypingInv'
<1> SUFFICES ASSUME Typing!CompositionAssumption, TypingInv, [Typing!Next]_(Typing!vars) PROVE TypingInv'
  OBVIOUS
<1>1. CASE UNCHANGED Typing!vars
  BY <1>1 DEF Typing!vars, TypingInv, Plausible, AtRest, PlainKeyed, Echoed, DictatedTo,
     DirectKeyed,
              Directed, OrphanKeyed, Orphaned, OrphanEnds, ComposeKeyed, Starts, Started,
              CommitKeyed, Commits, Ending, Leaving, Owes, Due, Unset, NoGrowth, SendsBefore,
              Unmarked, Steady, Open, Shut
<1>2. CASE Typing!Next
  <2>1. Plausible
    BY DEF TypingInv
  <2>2. CASE AtRest
    BY <1>2, <2>1, <2>2, AtRestGoes
  <2>3. CASE PlainKeyed
    BY <1>2, <2>1, <2>3, PlainKeyedGoes DEF TypingInv
  <2>4. CASE Echoed
    BY <1>2, <2>1, <2>4, EchoedGoes DEF TypingInv
  <2>5. CASE DictatedTo
    BY <1>2, <2>1, <2>5, DictatedGoes DEF TypingInv
  <2>6. CASE DirectKeyed
    BY <1>2, <2>1, <2>6, DirectKeyedGoes DEF TypingInv
  <2>7. CASE Directed
    BY <1>2, <2>1, <2>7, DirectedGoes DEF TypingInv
  <2>8. CASE OrphanKeyed
    BY <1>2, <2>1, <2>8, OrphanKeyedGoes DEF TypingInv
  <2>9. CASE Orphaned
    BY <1>2, <2>1, <2>9, OrphanedGoes DEF TypingInv
  <2>10. CASE OrphanEnds
    BY <1>2, <2>1, <2>10, OrphanEndsGoes DEF TypingInv
  <2>11. CASE ComposeKeyed
    BY <1>2, <2>1, <2>11, ComposeKeyedGoes DEF TypingInv
  <2>12. CASE Starts
    BY <1>2, <2>1, <2>12, StartsGoes DEF TypingInv
  <2>13. CASE Started
    BY <1>2, <2>1, <2>13, StartedGoes DEF TypingInv
  <2>14. CASE CommitKeyed
    BY <1>2, <2>1, <2>14, CommitKeyedGoes DEF TypingInv
  <2>15. CASE Commits
    BY <1>2, <2>1, <2>15, CommitsGoes DEF TypingInv
  <2>16. CASE Ending
    BY <1>2, <2>1, <2>16, EndingGoes DEF TypingInv
  <2>17. CASE Leaving
    BY <1>2, <2>1, <2>17, LeavesGoes DEF TypingInv
  <2> QED  BY <2>2, <2>3, <2>4, <2>5, <2>6, <2>7, <2>8, <2>9, <2>10, <2>11, <2>12, <2>13,
              <2>14, <2>15, <2>16, <2>17 DEF TypingInv
<1> QED  BY <1>1, <1>2

LEMMA TypingHolds ==
  TypingInv => Typing!TypeOK /\ Typing!TypedOnce
<1> SUFFICES ASSUME TypingInv PROVE Typing!TypeOK /\ Typing!TypedOnce
  OBVIOUS
<1>1. Plausible
  BY DEF TypingInv
<1>2. Typing!TypeOK
  <2>1. \A i \in DOMAIN timers : timers[i].is \in {"diff", "send"}
    BY <1>1 DEF Plausible, Timers
  <2>2. /\ guard \in [target : BOOLEAN, ime : BOOLEAN,
                      pending : {None} \cup [value : Typing!Text, deliver : Typing!Text \cup {None}, echo : BOOLEAN]]
    BY <1>1 DEF Plausible
  <2> QED  BY <1>1, <2>1, <2>2 DEF Plausible, XTerm, Typing!TypeOK
<1>3. Typing!TypedOnce
  <2> SUFFICES ASSUME script = <<>>, timers = <<>> PROVE sent = typed
    BY DEF Typing!TypedOnce
  <2>1. AtRest
    <3>1. ~PlainKeyed /\ ~Echoed /\ ~DictatedTo /\ ~DirectKeyed /\ ~Directed /\ ~OrphanKeyed
          /\ ~Orphaned /\ ~OrphanEnds /\ ~ComposeKeyed /\ ~Starts /\ ~Started /\ ~Leaving
      BY DEF PlainKeyed, Echoed, DictatedTo, DirectKeyed, Directed, OrphanKeyed, Orphaned,
             OrphanEnds, ComposeKeyed, Starts, Started, Leaving
    <3>2. ~CommitKeyed
      <4> SUFFICES ASSUME NEW c \in Char, NEW n \in {0, 1}
                   PROVE  script # <<Typing!Key(TRUE, <<>>), Typing!Mutation("insertFromComposition", <<c>>),
                                     Typing!Bare("end")>> \o After(n)
        BY DEF CommitKeyed
      <4> DEFINE v == Typing!Key(TRUE, <<>>)
                 u == Typing!Mutation("insertFromComposition", <<c>>)
                 w == Typing!Bare("end")
      <4> HIDE DEF u, v, w
      <4>1. <<v, u, w>> \o After(n) # <<>>
        BY AfterThree
      <4> QED  BY <4>1 DEF u, v, w
    <3>3. ~Commits
      <4> SUFFICES ASSUME NEW c \in Char, NEW n \in {0, 1}
                   PROVE  script # <<Typing!Mutation("insertFromComposition", <<c>>), Typing!Bare("end")>>
                                     \o After(n)
        BY DEF Commits
      <4> DEFINE u == Typing!Mutation("insertFromComposition", <<c>>)
                 w == Typing!Bare("end")
      <4> HIDE DEF u, w
      <4>1. <<u, w>> \o After(n) # <<>>
        BY AfterTwo
      <4> QED  BY <4>1 DEF u, w
    <3>4. ~Ending
      <4> SUFFICES ASSUME NEW n \in {0, 1} PROVE script # <<Typing!Bare("end")>> \o After(n)
        BY DEF Ending
      <4> DEFINE w == Typing!Bare("end")
      <4> HIDE DEF w
      <4>1. <<w>> \o After(n) # <<>>
        BY AfterLast
      <4> QED  BY <4>1 DEF w
    <3> QED  BY <3>1, <3>2, <3>3, <3>4 DEF TypingInv
  <2>2. Due = <<>>
    BY DEF Due, DueOf
  <2>3. sent \in Typing!Text
    BY <1>1 DEF Plausible
  <2> QED  BY <2>1, <2>2, <2>3, TextFacts DEF AtRest, Owes
<1> QED  BY <1>2, <1>3

-----------------------------------------------------------------------------
(* Terminal links                                                          *)

Rows == [cells : Seq(Links!Cell), isWrapped : BOOLEAN]

\* What TypeOK says, of sequences; a program prints what is an output.
LinksInv ==
  /\ rows \in Seq(Rows) /\ rows # <<>>
  /\ \A i \in 1 .. Len(rows) : Len(rows[i].cells) <= Cols
  /\ program \in Outputs /\ outputs \in 0 .. MaxOutputs

LEMMA LinksHold ==
  LinksInv => Links!TypeOK
<1> SUFFICES ASSUME LinksInv PROVE Links!TypeOK
  OBVIOUS
<1>1. ASSUME NEW i \in DOMAIN rows
      PROVE  /\ rows[i].isWrapped \in BOOLEAN /\ Len(rows[i].cells) <= Cols
             /\ \A x \in DOMAIN rows[i].cells : rows[i].cells[x] \in Links!Cell
  <2>1. i \in 1 .. Len(rows)
    BY DEF LinksInv
  <2>2. rows[i] \in Rows
    BY <2>1, ElementOfSeq DEF LinksInv
  <2>3. rows[i].cells \in Seq(Links!Cell) /\ rows[i].isWrapped \in BOOLEAN
    BY <2>2 DEF Rows
  <2>4. \A x \in DOMAIN rows[i].cells : rows[i].cells[x] \in Links!Cell
    <3> DEFINE s == rows[i].cells
    <3> HIDE DEF s
    <3>1. s \in Seq(Links!Cell)
      BY <2>3 DEF s
    <3>2. DOMAIN s = 1 .. Len(s) /\ \A x \in 1 .. Len(s) : s[x] \in Links!Cell
      BY <3>1, LenProperties, ElementOfSeq
    <3> QED  BY <3>2 DEF s
  <2> QED  BY <2>1, <2>3, <2>4 DEF LinksInv
<1> QED  BY <1>1 DEF LinksInv, Links!TypeOK

LEMMA InitLinks ==
  Links!LinksAssumption /\ Links!Init => LinksInv
<1> SUFFICES ASSUME Links!LinksAssumption, Links!Init PROVE LinksInv
  OBVIOUS
<1> DEFINE row == [cells |-> <<>>, isWrapped |-> FALSE]
<1>1. row \in Rows /\ Len(row.cells) = 0
  BY DEF Rows
<1> HIDE DEF row
<1>2. rows = <<row>>
  BY DEF Links!Init, row
<1>3. rows \in Seq(Rows) /\ rows # <<>> /\ Len(rows) = 1 /\ rows[1] = row
  BY <1>1, <1>2
<1>4. \A i \in 1 .. Len(rows) : Len(rows[i].cells) <= Cols
  BY <1>1, <1>3 DEF Links!LinksAssumption
<1> QED  BY <1>3, <1>4 DEF Links!Init, LinksInv, Links!LinksAssumption

\* An output's cells.
LEMMA CellsAre ==
  ASSUME NEW ch \in Links!Glyph \cup {"gap"}
  PROVE  /\ Links!Cells(ch) \in Seq(Links!Cell) /\ Links!Width(ch) \in {1, 2}
         /\ Len(Links!Cells(ch)) = IF ch = "gap" THEN 1 ELSE Links!Width(ch)
<1>1. CASE ch = "gap"
  BY <1>1 DEF Links!Cells, Links!Width, Links!Cell
<1>2. CASE ch # "gap"
  <2> DEFINE one == << [width |-> Links!Width(ch), chars |-> <<ch>>] >>
             two == IF Links!Width(ch) = 2 THEN << [width |-> 0, chars |-> <<>>] >> ELSE <<>>
  <2>1. one \in Seq(Links!Cell) /\ Len(one) = 1
    <3>1. [width |-> Links!Width(ch), chars |-> <<ch>>] \in Links!Cell
      BY <1>2 DEF Links!Width, Links!Cell
    <3> QED  BY <3>1
  <2>2. two \in Seq(Links!Cell) /\ Len(two) = IF Links!Width(ch) = 2 THEN 1 ELSE 0
    <3>1. [width |-> 0, chars |-> <<>>] \in Links!Cell
      BY DEF Links!Cell
    <3> QED  BY <3>1
  <2>3. Links!Cells(ch) = one \o two
    BY <1>2 DEF Links!Cells
  <2>4. one \o two \in Seq(Links!Cell) /\ Len(one \o two) = Len(one) + Len(two)
    <3> HIDE DEF one, two
    <3> QED  BY <2>1, <2>2, ConcatProperties
  <2>5. Links!Width(ch) \in {1, 2}
    BY DEF Links!Width
  <2> HIDE DEF one, two
  <2> QED  BY <1>2, <2>1, <2>2, <2>3, <2>4, <2>5
<1> QED  BY <1>1, <1>2

LEMMA LastRow ==
  ASSUME Links!LinksAssumption, LinksInv
  PROVE  /\ Len(rows) \in 1 .. Len(rows) /\ Links!Last(rows) = rows[Len(rows)]
         /\ Links!Last(rows) \in Rows /\ Links!Last(rows).cells \in Seq(Links!Cell) /\ Len(Links!Last(rows).cells) \in Nat
         /\ Len(Links!Last(rows).cells) <= Cols /\ Cols \in Nat
<1>1. Len(rows) \in Nat /\ Len(rows) # 0
  BY LenProperties, EmptySeq DEF LinksInv
<1>2. Len(rows) \in 1 .. Len(rows)
  BY <1>1
<1>3. Links!Last(rows) = rows[Len(rows)]
  BY DEF Links!Last
<1>4. rows[Len(rows)] \in Rows /\ Len(rows[Len(rows)].cells) <= Cols
  BY <1>2, ElementOfSeq DEF LinksInv
<1>5. rows[Len(rows)].cells \in Seq(Links!Cell) /\ Cols \in Nat
  BY <1>4 DEF Rows, Links!LinksAssumption
<1>6. Len(rows[Len(rows)].cells) \in Nat
  BY <1>5, LenProperties
<1> QED  BY <1>2, <1>3, <1>4, <1>5, <1>6

\* The last row is replaced by one that fits, or one is added.
LEMMA RowReplaced ==
  ASSUME Links!LinksAssumption, LinksInv, NEW row \in Rows, Len(row.cells) <= Cols,
         rows' = [rows EXCEPT ![Len(rows)] = row] \/ rows' = Append(rows, row),
         program' = program, outputs' \in 0 .. MaxOutputs
  PROVE  LinksInv'
<1>1. Len(rows) \in 1 .. Len(rows) /\ rows \in Seq(Rows) /\ Len(rows) \in Nat
  BY LastRow DEF LinksInv
<1>2. CASE rows' = [rows EXCEPT ![Len(rows)] = row]
  <2>1. rows' \in Seq(Rows) /\ Len(rows') = Len(rows)
        /\ \A i \in 1 .. Len(rows) : rows'[i] = IF i = Len(rows) THEN row ELSE rows[i]
    BY <1>1, <1>2, ExceptSeq
  <2>2. \A i \in 1 .. Len(rows') : Len(rows'[i].cells) <= Cols
    BY <2>1 DEF LinksInv
  <2>3. rows' # <<>>
    BY <1>1, <2>1, EmptySeq
  <2> QED  BY <2>1, <2>2, <2>3 DEF LinksInv
<1>3. CASE rows' = Append(rows, row)
  <2>1. /\ rows' \in Seq(Rows) /\ Len(rows') = Len(rows) + 1 /\ rows' # <<>>
        /\ \A i \in 1 .. Len(rows) : rows'[i] = rows[i]
        /\ rows'[Len(rows) + 1] = row
    BY <1>1, <1>3, AppendProperties
  <2>2. ASSUME NEW i \in 1 .. Len(rows') PROVE Len(rows'[i].cells) <= Cols
    <3>1. i \in 1 .. Len(rows) \/ i = Len(rows) + 1
      BY <1>1, <2>1
    <3> QED  BY <2>1, <3>1 DEF LinksInv
  <2> QED  BY <2>1, <2>2 DEF LinksInv
<1> QED  BY <1>2, <1>3

LEMMA StepLinks ==
  Links!LinksAssumption /\ LinksInv /\ [Links!Next]_(Links!linkVars) => LinksInv'
<1> SUFFICES ASSUME Links!LinksAssumption, LinksInv, [Links!Next]_(Links!linkVars) PROVE LinksInv'
  OBVIOUS
<1>1. CASE UNCHANGED Links!linkVars
  BY <1>1 DEF Links!linkVars, LinksInv
<1>2. CASE Links!Next
  <2>1. PICK output \in program : Links!Emit(output)
    BY <1>2 DEF Links!Next
  <2>2. program' = program /\ outputs' \in 0 .. MaxOutputs
    BY <1>2 DEF Links!Next, LinksInv, Links!LinksAssumption
  <2>3. output \in Links!Output
    BY <2>1 DEF LinksInv, Links!LinksAssumption
  <2> DEFINE last == Len(rows)
             cells == Links!Last(rows).cells
  <2>4. /\ last \in 1 .. Len(rows) /\ Links!Last(rows) = rows[last] /\ Links!Last(rows) \in Rows
        /\ cells \in Seq(Links!Cell) /\ Len(cells) \in Nat /\ Len(cells) <= Cols /\ Cols \in Nat
        /\ Cols # 0 /\ Cols # 1 /\ rows[last].cells = cells
    BY LastRow DEF Links!LinksAssumption
  <2>5. DOMAIN rows = 1 .. Len(rows)
    BY LenProperties DEF LinksInv
  <2>6. CASE output = "newline"
    <3> DEFINE row == [cells |-> <<>>, isWrapped |-> FALSE]
    <3>1. row \in Rows /\ Len(row.cells) <= Cols
      BY <2>4 DEF Rows
    <3>2. rows' = Append(rows, row)
      BY <2>1, <2>6 DEF Links!Emit, Links!Newline
    <3> HIDE DEF row
    <3> QED  BY <2>2, <3>1, <3>2, RowReplaced
  <2>7. ASSUME NEW ch \in Links!Glyph \cup {"gap"},
               rows' = [rows EXCEPT ![last].cells = @ \o Links!Cells(ch)],
               Len(cells) + Len(Links!Cells(ch)) <= Cols
        PROVE  LinksInv'
    <3> DEFINE more == cells \o Links!Cells(ch)
               row == [Links!Last(rows) EXCEPT !.cells = more]
    <3>1. Links!Cells(ch) \in Seq(Links!Cell)
      BY CellsAre
    <3>2. more \in Seq(Links!Cell) /\ Len(more) <= Cols
      <4> HIDE DEF cells
      <4> QED  BY <2>4, <2>7, <3>1, ConcatProperties
    <3>3. rows' = [rows EXCEPT ![last] = row]
      BY <2>4, <2>5, <2>7
    <3> HIDE DEF more
    <3>4. row \in Rows /\ row.cells = more
      BY <2>4, <3>2 DEF Rows
    <3> HIDE DEF row
    <3> QED  BY <2>2, <3>2, <3>3, <3>4, RowReplaced
  <2>8. CASE output = "gap"
    <3>1. Len(cells) < Cols /\ rows' = [rows EXCEPT ![last].cells = @ \o Links!Cells("gap")]
      BY <2>1, <2>8 DEF Links!Emit, Links!Gap
    <3>2. Len(Links!Cells("gap")) = 1
      BY CellsAre
    <3>3. Len(cells) + Len(Links!Cells("gap")) <= Cols
      <4> DEFINE k == Len(cells)
                 l == Len(Links!Cells("gap"))
      <4>1. k \in Nat /\ Cols \in Nat /\ k < Cols /\ l = 1
        BY <2>4, <3>1, <3>2
      <4> HIDE DEF k, l
      <4>2. k + l <= Cols
        BY <4>1
      <4> QED  BY <4>2 DEF k, l
    <3> QED  BY <2>7, <3>1, <3>3
  <2>9. CASE output = "accent"
    <3> DEFINE n == Len(cells)
               cell == [cells[n] EXCEPT !.chars = Append(@, "accent")]
               more == [cells EXCEPT ![n] = cell]
               row == [Links!Last(rows) EXCEPT !.cells = more]
    <3>1. n > 0 /\ rows' = [rows EXCEPT ![last].cells[n].chars = Append(@, "accent")]
      BY <2>1, <2>9 DEF Links!Emit, Links!Accent
    <3>2. n \in 1 .. Len(cells) /\ cells[n] \in Links!Cell
      <4>1. n \in 1 .. Len(cells)
        <5> HIDE DEF cells
        <5> QED  BY <2>4, <3>1
      <4> HIDE DEF cells, n
      <4> QED  BY <2>4, <4>1, ElementOfSeq
    <3>3. cell \in Links!Cell
      <4> DEFINE old == cells[n]
      <4>1. old \in Links!Cell
        BY <3>2
      <4> HIDE DEF old
      <4>2. old.chars \in Seq(Links!Glyph) /\ "accent" \in Links!Glyph
        BY <4>1 DEF Links!Cell, Links!Glyph
      <4>3. Append(old.chars, "accent") \in Seq(Links!Glyph)
        BY <4>2, AppendProperties
      <4>4. [old EXCEPT !.chars = Append(@, "accent")] \in Links!Cell
        BY <4>1, <4>3 DEF Links!Cell
      <4> QED  BY <4>4 DEF old
    <3>4. rows' = [rows EXCEPT ![last] = row]
      BY <2>4, <2>5, <3>1
    <3> HIDE DEF cell
    <3>5. more \in Seq(Links!Cell) /\ Len(more) = Len(cells)
      <4> HIDE DEF cells, n
      <4> QED  BY <2>4, <3>2, <3>3, ExceptSeq
    <3> HIDE DEF more
    <3>6. row \in Rows /\ row.cells = more
      BY <2>4, <3>5 DEF Rows
    <3> HIDE DEF row
    <3>7. Len(row.cells) <= Cols
      BY <2>4, <3>5, <3>6
    <3> QED  BY <2>2, <3>4, <3>6, <3>7, RowReplaced
  <2>10. CASE output \notin {"newline", "gap", "accent"}
    <3>1. Links!Write(output) /\ output \in Links!Glyph
      BY <2>1, <2>3, <2>10 DEF Links!Emit, Links!Output
    <3>2. Links!Cells(output) \in Seq(Links!Cell) /\ Len(Links!Cells(output)) = Links!Width(output)
          /\ Links!Width(output) \in {1, 2}
      BY <2>10, <3>1, CellsAre
    <3>3. CASE Len(cells) + Links!Width(output) <= Cols
      <4>1. rows' = [rows EXCEPT ![last].cells = @ \o Links!Cells(output)]
        BY <3>1, <3>3 DEF Links!Write
      <4> QED  BY <2>7, <3>1, <3>2, <3>3, <4>1
    <3>4. CASE ~(Len(cells) + Links!Width(output) <= Cols)
      <4> DEFINE row == [cells |-> Links!Cells(output), isWrapped |-> TRUE]
      <4>1. rows' = Append(rows, row)
        BY <3>1, <3>4 DEF Links!Write
      <4>2. row \in Rows /\ row.cells = Links!Cells(output)
        BY <3>2 DEF Rows
      <4>3. Len(row.cells) <= Cols
        BY <2>4, <3>2, <4>2
      <4> HIDE DEF row
      <4> QED  BY <2>2, <4>1, <4>2, <4>3, RowReplaced
    <3> QED  BY <3>3, <3>4
  <2> QED  BY <2>6, <2>8, <2>9, <2>10
<1> QED  BY <1>1, <1>2
=============================================================================
