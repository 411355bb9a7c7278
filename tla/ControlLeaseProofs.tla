------------------------ MODULE ControlLeaseProofs ------------------------
(***************************************************************************)
(* The safety properties of ControlLease, for every set of clients and     *)
(* workspaces and every value of the bounds.                               *)
(***************************************************************************)
EXTENDS ControlLease, FiniteSetTheorems, TLAPS

Acquired(p, w, e) == p.result = "acquired" /\ p.to.ws = w /\ p.epoch = e

\* Where an epoch may stand as c's right to w.
Claim(c, w, e) ==
  \/ Holds(c, w, e)
  \/ leases[c][w] = e
  \/ answer[c] # None /\ Acquired(answer[c], w, e)
  \/ \E p \in replies[c] : Acquired(p, w, e)

ClaimsDisjoint ==
  \A c, d \in Client : \A w, v \in Workspace : \A e \in Nat \ {0} :
    Claim(c, w, e) /\ Claim(d, v, e) => c = d /\ w = v

\* The counter is ahead of every epoch that is about.
EpochsBounded ==
  /\ \A w \in Workspace : controls[w] # None => controls[w].epoch <= nextEpoch
  /\ \A c \in Client, w \in Workspace : leases[c][w] <= nextEpoch
  /\ \A c \in Client : answer[c] # None => answer[c].epoch <= nextEpoch
  /\ \A c \in Client : \A p \in replies[c] : p.epoch <= nextEpoch
  /\ \A t \in Task : \A a \in announcing[t] : a.epoch <= nextEpoch
  /\ \A c \in Client : \A i \in 1..Len(events[c]) : events[c][i].epoch <= nextEpoch

\* The inductive invariant behind BeliefsDisjoint and EpochsGrow.
EpochInv == TypeOK /\ EpochsBounded /\ ClaimsDisjoint

-----------------------------------------------------------------------------
(* Types.                                                                  *)

USE DEF Task

LEMMA TakeType ==
  ASSUME TypeOK, NEW c \in Client, NEW kind, Take(c, kind)
  PROVE  /\ Incoming(c) \in Request
         /\ Incoming(c).kind = kind
         /\ requests' \in [Client -> Seq(Request)]
         /\ link[c] \in {"up", "cut"}
         /\ answer[c] = None
  BY DEF TypeOK, Take, Incoming, Idle

LEMMA RequestOfType ==
  ASSUME NEW kind \in UserKind \cup {"heartbeat"}, NEW w \in Workspace, NEW e \in Nat
  PROVE  RequestOf(kind, w, e) \in Request
  BY DEF RequestOf, Request

LEMMA AcquireOfType ==
  ASSUME NEW w \in Workspace, NEW force \in BOOLEAN
  PROVE  AcquireOf(w, force) \in Request
  BY DEF AcquireOf, Request, UserKind

LEMMA ReplyToType ==
  ASSUME NEW r \in Request, NEW result \in {"acquired", "ok", "refused"}, NEW e \in Nat
  PROVE  ReplyTo(r, result, e) \in Reply
  BY DEF ReplyTo, Reply

LEMMA UserRequestType ==
  ASSUME TypeOK, NEW c \in Client, NEW r \in Request, r.kind \in UserKind, UserRequest(c, r)
  PROVE  /\ requests' \in [Client -> Seq(Request)]
         /\ spent' \in [UserKind -> Nat]
         /\ UNCHANGED <<link, events, replies, leases, agentVars>>
  BY DEF TypeOK, UserRequest, Write

LEMMA AgeType ==
  ASSUME NEW l \in Lease, NEW a \in 0..Ttl
  PROVE  /\ [l EXCEPT !.age = a] \in Lease
         /\ [l EXCEPT !.age = a].owner = l.owner
         /\ [l EXCEPT !.age = a].epoch = l.epoch
         /\ [l EXCEPT !.age = a].age = a
  BY DEF Lease
LEMMA RefreshType ==
  ASSUME TypeOK, NEW w \in Workspace, controls[w] \in Lease,
         controls' = [controls EXCEPT ![w].age = 0]
  PROVE  /\ controls' \in [Workspace -> Lease \cup {None}]
         /\ controls'[w].owner = controls[w].owner
         /\ controls'[w].epoch = controls[w].epoch
         /\ controls'[w] \in Lease
         /\ \A v \in Workspace \ {w} : controls'[v] = controls[v]
<1> DEFINE l == [controls[w] EXCEPT !.age = 0]
<1>1. 0 \in 0..Ttl BY ConstantsAssumption
<1>2. controls' = [controls EXCEPT ![w] = l] OBVIOUS
<1>3. l \in Lease /\ l.owner = controls[w].owner /\ l.epoch = controls[w].epoch
  BY <1>1, AgeType
<1> HIDE DEF l
<1>. QED BY <1>2, <1>3 DEF TypeOK
LEMMA ClearLeaseType ==
  ASSUME TypeOK, NEW c \in Client, NEW w \in Workspace, ClearLease(c, w)
  PROVE  leases' \in [Client -> [Workspace -> Nat]]
  BY DEF TypeOK, ClearLease
LEMMA CacheType ==
  ASSUME TypeOK, NEW c \in Client, NEW w \in Workspace, NEW e \in Nat, leases' = [leases EXCEPT ![c][w] = e]
  PROVE  leases' \in [Client -> [Workspace -> Nat]]
<1>1. [leases[c] EXCEPT ![w] = e] \in [Workspace -> Nat] BY DEF TypeOK
<1>. QED  BY <1>1 DEF TypeOK

\* c's queue is within its capacity.
Bounded(c) ==
  IsFiniteSet(replies[c]) /\ Len(events[c]) + Cardinality(replies[c]) <= QueueCap

LEMMA QueueLengths ==
  ASSUME TypeOK, NEW c \in Client
  PROVE  /\ IsFiniteSet(replies[c]) /\ Cardinality(replies[c]) \in Nat
         /\ events[c] \in Seq(Announcement) /\ Len(events[c]) \in Nat
         /\ Len(events[c]) + Cardinality(replies[c]) <= QueueCap
<1>1. IsFiniteSet(replies[c]) BY DEF TypeOK
<1>2. Cardinality(replies[c]) \in Nat BY <1>1, FS_CardinalityType
<1>. QED BY <1>1, <1>2 DEF TypeOK

\* What is taken from a queue leaves it within its capacity.
LEMMA QueueShrinks ==
  ASSUME TypeOK, NEW c \in Client, replies'[c] \subseteq replies[c],
         Len(events'[c]) \in Nat, Len(events'[c]) <= Len(events[c])
  PROVE  Bounded(c)'
<1>1. IsFiniteSet(replies'[c]) /\ Cardinality(replies'[c]) <= Cardinality(replies[c])
  BY QueueLengths, FS_Subset
<1>2. Cardinality(replies'[c]) \in Nat
  BY <1>1, FS_CardinalityType
<1>. QED BY <1>1, <1>2, QueueLengths, ConstantsAssumption DEF Bounded

LEMMA ForgetBounded ==
  ASSUME TypeOK, NEW c \in Client, ForgetTransport(c)
  PROVE  \A d \in Client : Bounded(d)'
<1> SUFFICES ASSUME NEW d \in Client PROVE Bounded(d)'
  OBVIOUS
<1>1. replies'[d] \subseteq replies[d] /\ (events'[d] = <<>> \/ events'[d] = events[d])
  BY DEF ForgetTransport, TypeOK
<1>2. Len(events[d]) \in Nat
  BY QueueLengths
<1>3. CASE events'[d] = <<>>
  <2>1. Len(events'[d]) = 0 BY <1>3
  <2>. QED BY <1>1, <1>2, <2>1, QueueShrinks
<1>4. CASE events'[d] = events[d]
  BY <1>1, <1>2, <1>4, QueueShrinks
<1>. QED BY <1>1, <1>3, <1>4

LEMMA InitType == Init => TypeOK
<1>. SUFFICES ASSUME Init PROVE TypeOK
  OBVIOUS
<1>1. ASSUME NEW c \in Client
      PROVE  IsFiniteSet(replies[c]) /\ Len(events[c]) + Cardinality(replies[c]) <= QueueCap
  <2>1. replies[c] = {} /\ Len(events[c]) = 0
    BY DEF Init
  <2>. QED BY <2>1, FS_EmptySet, ConstantsAssumption
<1>. QED BY <1>1, ConstantsAssumption DEF Init, TypeOK, UserKind

LEMMA ClientType ==
  ASSUME TypeOK, NEW c \in Client, ClientStep(c)
  PROVE  TypeOK'
<1> USE DEF vars, agentVars, clientVars
<1>1. ASSUME NEW w \in Workspace, NEW force \in BOOLEAN, EnsureControl(c, w, force)
      PROVE  TypeOK'
  <2>1. AcquireOf(w, force) \in Request /\ AcquireOf(w, force).kind \in UserKind
    BY AcquireOfType DEF UserKind, AcquireOf
  <2>2. /\ requests' \in [Client -> Seq(Request)] /\ spent' \in [UserKind -> Nat]
        /\ UNCHANGED <<link, events, replies, leases, agentVars>>
    BY <1>1, <2>1, UserRequestType DEF EnsureControl
  <2>3. awaiting' \in [Client -> SUBSET Request]
    BY <1>1, <2>1 DEF EnsureControl, TypeOK
  <2>. QED BY <2>2, <2>3 DEF TypeOK
<1>2. ASSUME NEW w \in Workspace, Heartbeat(c, w) PROVE TypeOK'
  <2>1. RequestOf("heartbeat", w, leases[c][w]) \in Request
    BY <1>2, RequestOfType DEF TypeOK
  <2>2. requests' \in [Client -> Seq(Request)]
    BY <1>2, <2>1 DEF Heartbeat, Write, TypeOK
  <2>. QED BY <1>2, <2>2 DEF Heartbeat, TypeOK
<1>3. ASSUME NEW w \in Workspace, Attach(c, w) PROVE TypeOK'
  <2>1. RequestOf("attach", w, 0) \in Request /\ RequestOf("attach", w, 0).kind \in UserKind
    BY RequestOfType DEF UserKind, RequestOf
  <2>. QED BY <1>3, <2>1, UserRequestType DEF Attach, TypeOK
<1>4. ASSUME NEW w \in Workspace, NEW kind \in {"operate", "release"}, UseLease(c, w, kind)
      PROVE  TypeOK'
  <2>1. /\ RequestOf(kind, w, leases[c][w]) \in Request
        /\ RequestOf(kind, w, leases[c][w]).kind \in UserKind
    BY RequestOfType DEF UserKind, RequestOf, TypeOK
  <2>. QED BY <1>4, <2>1, UserRequestType DEF UseLease, TypeOK
<1>5. ASSUME NEW r \in awaiting[c], EnsureControlTimeout(c, r) PROVE TypeOK'
  BY <1>5 DEF EnsureControlTimeout, TypeOK
<1>6. CASE ReceiveEvent(c)
  <2>1. Head(events[c]) \in Announcement /\ events' \in [Client -> Seq(Announcement)]
    BY <1>6 DEF ReceiveEvent, TypeOK
  <2>2. leases' \in [Client -> [Workspace -> Nat]]
    <3>1. Head(events[c]).ws \in Workspace
      BY <2>1 DEF Announcement
    <3>2. leases' = leases \/ ClearLease(c, Head(events[c]).ws)
      BY <1>6 DEF ReceiveEvent
    <3>3. CASE leases' = leases
      BY <3>3 DEF TypeOK
    <3>4. CASE ClearLease(c, Head(events[c]).ws)
      BY <3>1, <3>4, ClearLeaseType
    <3>. QED BY <3>2, <3>3, <3>4
  <2>3. \A d \in Client : Bounded(d)'
    <3> SUFFICES ASSUME NEW d \in Client PROVE Bounded(d)'
      OBVIOUS
    <3>1. events[d] \in Seq(Announcement) /\ Len(events[d]) \in Nat
      BY QueueLengths
    <3>2. replies'[d] = replies[d] /\ (events'[d] = events[d] \/ (d = c /\ events[c] # <<>> /\ events'[d] = Tail(events[d])))
      BY <1>6 DEF ReceiveEvent, TypeOK
    <3>3. Len(events'[d]) \in Nat /\ Len(events'[d]) <= Len(events[d])
      <4>1. CASE events'[d] = events[d]
        BY <3>1, <4>1
      <4>2. CASE events[d] # <<>> /\ events'[d] = Tail(events[d])
        <5>1. Len(events'[d]) = Len(events[d]) - 1 /\ Len(events[d]) > 0
          BY <3>1, <4>2
        <5>. QED BY <3>1, <5>1
      <4>. QED BY <3>2, <4>1, <4>2
    <3>. QED BY <3>2, <3>3, QueueShrinks
  <2>. QED BY <1>6, <2>1, <2>2, <2>3 DEF ReceiveEvent, TypeOK, Bounded
<1>7. CASE ReceiveReply(c)
  <2>1. PICK p \in replies[c] :
          /\ replies' = [replies EXCEPT ![c] = @ \ {p}]
          /\ \/ OnAcquireReply(c, p) \/ OnHeartbeatReply(c, p)
             \/ OnOperateReply(c, p) \/ OnOtherReply(c, p)
    BY <1>7 DEF ReceiveReply
  <2>2. p \in Reply /\ p.to.ws \in Workspace /\ p.epoch \in Nat
    BY DEF TypeOK, Reply, Request
  <2>3. leases' \in [Client -> [Workspace -> Nat]] /\ awaiting' \in [Client -> SUBSET Request]
    <3>1. CASE OnAcquireReply(c, p)
      <4>1. leases' = leases \/ leases' = [leases EXCEPT ![c][p.to.ws] = p.epoch]
        BY <3>1 DEF OnAcquireReply
      <4>2. leases' \in [Client -> [Workspace -> Nat]]
        <5>1. CASE leases' = leases
          BY <5>1 DEF TypeOK
        <5>2. CASE leases' = [leases EXCEPT ![c][p.to.ws] = p.epoch]
          BY <5>2, <2>2, CacheType
        <5>. QED BY <4>1, <5>1, <5>2
      <4>3. awaiting' \in [Client -> SUBSET Request]
        BY <3>1 DEF OnAcquireReply, TypeOK
      <4>. QED BY <4>2, <4>3
    <3>2. CASE OnHeartbeatReply(c, p) \/ OnOperateReply(c, p)
      <4>1. leases' = leases \/ ClearLease(c, p.to.ws)
        BY <3>2 DEF OnHeartbeatReply, OnOperateReply
      <4>. QED BY <3>2, <4>1, <2>2, ClearLeaseType DEF OnHeartbeatReply, OnOperateReply, TypeOK
    <3>3. CASE OnOtherReply(c, p)
      BY <3>3 DEF OnOtherReply, TypeOK
    <3>. QED BY <2>1, <3>1, <3>2, <3>3
  <2>4. \A d \in Client : Bounded(d)'
    <3> SUFFICES ASSUME NEW d \in Client PROVE Bounded(d)'
      OBVIOUS
    <3>1. replies'[d] \subseteq replies[d] /\ events'[d] = events[d] /\ Len(events[d]) \in Nat
      BY <1>7, <2>1, QueueLengths DEF ReceiveReply, TypeOK
    <3>. QED BY <3>1, QueueShrinks
  <2>. QED BY <1>7, <2>1, <2>3, <2>4 DEF ReceiveReply, TypeOK, Bounded
<1>8. CASE Cut(c)
  <2>1. \A d \in Client : Bounded(d)'
    BY <1>8, ForgetBounded DEF Cut
  <2>. QED BY <1>8, <2>1 DEF Cut, ForgetTransport, TypeOK, Bounded
<1>. QED BY <1>1, <1>2, <1>3, <1>4, <1>5, <1>6, <1>7, <1>8 DEF ClientStep

LEMMA HandlerType ==
  ASSUME TypeOK, NEW c \in Client, HandlerStep(c)
  PROVE  TypeOK'
<1> USE ConstantsAssumption DEF clientVars
<1>1. CASE RenewOwn(c)
  <2>1. Incoming(c) \in Request /\ requests' \in [Client -> Seq(Request)]
    BY <1>1, TakeType DEF RenewOwn
  <2>2. controls[Incoming(c).ws] \in Lease
    BY <1>1, <2>1 DEF RenewOwn, Alive, TypeOK, Request
  <2>3. /\ controls' \in [Workspace -> Lease \cup {None}]
        /\ answer' \in [Client -> Reply \cup {None}]
    <3>1. controls' \in [Workspace -> Lease \cup {None}]
      BY <1>1, <2>1, <2>2, RefreshType DEF RenewOwn, Request
    <3>2. ReplyTo(Incoming(c), "acquired", controls[Incoming(c).ws].epoch) \in Reply
      BY <2>1, <2>2, ReplyToType DEF Lease
    <3>. QED BY <1>1, <3>1, <3>2 DEF RenewOwn, TypeOK
  <2>. QED BY <1>1, <2>1, <2>3 DEF RenewOwn, TypeOK
<1>2. CASE RefuseHeld(c)
  <2>1. Incoming(c) \in Request /\ requests' \in [Client -> Seq(Request)]
    BY <1>2, TakeType DEF RefuseHeld
  <2>2. answer' \in [Client -> Reply \cup {None}]
    BY <1>2, <2>1, ReplyToType DEF RefuseHeld, TypeOK
  <2>. QED BY <1>2, <2>1, <2>2 DEF RefuseHeld, TypeOK
<1>3. CASE GrantControl(c)
  <2>1. Incoming(c) \in Request /\ requests' \in [Client -> Seq(Request)]
    BY <1>3, TakeType DEF GrantControl
  <2>2. PICK w \in Workspace : w = Incoming(c).ws /\ Grant(c, w, nextEpoch + 1)
    BY <1>3, <2>1 DEF GrantControl, Request
  <2>3. nextEpoch + 1 \in Nat /\ nextEpoch' \in Nat
    BY <2>2 DEF Grant, TypeOK
  <2>4. controls' \in [Workspace -> Lease \cup {None}]
    BY <2>2, <2>3 DEF Grant, TypeOK, Lease
  <2>5. announcing' \in [Task -> SUBSET Announcement]
    BY <2>2, <2>3 DEF Grant, TypeOK, Announcement
  <2>6. answer' \in [Client -> Reply \cup {None}]
    BY <2>1, <2>2, <2>3, ReplyToType DEF Grant, TypeOK
  <2>. QED BY <2>1, <2>2, <2>3, <2>4, <2>5, <2>6 DEF Grant, TypeOK
<1>4. ASSUME NEW kind \in Validated, ValidateAccept(c, kind) PROVE TypeOK'
  <2>1. Incoming(c) \in Request /\ requests' \in [Client -> Seq(Request)]
    BY <1>4, TakeType DEF ValidateAccept
  <2>2. controls[Incoming(c).ws] \in Lease
    BY <1>4, <2>1 DEF ValidateAccept, Alive, TypeOK, Request
  <2>3. controls' \in [Workspace -> Lease \cup {None}]
    <3>1. CASE controls' = controls
      BY <3>1 DEF TypeOK
    <3>2. CASE controls' = [controls EXCEPT ![Incoming(c).ws].age = 0]
      BY <3>2, <2>1, <2>2, RefreshType DEF Request
    <3>. QED BY <1>4, <3>1, <3>2 DEF ValidateAccept
  <2>4. answer' \in [Client -> Reply \cup {None}] /\ effect' \in [Client -> Request \cup {None}]
    <3> DEFINE ok == ReplyTo(Incoming(c), "ok", 0)
    <3>1. ok \in Reply
      BY <2>1, ReplyToType
    <3>2. \/ answer' = [answer EXCEPT ![c] = ok] /\ effect' = effect
          \/ effect' = [effect EXCEPT ![c] = Incoming(c)] /\ answer' = answer
      BY <1>4 DEF ValidateAccept
    <3> HIDE DEF ok
    <3>3. CASE answer' = [answer EXCEPT ![c] = ok] /\ effect' = effect
      BY <3>1, <3>3 DEF TypeOK
    <3>4. CASE effect' = [effect EXCEPT ![c] = Incoming(c)] /\ answer' = answer
      BY <2>1, <3>4 DEF TypeOK
    <3>. QED BY <3>2, <3>3, <3>4
  <2>. QED BY <1>4, <2>1, <2>3, <2>4 DEF ValidateAccept, TypeOK
<1>5. ASSUME NEW kind \in Validated, ValidateReject(c, kind) PROVE TypeOK'
  <2>1. Incoming(c) \in Request /\ requests' \in [Client -> Seq(Request)]
    BY <1>5, TakeType DEF ValidateReject
  <2>2. controls' \in [Workspace -> Lease \cup {None}] /\ answer' \in [Client -> Reply \cup {None}]
    BY <1>5, <2>1, ReplyToType DEF ValidateReject, TypeOK, Request
  <2>. QED BY <1>5, <2>1, <2>2 DEF ValidateReject, TypeOK
<1>6. CASE Perform(c)
  BY <1>6, ReplyToType DEF Perform, TypeOK
<1>7. CASE HandleRelease(c)
  <2>1. Incoming(c) \in Request /\ requests' \in [Client -> Seq(Request)]
    BY <1>7, TakeType DEF HandleRelease
  <2>2. controls' \in [Workspace -> Lease \cup {None}] /\ answer' \in [Client -> Reply \cup {None}]
    <3>1. ReplyTo(Incoming(c), "ok", 0) \in Reply /\ ReplyTo(Incoming(c), "refused", 0) \in Reply
      BY <2>1, ReplyToType
    <3>2. PICK reply \in Reply : answer' = [answer EXCEPT ![c] = reply]
      BY <1>7, <3>1 DEF HandleRelease
    <3>3. CASE controls' = controls
      BY <3>2, <3>3 DEF TypeOK
    <3>4. CASE controls' = [controls EXCEPT ![Incoming(c).ws] = None]
      BY <3>2, <3>4 DEF TypeOK
    <3>. QED BY <1>7, <3>3, <3>4 DEF HandleRelease
  <2>3. announcing' \in [Task -> SUBSET Announcement]
    <3>1. [ws |-> Incoming(c).ws, controller |-> None, epoch |-> Incoming(c).epoch] \in Announcement
      BY <2>1 DEF Request, Announcement
    <3>2. CASE announcing' = announcing
      BY <3>2 DEF TypeOK
    <3>3. ASSUME NEW a \in Announcement, announcing' = [announcing EXCEPT ![c] = {a}]
          PROVE  announcing' \in [Task -> SUBSET Announcement]
      BY <3>3 DEF TypeOK
    <3>. QED BY <1>7, <3>1, <3>2, <3>3 DEF HandleRelease
  <2>. QED BY <1>7, <2>1, <2>2, <2>3 DEF HandleRelease, TypeOK
<1>8. CASE HandleAttach(c)
  <2>1. Incoming(c) \in Request /\ requests' \in [Client -> Seq(Request)]
    BY <1>8, TakeType DEF HandleAttach
  <2>2. controls' \in [Workspace -> Lease \cup {None}]
    <3>1. CASE Alive(Incoming(c).ws) /\ Owns(c, Incoming(c).ws)
      BY <1>8, <2>1, <3>1, RefreshType DEF HandleAttach, Alive, TypeOK, Request
    <3>2. CASE ~(Alive(Incoming(c).ws) /\ Owns(c, Incoming(c).ws))
      BY <1>8, <3>2 DEF HandleAttach, TypeOK
    <3>. QED BY <3>1, <3>2
  <2>3. answer' \in [Client -> Reply \cup {None}]
    BY <1>8, <2>1, ReplyToType DEF HandleAttach, TypeOK
  <2>. QED BY <1>8, <2>1, <2>2, <2>3 DEF HandleAttach, TypeOK
<1>9. CASE SendResponse(c)
  <2>1. \A d \in Client : Bounded(d)'
    <3> SUFFICES ASSUME NEW d \in Client PROVE Bounded(d)'
      OBVIOUS
    <3>1. CASE replies'[d] = replies[d]
      <4>1. events'[d] = events[d] /\ Len(events[d]) \in Nat
        BY <1>9, QueueLengths DEF SendResponse
      <4>. QED BY <3>1, <4>1, QueueShrinks
    <3>2. CASE replies'[d] # replies[d]
      <4>1. d = c /\ replies'[c] = replies[c] \cup {answer[c]} /\ ~Full(c) /\ events' = events
        BY <1>9, <3>2 DEF SendResponse, TypeOK
      <4>2. /\ IsFiniteSet(replies'[c]) /\ Cardinality(replies'[c]) \in Nat
            /\ Cardinality(replies'[c]) <= Cardinality(replies[c]) + 1
        <5>1. IsFiniteSet(replies[c]) /\ Cardinality(replies[c]) \in Nat
          BY QueueLengths
        <5>2. /\ IsFiniteSet(replies[c] \cup {answer[c]})
              /\ Cardinality(replies[c] \cup {answer[c]})
                   = IF answer[c] \in replies[c] THEN Cardinality(replies[c]) ELSE Cardinality(replies[c]) + 1
          BY <5>1, FS_AddElement, Zenon
        <5>. QED BY <4>1, <5>1, <5>2
      <4>3. Len(events[c]) + Cardinality(replies[c]) < QueueCap
        BY <4>1, QueueLengths, ConstantsAssumption DEF Full
      <4>. QED BY <4>1, <4>2, <4>3, QueueLengths, ConstantsAssumption DEF Bounded
    <3>. QED BY <3>1, <3>2
  <2>2. replies' \in [Client -> SUBSET Reply] /\ answer' \in [Client -> Reply \cup {None}]
    BY <1>9 DEF SendResponse, TypeOK
  <2>. QED BY <1>9, <2>1, <2>2 DEF SendResponse, TypeOK, Bounded
<1>10. CASE ReleaseClient(c)
  <2>1. Freed({w \in Workspace : Owns(c, w)}) \subseteq Announcement
    BY DEF Freed, Owns, TypeOK, Lease, Announcement
  <2>2. Without({w \in Workspace : Owns(c, w)}) \in [Workspace -> Lease \cup {None}]
    BY DEF Without, TypeOK
  <2>3. \A d \in Client : Bounded(d)'
    BY <1>10, ForgetBounded DEF ReleaseClient, EndHandler
  <2>. QED BY <1>10, <2>1, <2>2, <2>3 DEF ReleaseClient, EndHandler, ForgetTransport, TypeOK, Bounded
<1>. QED BY <1>1, <1>2, <1>3, <1>4, <1>5, <1>6, <1>7, <1>8, <1>9, <1>10 DEF HandlerStep

LEMMA NextType == TypeOK /\ [Next]_vars => TypeOK'
<1> SUFFICES ASSUME TypeOK, [Next]_vars PROVE TypeOK'
  OBVIOUS
<1> USE DEF clientVars
<1>1. ASSUME NEW c \in Client, Connect(c) PROVE TypeOK'
  BY <1>1 DEF Connect, TypeOK
<1>2. ASSUME NEW t \in Task, Broadcast(t) PROVE TypeOK'
  <2>1. PICK a \in announcing[t] :
          /\ events' = [c \in Client |-> IF c \in clients /\ link[c] = "up" /\ ~Full(c)
                                         THEN Append(events[c], a) ELSE events[c]]
          /\ announcing' = [announcing EXCEPT ![t] = @ \ {a}]
          /\ clients' = {c \in clients : ~Full(c)}
    BY <1>2 DEF Broadcast
  <2>2. a \in Announcement
    BY DEF TypeOK
  <2>3. events' \in [Client -> Seq(Announcement)]
    BY <2>1, <2>2 DEF TypeOK
  <2>4. \A d \in Client : Bounded(d)'
    <3> SUFFICES ASSUME NEW d \in Client PROVE Bounded(d)'
      OBVIOUS
    <3>0. replies'[d] = replies[d]
      BY <1>2 DEF Broadcast
    <3>1. CASE events'[d] = events[d]
      BY <3>0, <3>1, QueueLengths, QueueShrinks
    <3>2. CASE events'[d] = Append(events[d], a) /\ ~Full(d)
      <4>1. Len(events'[d]) = Len(events[d]) + 1
        BY <2>2, <3>2, QueueLengths
      <4>2. Len(events[d]) + Cardinality(replies[d]) < QueueCap
        BY <3>2, QueueLengths, ConstantsAssumption DEF Full
      <4>. QED BY <3>0, <4>1, <4>2, QueueLengths, ConstantsAssumption DEF Bounded
    <3>. QED BY <2>1, <3>1, <3>2
  <2>. QED BY <1>2, <2>1, <2>3, <2>4 DEF Broadcast, TypeOK, Bounded
<1>3. CASE ExpireControls
  <2> DEFINE dead == {w \in Workspace : controls[w] # None /\ ~Alive(w)}
  <2>1. Freed(dead) \subseteq Announcement
    BY DEF Freed, TypeOK, Lease, Announcement
  <2>2. Without(dead) \in [Workspace -> Lease \cup {None}]
    BY DEF Without, TypeOK
  <2>. QED BY <1>3, <2>1, <2>2 DEF ExpireControls, TypeOK
<1>4. CASE Tick
  <2>1. ASSUME NEW w \in Workspace, Alive(w)
        PROVE  [controls[w] EXCEPT !.age = @ + 1] \in Lease
    <3>1. controls[w] \in Lease /\ controls[w].age + 1 \in 0..Ttl
      BY SMTT(30), <2>1, ConstantsAssumption DEF Alive, TypeOK, Lease
    <3>. QED BY <3>1, AgeType
  <2>2. controls' \in [Workspace -> Lease \cup {None}]
    BY <1>4, <2>1 DEF Tick, TypeOK
  <2>. QED BY <1>4, <2>2 DEF Tick, TypeOK
<1>5. CASE UNCHANGED vars
  BY <1>5 DEF vars, agentVars, TypeOK
<1>. QED BY <1>1, <1>2, <1>3, <1>4, <1>5, ClientType, HandlerType DEF Next

\* The variables keep their types in every behaviour of the agent and its clients.
THEOREM TypeCorrect == Spec => []TypeOK
  BY InitType, NextType, PTL DEF Spec

-----------------------------------------------------------------------------
(* What the steps of a client and the other steps leave alone.             *)

\* No step but a handler's end takes a connection down.
LEMMA ClientLinks ==
  ASSUME TypeOK, NEW c \in Client, ClientStep(c)
  PROVE  /\ UNCHANGED agentVars
         /\ \A d \in Client : link[d] \in {"up", "cut"} => link'[d] \in {"up", "cut"}
<1>1. CASE Cut(c)
  BY <1>1 DEF Cut, TypeOK
<1>2. CASE ~Cut(c)
  BY <1>2 DEF ClientStep, EnsureControl, UserRequest, Heartbeat, Attach, UseLease,
       EnsureControlTimeout, ReceiveEvent, ReceiveReply, ForgetTransport
<1>. QED BY <1>1, <1>2

\* A lease in the table keeps its owner, its epoch, or goes.
LeasesKept ==
  \A w \in Workspace : controls'[w] # None =>
    /\ controls[w] # None
    /\ controls'[w].owner = controls[w].owner
    /\ controls'[w].epoch = controls[w].epoch

LEMMA RefreshKeeps ==
  ASSUME TypeOK, NEW w \in Workspace, Alive(w), controls' = [controls EXCEPT ![w].age = 0]
  PROVE  LeasesKept
<1>1. controls[w] \in Lease
  BY DEF Alive, TypeOK
<1>2. \A v \in Workspace \ {w} : controls'[v] = controls[v]
  BY <1>1, RefreshType
<1>3. controls'[w].owner = controls[w].owner /\ controls'[w].epoch = controls[w].epoch
  BY <1>1, RefreshType
<1>. QED BY <1>2, <1>3 DEF LeasesKept, Alive

LEMMA HandlerLeases ==
  ASSUME TypeOK, NEW c \in Client, HandlerStep(c), ~GrantControl(c)
  PROVE  LeasesKept
<1>1. CASE RenewOwn(c)
  <2>1. Incoming(c) \in Request
    BY <1>1, TakeType DEF RenewOwn
  <2>. QED BY <1>1, <2>1, RefreshKeeps DEF RenewOwn, Request
<1>2. ASSUME NEW kind \in Validated, ValidateAccept(c, kind) PROVE LeasesKept
  <2>1. Incoming(c) \in Request
    BY <1>2, TakeType DEF ValidateAccept
  <2>2. CASE controls' = controls
    BY <2>2 DEF LeasesKept
  <2>3. CASE controls' = [controls EXCEPT ![Incoming(c).ws].age = 0]
    BY <1>2, <2>1, <2>3, RefreshKeeps DEF ValidateAccept, Request
  <2>. QED BY <1>2, <2>2, <2>3 DEF ValidateAccept
<1>3. ASSUME NEW kind \in Validated, ValidateReject(c, kind) PROVE LeasesKept
  BY <1>3 DEF ValidateReject, LeasesKept, TypeOK
<1>4. CASE HandleAttach(c)
  <2>1. Incoming(c) \in Request
    BY <1>4, TakeType DEF HandleAttach
  <2>2. CASE Alive(Incoming(c).ws) /\ Owns(c, Incoming(c).ws)
    BY <1>4, <2>1, <2>2, RefreshKeeps DEF HandleAttach, Request
  <2>3. CASE ~(Alive(Incoming(c).ws) /\ Owns(c, Incoming(c).ws))
    BY <1>4, <2>3 DEF HandleAttach, LeasesKept
  <2>. QED BY <2>2, <2>3
<1>5. CASE HandleRelease(c)
  BY <1>5 DEF HandleRelease, LeasesKept, TypeOK
<1>6. CASE ReleaseClient(c)
  BY <1>6 DEF ReleaseClient, EndHandler, Without, LeasesKept
<1>7. CASE RefuseHeld(c) \/ Perform(c) \/ SendResponse(c)
  BY <1>7 DEF RefuseHeld, Perform, SendResponse, LeasesKept
<1>. QED BY <1>1, <1>2, <1>3, <1>4, <1>5, <1>6, <1>7 DEF HandlerStep

LEMMA TickLeases == TypeOK /\ Tick => LeasesKept
<1> SUFFICES ASSUME TypeOK, Tick, NEW w \in Workspace, controls'[w] # None
             PROVE  /\ controls[w] # None
                    /\ controls'[w].owner = controls[w].owner
                    /\ controls'[w].epoch = controls[w].epoch
  BY DEF LeasesKept
<1>1. CASE Alive(w)
  <2>1. controls[w] \in Lease /\ controls[w].age + 1 \in 0..Ttl
    BY <1>1, ConstantsAssumption DEF Alive, TypeOK, Lease
  <2>2. controls'[w] = [controls[w] EXCEPT !.age = @ + 1]
    BY <1>1 DEF Tick
  <2>. QED BY <1>1, <2>1, <2>2, AgeType DEF Alive
<1>2. CASE ~Alive(w)
  BY <1>2 DEF Tick
<1>. QED BY <1>1, <1>2

-----------------------------------------------------------------------------
(* NoGhostLease is inductive.                                              *)

LEMMA OwnersStay ==
  ASSUME TypeOK, NoGhostLease, LeasesKept,
         \A d \in Client : link[d] \in {"up", "cut"} => link'[d] \in {"up", "cut"}
  PROVE  NoGhostLease'
<1> SUFFICES ASSUME NEW w \in Workspace, controls'[w] # None
             PROVE  link'[controls'[w].owner] \in {"up", "cut"}
  BY DEF NoGhostLease
<1>1. controls[w] \in Lease /\ controls'[w].owner = controls[w].owner
  BY DEF LeasesKept, TypeOK
<1>2. controls[w].owner \in Client /\ link[controls[w].owner] \in {"up", "cut"}
  BY <1>1 DEF NoGhostLease, LeasesKept, Lease
<1>. QED BY <1>1, <1>2

LEMMA GhostStep == TypeOK /\ NoGhostLease /\ [Next]_vars => NoGhostLease'
<1> SUFFICES ASSUME TypeOK, NoGhostLease, [Next]_vars PROVE NoGhostLease'
  OBVIOUS
<1>1. ASSUME NEW c \in Client, ClientStep(c) PROVE NoGhostLease'
  <2>1. LeasesKept
    BY <1>1, ClientLinks DEF agentVars, LeasesKept
  <2>. QED BY <1>1, <2>1, ClientLinks, OwnersStay
<1>2. ASSUME NEW c \in Client, GrantControl(c) PROVE NoGhostLease'
  <2>1. Incoming(c) \in Request /\ link[c] \in {"up", "cut"}
    BY <1>2, TakeType DEF GrantControl
  <2>2. PICK w \in Workspace : Grant(c, w, nextEpoch + 1)
    BY <1>2, <2>1 DEF GrantControl, Request
  <2>3. link' = link /\ controls'[w].owner = c
        /\ \A v \in Workspace \ {w} : controls'[v] = controls[v]
    BY <2>2 DEF Grant, TypeOK
  <2>. QED BY <2>1, <2>3 DEF NoGhostLease
<1>3. ASSUME NEW c \in Client, ReleaseClient(c) PROVE NoGhostLease'
  <2> SUFFICES ASSUME NEW w \in Workspace, controls'[w] # None
               PROVE  link'[controls'[w].owner] \in {"up", "cut"}
    BY DEF NoGhostLease
  <2>1. controls'[w] = controls[w] /\ controls[w] \in Lease /\ controls[w].owner # c
    BY <1>3 DEF ReleaseClient, EndHandler, Without, Owns, TypeOK
  <2>2. link'[controls[w].owner] = link[controls[w].owner]
    BY <1>3, <2>1 DEF ReleaseClient, EndHandler, TypeOK, Lease
  <2>. QED BY <2>1, <2>2 DEF NoGhostLease
<1>4. ASSUME NEW c \in Client, HandlerStep(c), ~GrantControl(c), ~ReleaseClient(c)
      PROVE  NoGhostLease'
  <2>1. link' = link
    BY <1>4 DEF HandlerStep, RenewOwn, RefuseHeld, ValidateAccept, ValidateReject,
         Perform, HandleRelease, HandleAttach, SendResponse
  <2>. QED BY <1>4, <2>1, HandlerLeases, OwnersStay
<1>5. ASSUME NEW c \in Client, Connect(c) PROVE NoGhostLease'
  BY <1>5, OwnersStay DEF Connect, LeasesKept, TypeOK
<1>6. CASE ExpireControls
  BY <1>6, OwnersStay DEF ExpireControls, Without, LeasesKept
<1>7. CASE Tick
  BY <1>7, TickLeases, OwnersStay DEF Tick
<1>8. CASE (\E t \in Task : Broadcast(t)) \/ UNCHANGED vars
  BY <1>8, OwnersStay DEF Broadcast, vars, agentVars, LeasesKept
<1>. QED BY <1>1, <1>2, <1>3, <1>4, <1>5, <1>6, <1>7, <1>8 DEF Next

\* Whatever ends a connection, the leases it held end with it, for any number
\* of connections and workspaces.
THEOREM GhostLeasesImpossible == Spec => []NoGhostLease
<1>1. Init => NoGhostLease
  BY DEF Init, NoGhostLease
<1>. QED BY <1>1, GhostStep, TypeCorrect, PTL DEF Spec

-----------------------------------------------------------------------------
(* EpochInv is inductive.                                                  *)

\* No claim to a real epoch appears.
ClaimsKept ==
  \A c \in Client, w \in Workspace, e \in Nat \ {0} : Claim(c, w, e)' => Claim(c, w, e)

LEMMA ClaimsStay == ClaimsDisjoint /\ ClaimsKept => ClaimsDisjoint'
  BY DEF ClaimsDisjoint, ClaimsKept

LEMMA BoundedAbout ==
  ASSUME TypeOK, EpochsBounded, NEW e \in EpochsAbout
  PROVE  e \in Nat /\ e <= nextEpoch
<1>1. CASE e \in {controls[w].epoch : w \in {v \in Workspace : controls[v] # None}}
  BY <1>1 DEF EpochsBounded, TypeOK, Lease
<1>2. CASE e \in {leases[c][w] : c \in Client, w \in Workspace}
  BY <1>2 DEF EpochsBounded, TypeOK
<1>3. CASE e \in {answer[c].epoch : c \in {d \in Client : answer[d] # None}}
  BY <1>3 DEF EpochsBounded, TypeOK, Reply
<1>4. CASE e \in UNION {{p.epoch : p \in replies[c]} : c \in Client}
  BY <1>4 DEF EpochsBounded, TypeOK, Reply
<1>5. CASE e \in UNION {{a.epoch : a \in announcing[t]} : t \in Task}
  BY <1>5 DEF EpochsBounded, TypeOK, Announcement
<1>6. CASE e \in UNION {{events[c][i].epoch : i \in 1..Len(events[c])} : c \in Client}
  <2>1. PICK c \in Client : \E i \in 1..Len(events[c]) : e = events[c][i].epoch
    BY <1>6
  <2>2. PICK i \in 1..Len(events[c]) : e = events[c][i].epoch
    BY <2>1
  <2>3. events[c][i] \in Announcement
    BY DEF TypeOK
  <2>. QED BY <2>2, <2>3 DEF EpochsBounded, Announcement
<1>. QED BY <1>1, <1>2, <1>3, <1>4, <1>5, <1>6 DEF EpochsAbout

\* A cache that only forgets stays bounded.
LEMMA CacheBounded ==
  ASSUME TypeOK, EpochsBounded, UNCHANGED nextEpoch,
         \A d \in Client, w \in Workspace : leases'[d][w] \in {0, leases[d][w]}
  PROVE  \A d \in Client, w \in Workspace : leases'[d][w] <= nextEpoch'
<1> SUFFICES ASSUME NEW d \in Client, NEW w \in Workspace PROVE leases'[d][w] <= nextEpoch
  OBVIOUS
<1>1. leases[d][w] <= nextEpoch /\ 0 <= nextEpoch
  BY DEF EpochsBounded, TypeOK
<1>. QED BY <1>1

\* A claim is to an epoch that is about.
LEMMA ClaimsBounded ==
  ASSUME EpochsBounded, NEW c \in Client, NEW w \in Workspace, NEW e \in Nat, Claim(c, w, e)
  PROVE  e <= nextEpoch
  BY SMTT(30) DEF EpochsBounded, Claim, Holds, Owns, Acquired

LEMMA ClientEpochs ==
  ASSUME TypeOK, EpochsBounded, NEW c \in Client, ClientStep(c)
  PROVE  EpochsBounded' /\ ClaimsKept
<1> USE DEF agentVars, clientVars
<1>1. CASE UNCHANGED <<leases, replies, events>>
  BY <1>1, ClientLinks DEF EpochsBounded, ClaimsKept, Claim, Holds, Owns
<1>2. CASE ReceiveEvent(c)
  <2>1. /\ events' = [events EXCEPT ![c] = Tail(@)] /\ events[c] # <<>>
        /\ UNCHANGED <<controls, nextEpoch, answer, replies, announcing>>
    BY <1>2 DEF ReceiveEvent
  <2>2. \A d \in Client, w \in Workspace : leases'[d][w] \in {0, leases[d][w]}
    <3>1. CASE leases' = leases
      BY <3>1
    <3>2. ASSUME NEW w, ClearLease(c, w)
          PROVE  \A d \in Client, v \in Workspace : leases'[d][v] \in {0, leases[d][v]}
      BY <3>2 DEF ClearLease, TypeOK
    <3>. QED BY <1>2, <3>1, <3>2 DEF ReceiveEvent
  <2>3. \A d \in Client : \A i \in 1..Len(events'[d]) : events'[d][i].epoch <= nextEpoch
    BY <2>1 DEF EpochsBounded, TypeOK
  <2>4. EpochsBounded'
    BY <2>1, <2>2, <2>3, CacheBounded DEF EpochsBounded
  <2>5. ClaimsKept
    BY <2>1, <2>2 DEF ClaimsKept, Claim, Holds, Owns
  <2>. QED BY <2>4, <2>5
<1>3. CASE ReceiveReply(c)
  <2>1. PICK p \in replies[c] :
          /\ replies' = [replies EXCEPT ![c] = @ \ {p}]
          /\ \/ OnAcquireReply(c, p) \/ OnHeartbeatReply(c, p)
             \/ OnOperateReply(c, p) \/ OnOtherReply(c, p)
    BY <1>3 DEF ReceiveReply
  <2>2. UNCHANGED <<controls, nextEpoch, answer, events, announcing>>
    BY <1>3 DEF ReceiveReply
  <2>3. \A d \in Client, w \in Workspace :
          \/ leases'[d][w] \in {0, leases[d][w]}
          \/ d = c /\ Acquired(p, w, leases'[d][w])
    <3>1. CASE leases' = leases
      BY <3>1
    <3>2. CASE ClearLease(c, p.to.ws)
      BY <3>2 DEF ClearLease, TypeOK
    <3>3. CASE p.result = "acquired" /\ leases' = [leases EXCEPT ![c][p.to.ws] = p.epoch]
      BY <3>3 DEF Acquired, TypeOK
    <3>. QED BY <2>1, <3>1, <3>2, <3>3
             DEF OnAcquireReply, OnHeartbeatReply, OnOperateReply, OnOtherReply
  <2>4. \A d \in Client : replies'[d] \subseteq replies[d]
    BY <2>1 DEF TypeOK
  <2>5. EpochsBounded'
    <3>1. ASSUME NEW d \in Client, NEW w \in Workspace PROVE leases'[d][w] <= nextEpoch
      <4>1. CASE leases'[d][w] = 0
        BY <4>1 DEF TypeOK
      <4>2. CASE leases'[d][w] \in {leases[d][w], p.epoch}
        BY <4>2 DEF EpochsBounded
      <4>. QED BY <2>3, <4>1, <4>2 DEF Acquired
    <3>. QED BY <2>2, <2>4, <3>1 DEF EpochsBounded
  <2>6. ClaimsKept
    BY <2>2, <2>3, <2>4 DEF ClaimsKept, Claim, Holds, Owns
  <2>. QED BY <2>5, <2>6
<1>4. CASE Cut(c)
  <2>1. /\ \A d \in Client : replies'[d] \subseteq replies[d]
        /\ \A d \in Client : events'[d] \in {<<>>, events[d]}
        /\ \A d \in Client, w \in Workspace : leases'[d][w] \in {0, leases[d][w]}
        /\ UNCHANGED <<controls, nextEpoch, answer, announcing>>
    BY <1>4 DEF Cut, ForgetTransport, TypeOK
  <2>2. \A d \in Client : \A i \in 1..Len(events'[d]) : events'[d][i].epoch <= nextEpoch
    BY <2>1 DEF EpochsBounded
  <2>3. EpochsBounded'
    BY <2>1, <2>2, CacheBounded DEF EpochsBounded
  <2>4. ClaimsKept
    BY <2>1 DEF ClaimsKept, Claim, Holds, Owns
  <2>. QED BY <2>3, <2>4
<1>. QED BY <1>1, <1>2, <1>3, <1>4 DEF ClientStep, EnsureControl, UserRequest, Heartbeat,
            Attach, UseLease, EnsureControlTimeout

\* A step that grants nothing, leaves the caches' clients' queues alone and
\* answers one request with no epoch at all, or not at all.
LEMMA PlainAnswer ==
  ASSUME TypeOK, EpochsBounded, LeasesKept, NEW c \in Client, NEW r, NEW result,
         result # "acquired",
         \/ answer' = [answer EXCEPT ![c] = ReplyTo(r, result, 0)]
         \/ answer' = [answer EXCEPT ![c] = None]
         \/ answer' = answer,
         \/ announcing' = announcing
         \/ /\ Holds(c, r.ws, r.epoch) /\ r.ws \in Workspace
            /\ announcing' = [announcing EXCEPT ![c] =
                 {[ws |-> r.ws, controller |-> None, epoch |-> r.epoch]}],
         UNCHANGED <<nextEpoch, leases, events, replies>>
  PROVE  EpochsBounded' /\ ClaimsKept
<1>1. \A d \in Client : \/ answer'[d] = answer[d]
                        \/ answer'[d] = None
                        \/ answer'[d].result = result /\ answer'[d].epoch = 0
  BY DEF TypeOK, ReplyTo
<1>2. \A w \in Workspace : controls'[w] # None => controls'[w].epoch <= nextEpoch
  BY DEF LeasesKept, EpochsBounded
<1>3. \A d \in Client : answer'[d] # None => answer'[d].epoch <= nextEpoch
  <2> SUFFICES ASSUME NEW d \in Client, answer'[d] # None PROVE answer'[d].epoch <= nextEpoch
    OBVIOUS
  <2>1. CASE answer'[d] = answer[d]
    BY <2>1 DEF EpochsBounded
  <2>2. CASE answer'[d].epoch = 0
    BY <2>2 DEF TypeOK
  <2>. QED BY <1>1, <2>1, <2>2
<1>4. \A t \in Task : \A a \in announcing'[t] : a.epoch <= nextEpoch
  <2>1. CASE announcing' = announcing
    BY <2>1 DEF EpochsBounded
  <2>2. CASE /\ Holds(c, r.ws, r.epoch) /\ r.ws \in Workspace
             /\ announcing' = [announcing EXCEPT ![c] =
                  {[ws |-> r.ws, controller |-> None, epoch |-> r.epoch]}]
    <3>1. r.epoch <= nextEpoch
      BY <2>2 DEF Holds, Owns, EpochsBounded
    <3>. QED BY <2>2, <3>1 DEF EpochsBounded, TypeOK
  <2>. QED BY <2>1, <2>2
<1>5. EpochsBounded'
  BY <1>2, <1>3, <1>4 DEF EpochsBounded
<1>6. ClaimsKept
  <2> SUFFICES ASSUME NEW d \in Client, NEW w \in Workspace, NEW e \in Nat \ {0},
                      Claim(d, w, e)'
               PROVE  Claim(d, w, e)
    BY DEF ClaimsKept
  <2>1. Holds(d, w, e)' => Holds(d, w, e)
    BY DEF Holds, Owns, LeasesKept
  <2>2. answer'[d] # None /\ Acquired(answer'[d], w, e) => answer[d] # None /\ Acquired(answer[d], w, e)
    BY <1>1 DEF Acquired
  <2>. QED BY <2>1, <2>2 DEF Claim
<1>. QED BY <1>5, <1>6

LEMMA HandlerEpochs ==
  ASSUME TypeOK, EpochsBounded, NEW c \in Client, HandlerStep(c), ~GrantControl(c)
  PROVE  EpochsBounded' /\ ClaimsKept
<1> USE HandlerLeases DEF clientVars
<1>1. CASE RenewOwn(c)
  <2> DEFINE w == Incoming(c).ws
  <2>1. Incoming(c) \in Request /\ w \in Workspace
    <3>1. Incoming(c) \in Request
      BY <1>1, TakeType DEF RenewOwn
    <3>. QED BY <3>1 DEF Request
  <2>2. /\ Holds(c, w, controls[w].epoch)
        /\ answer' = [answer EXCEPT ![c] = ReplyTo(Incoming(c), "acquired", controls[w].epoch)]
        /\ UNCHANGED <<nextEpoch, leases, events, replies, announcing>>
    BY <1>1 DEF RenewOwn, Holds
  <2>3. controls[w].epoch <= nextEpoch
    BY <2>1, <2>2 DEF EpochsBounded, Holds, Owns
  <2>4. /\ answer'[c].epoch = controls[w].epoch /\ answer'[c].to.ws = w
        /\ \A d \in Client \ {c} : answer'[d] = answer[d]
    BY <2>2 DEF TypeOK, ReplyTo
  <2> HIDE DEF w
  <2>5. EpochsBounded'
    BY <1>1, <2>2, <2>3, <2>4 DEF EpochsBounded, LeasesKept
  <2>6. ClaimsKept
    BY <2>1, <2>2, <2>4 DEF ClaimsKept, Claim, Holds, Owns, Acquired, LeasesKept
  <2>. QED BY <2>5, <2>6
<1>2. CASE RefuseHeld(c)
  BY <1>2, PlainAnswer DEF RefuseHeld
<1>3. ASSUME NEW kind \in Validated, ValidateAccept(c, kind) PROVE EpochsBounded' /\ ClaimsKept
  BY <1>3, PlainAnswer DEF ValidateAccept
<1>4. ASSUME NEW kind \in Validated, ValidateReject(c, kind) PROVE EpochsBounded' /\ ClaimsKept
  BY <1>4, PlainAnswer DEF ValidateReject
<1>5. CASE Perform(c)
  BY <1>5, PlainAnswer DEF Perform
<1>6. CASE HandleRelease(c)
  <2>1. Incoming(c).ws \in Workspace
    <3>1. Incoming(c) \in Request
      BY <1>6, TakeType DEF HandleRelease
    <3>. QED BY <3>1 DEF Request
  <2>. QED BY <1>6, <2>1, PlainAnswer DEF HandleRelease
<1>7. CASE HandleAttach(c)
  BY <1>7, PlainAnswer DEF HandleAttach
<1>8. CASE SendResponse(c)
  <2>1. /\ \A d \in Client : \A p \in replies'[d] :
               p \in replies[d] \/ (d = c /\ p = answer[c])
        /\ \A d \in Client : answer'[d] # None => answer'[d] = answer[d]
        /\ answer[c] # None
        /\ UNCHANGED <<controls, nextEpoch, leases, events, announcing>>
    BY <1>8 DEF SendResponse, TypeOK
  <2>2. EpochsBounded'
    BY <2>1 DEF EpochsBounded
  <2>3. ClaimsKept
    BY <2>1 DEF ClaimsKept, Claim, Holds, Owns
  <2>. QED BY <2>2, <2>3
<1>9. CASE ReleaseClient(c)
  <2> DEFINE held == {w \in Workspace : Owns(c, w)}
  <2>1. \A a \in Freed(held) : a.epoch <= nextEpoch
    BY DEF Freed, Owns, EpochsBounded
  <2>2. /\ announcing' = [announcing EXCEPT ![c] = Freed(held)]
        /\ answer' = [answer EXCEPT ![c] = None]
        /\ \A d \in Client : replies'[d] \subseteq replies[d]
        /\ \A d \in Client : events'[d] \in {<<>>, events[d]}
        /\ \A d \in Client, w \in Workspace : leases'[d][w] \in {0, leases[d][w]}
        /\ UNCHANGED nextEpoch
    BY <1>9 DEF ReleaseClient, EndHandler, ForgetTransport, TypeOK
  <2> HIDE DEF held
  <2>3. \A t \in Task : \A a \in announcing'[t] : a.epoch <= nextEpoch
    BY <2>1, <2>2 DEF EpochsBounded, TypeOK
  <2>4. \A d \in Client : \A i \in 1..Len(events'[d]) : events'[d][i].epoch <= nextEpoch
    BY <2>2 DEF EpochsBounded
  <2>5. \A d \in Client : answer'[d] # None => answer'[d] = answer[d] /\ answer[d] # None
    BY <2>2 DEF TypeOK
  <2>6. EpochsBounded'
    BY <1>9, <2>2, <2>3, <2>4, <2>5, CacheBounded DEF EpochsBounded, LeasesKept
  <2>7. ClaimsKept
    BY <1>9, <2>2, <2>5 DEF ClaimsKept, Claim, Holds, Owns, LeasesKept
  <2>. QED BY <2>6, <2>7
<1>. QED BY <1>1, <1>2, <1>3, <1>4, <1>5, <1>6, <1>7, <1>8, <1>9 DEF HandlerStep

\* A grant makes one claim, to an epoch nobody has seen.
LEMMA GrantClaim ==
  ASSUME TypeOK, NEW c \in Client, GrantControl(c)
  PROVE  \E w \in Workspace :
           /\ nextEpoch' = nextEpoch + 1
           /\ controls' = [controls EXCEPT ![w] =
                [owner |-> c, epoch |-> nextEpoch + 1, age |-> 0]]
           /\ announcing' = [announcing EXCEPT ![c] =
                {[ws |-> w, controller |-> c, epoch |-> nextEpoch + 1]}]
           /\ answer'[c] = ReplyTo(Incoming(c), "acquired", nextEpoch + 1)
           /\ Incoming(c).ws = w
           /\ \A d \in Client \ {c} : answer'[d] = answer[d]
           /\ UNCHANGED <<leases, events, replies>>
<1>1. Incoming(c) \in Request
  BY TakeType DEF GrantControl
<1>2. PICK w \in Workspace : Incoming(c).ws = w /\ Grant(c, w, nextEpoch + 1)
  BY <1>1 DEF GrantControl, Request
<1>3. nextEpoch' = nextEpoch + 1
  BY <1>2 DEF Grant, TypeOK
<1>. QED BY <1>2, <1>3 DEF Grant, TypeOK, clientVars

LEMMA GrantEpochs ==
  ASSUME TypeOK, EpochsBounded, ClaimsDisjoint, NEW c \in Client, GrantControl(c)
  PROVE  EpochsBounded' /\ ClaimsDisjoint'
<1>1. PICK w \in Workspace :
        /\ nextEpoch' = nextEpoch + 1
        /\ controls' = [controls EXCEPT ![w] = [owner |-> c, epoch |-> nextEpoch + 1, age |-> 0]]
        /\ announcing' = [announcing EXCEPT ![c] =
             {[ws |-> w, controller |-> c, epoch |-> nextEpoch + 1]}]
        /\ answer'[c] = ReplyTo(Incoming(c), "acquired", nextEpoch + 1)
        /\ Incoming(c).ws = w
        /\ \A d \in Client \ {c} : answer'[d] = answer[d]
        /\ UNCHANGED <<leases, events, replies>>
  BY GrantClaim
<1>2. answer'[c].epoch = nextEpoch + 1 /\ answer'[c].to.ws = w
  BY <1>1 DEF ReplyTo
<1>3. \A n \in Nat : n <= nextEpoch => n <= nextEpoch'
  BY <1>1 DEF TypeOK
<1>4. EpochsBounded'
  <2>1. \A v \in Workspace : controls'[v] # None => controls'[v].epoch <= nextEpoch'
    <3> SUFFICES ASSUME NEW v \in Workspace, controls'[v] # None
                 PROVE  controls'[v].epoch <= nextEpoch'
      OBVIOUS
    <3>1. CASE v = w
      BY <1>1, <3>1 DEF TypeOK
    <3>2. CASE v # w
      BY <1>1, <1>3, <3>2 DEF EpochsBounded, TypeOK, Lease
    <3>. QED BY <3>1, <3>2
  <2>2. \A d \in Client, v \in Workspace : leases'[d][v] <= nextEpoch'
    BY <1>1, <1>3 DEF EpochsBounded, TypeOK
  <2>3. \A d \in Client : answer'[d] # None => answer'[d].epoch <= nextEpoch'
    <3> SUFFICES ASSUME NEW d \in Client, answer'[d] # None
                 PROVE  answer'[d].epoch <= nextEpoch'
      OBVIOUS
    <3>1. CASE d = c
      BY <1>1, <1>2, <3>1 DEF TypeOK
    <3>2. CASE d # c
      BY <1>1, <1>3, <3>2 DEF EpochsBounded, TypeOK, Reply
    <3>. QED BY <3>1, <3>2
  <2>4. \A d \in Client : \A p \in replies'[d] : p.epoch <= nextEpoch'
    BY <1>1, <1>3 DEF EpochsBounded, TypeOK, Reply
  <2>5. \A t \in Task : \A a \in announcing'[t] : a.epoch <= nextEpoch'
    <3>1. ASSUME NEW t \in Task, NEW a \in announcing[t] PROVE a.epoch <= nextEpoch'
      BY <1>3 DEF EpochsBounded, TypeOK, Announcement
    <3>2. nextEpoch' <= nextEpoch'
      BY <1>1 DEF TypeOK
    <3>3. \A t \in Task : \A a \in announcing'[t] : a \in announcing[t] \/ a.epoch = nextEpoch'
      BY <1>1 DEF TypeOK
    <3> SUFFICES ASSUME NEW t \in Task, NEW a \in announcing'[t] PROVE a.epoch <= nextEpoch'
      OBVIOUS
    <3>4. CASE a \in announcing[t]
      BY <3>1, <3>4
    <3>5. CASE a.epoch = nextEpoch'
      BY <3>2, <3>5
    <3>. QED BY <3>3, <3>4, <3>5
  <2>6. \A d \in Client : \A i \in 1..Len(events'[d]) : events'[d][i].epoch <= nextEpoch'
    <3> SUFFICES ASSUME NEW d \in Client, NEW i \in 1..Len(events[d])
                 PROVE  events[d][i].epoch <= nextEpoch'
      BY <1>1
    <3>1. events[d][i] \in Announcement /\ events[d][i].epoch <= nextEpoch
      BY DEF EpochsBounded, TypeOK
    <3>. QED BY <1>3, <3>1 DEF Announcement
  <2>. QED BY <2>1, <2>2, <2>3, <2>4, <2>5, <2>6 DEF EpochsBounded
<1>5. ClaimsDisjoint'
  <2>1. ASSUME NEW d \in Client, NEW v \in Workspace, NEW e \in Nat \ {0}, Claim(d, v, e)'
        PROVE  Claim(d, v, e) \/ (d = c /\ v = w /\ e = nextEpoch + 1)
    <3>1. Holds(d, v, e)' => Holds(d, v, e) \/ (d = c /\ v = w /\ e = nextEpoch + 1)
      BY <1>1 DEF Holds, Owns, TypeOK
    <3>2. answer'[d] # None /\ Acquired(answer'[d], v, e) =>
            Claim(d, v, e) \/ (d = c /\ v = w /\ e = nextEpoch + 1)
      BY <1>1, <1>2 DEF Acquired, Claim
    <3>. QED BY <1>1, <2>1, <3>1, <3>2 DEF Claim
  <2>2. ASSUME NEW d \in Client, NEW v \in Workspace, Claim(d, v, nextEpoch + 1)
        PROVE  FALSE
    <3>1. nextEpoch + 1 \in Nat /\ ~(nextEpoch + 1 <= nextEpoch)
      BY DEF TypeOK
    <3>. QED BY <2>2, <3>1, ClaimsBounded
  <2>. QED BY <2>1, <2>2 DEF ClaimsDisjoint
<1>. QED BY <1>4, <1>5

LEMMA EpochStep == EpochInv /\ [Next]_vars => EpochInv'
<1> SUFFICES ASSUME TypeOK, EpochsBounded, ClaimsDisjoint, [Next]_vars
             PROVE  EpochsBounded' /\ ClaimsDisjoint'
  BY NextType DEF EpochInv
<1>1. ASSUME NEW c \in Client, ClientStep(c) PROVE EpochsBounded' /\ ClaimsDisjoint'
  BY <1>1, ClientEpochs, ClaimsStay
<1>2. ASSUME NEW c \in Client, GrantControl(c) PROVE EpochsBounded' /\ ClaimsDisjoint'
  BY <1>2, GrantEpochs
<1>3. ASSUME NEW c \in Client, HandlerStep(c), ~GrantControl(c)
      PROVE  EpochsBounded' /\ ClaimsDisjoint'
  BY <1>3, HandlerEpochs, ClaimsStay
<1>4. CASE (\E c \in Client : Connect(c)) \/ UNCHANGED vars
  <2>1. UNCHANGED <<controls, nextEpoch, leases, answer, replies, announcing, events>>
    BY <1>4 DEF Connect, vars, agentVars, clientVars
  <2>. QED BY <2>1 DEF EpochsBounded, ClaimsDisjoint, Claim, Holds, Owns
<1>5. ASSUME NEW t \in Task, Broadcast(t) PROVE EpochsBounded' /\ ClaimsDisjoint'
  <2>1. PICK a \in announcing[t] :
          /\ events' = [c \in Client |-> IF c \in clients /\ link[c] = "up" /\ ~Full(c)
                                         THEN Append(events[c], a) ELSE events[c]]
          /\ announcing' = [announcing EXCEPT ![t] = @ \ {a}]
    BY <1>5 DEF Broadcast
  <2>2. UNCHANGED <<controls, nextEpoch, leases, answer, replies>>
    BY <1>5 DEF Broadcast, clientVars
  <2>3. \A c \in Client : \A i \in 1..Len(events'[c]) : events'[c][i].epoch <= nextEpoch
    <3> SUFFICES ASSUME NEW c \in Client, NEW i \in 1..Len(events'[c])
                 PROVE  events'[c][i].epoch <= nextEpoch
      OBVIOUS
    <3>1. events[c] \in Seq(Announcement) /\ events'[c] \in {events[c], Append(events[c], a)}
      BY <2>1 DEF TypeOK
    <3>2. events'[c][i] = a \/ (i \in 1..Len(events[c]) /\ events'[c][i] = events[c][i])
      <4>1. CASE events'[c] = events[c]
        BY <4>1
      <4>2. CASE events'[c] = Append(events[c], a)
        <5>1. Len(events'[c]) = Len(events[c]) + 1
          BY <3>1, <4>2
        <5>2. CASE i = Len(events[c]) + 1
          BY <3>1, <4>2, <5>2
        <5>3. CASE i \in 1..Len(events[c])
          BY <3>1, <4>2, <5>3
        <5>. QED BY <3>1, <5>1, <5>2, <5>3
      <4>. QED BY <3>1, <4>1, <4>2
    <3>. QED BY <3>2 DEF EpochsBounded
  <2>4. \A u \in Task : announcing'[u] \subseteq announcing[u]
    BY <2>1 DEF TypeOK
  <2>5. EpochsBounded'
    BY <2>2, <2>3, <2>4 DEF EpochsBounded
  <2>6. ClaimsDisjoint'
    BY <2>2 DEF ClaimsDisjoint, Claim, Holds, Owns
  <2>. QED BY <2>5, <2>6
<1>6. ASSUME LeasesKept, UNCHANGED <<nextEpoch, leases, answer, replies, events>>,
             \A t \in Task : \A a \in announcing'[t] : a.epoch <= nextEpoch
      PROVE  EpochsBounded' /\ ClaimsDisjoint'
  <2>1. EpochsBounded'
    BY <1>6 DEF EpochsBounded, LeasesKept
  <2>2. ClaimsKept
    BY <1>6 DEF ClaimsKept, Claim, Holds, Owns, LeasesKept
  <2>. QED BY <2>1, <2>2, ClaimsStay
<1>7. CASE ExpireControls
  <2> DEFINE dead == {w \in Workspace : controls[w] # None /\ ~Alive(w)}
  <2>1. \A a \in Freed(dead) : a.epoch <= nextEpoch
    BY DEF Freed, EpochsBounded
  <2>2. announcing' = [announcing EXCEPT ![Sweeper] = Freed(dead)]
    BY <1>7 DEF ExpireControls
  <2> HIDE DEF dead
  <2>3. \A t \in Task : \A a \in announcing'[t] : a.epoch <= nextEpoch
    BY <2>1, <2>2 DEF EpochsBounded, TypeOK
  <2>. QED BY <1>6, <1>7, <2>3 DEF ExpireControls, Without, LeasesKept, clientVars
<1>8. CASE Tick
  BY <1>6, <1>8, TickLeases DEF Tick, clientVars, EpochsBounded
<1>. QED BY <1>1, <1>2, <1>3, <1>4, <1>5, <1>7, <1>8 DEF Next

LEMMA EpochInvariant == Spec => []EpochInv
<1>1. Init => EpochInv
  <2> SUFFICES ASSUME Init PROVE EpochInv
    OBVIOUS
  <2>1. EpochsBounded
    BY DEF Init, EpochsBounded
  <2>2. ClaimsDisjoint
    BY DEF Init, ClaimsDisjoint, Claim, Holds, Owns
  <2>. QED BY <2>1, <2>2, InitType DEF EpochInv
<1>. QED BY <1>1, EpochStep, PTL DEF Spec

\* However answers, takeovers and announcements cross, two connections never
\* believe in one epoch.
THEOREM EpochsIdentifyController == Spec => []BeliefsDisjoint
<1>1. EpochInv => BeliefsDisjoint
  BY DEF EpochInv, ClaimsDisjoint, BeliefsDisjoint, Claim, TypeOK
<1>. QED BY <1>1, EpochInvariant, PTL

\* A change of controller raises the epoch above every epoch about.
THEOREM EpochsAlwaysGrow == Spec => EpochsGrow
<1> DEFINE grows ==
      \A w \in Workspace : controls'[w] # None =>
        \/ Holds(controls'[w].owner, w, controls'[w].epoch)
        \/ \A e \in EpochsAbout : e < controls'[w].epoch
<1>1. ASSUME EpochInv, [Next]_vars PROVE grows
  <2>1. ASSUME LeasesKept PROVE grows
    BY <2>1 DEF LeasesKept, Holds, Owns
  <2>2. ASSUME NEW c \in Client, GrantControl(c) PROVE grows
    <3>1. PICK w \in Workspace :
            controls' = [controls EXCEPT ![w] = [owner |-> c, epoch |-> nextEpoch + 1, age |-> 0]]
      BY <1>1, <2>2, GrantClaim DEF EpochInv
    <3>2. \A e \in EpochsAbout : e < nextEpoch + 1
      <4> SUFFICES ASSUME NEW e \in EpochsAbout PROVE e < nextEpoch + 1
        OBVIOUS
      <4>1. e \in Nat /\ e <= nextEpoch
        BY <1>1, BoundedAbout DEF EpochInv
      <4>2. nextEpoch \in Nat
        BY <1>1 DEF EpochInv, TypeOK
      <4>. QED BY <4>1, <4>2
    <3>3. \A v \in Workspace \ {w} : controls'[v] = controls[v]
      BY <1>1, <3>1 DEF EpochInv, TypeOK
    <3>4. controls'[w].epoch = nextEpoch + 1
      BY <1>1, <3>1 DEF EpochInv, TypeOK
    <3>. QED BY <3>2, <3>3, <3>4 DEF Holds, Owns
  <2>3. ASSUME NEW c \in Client, ClientStep(c) PROVE grows
    BY <1>1, <2>1, <2>3, ClientLinks DEF EpochInv, agentVars, LeasesKept
  <2>4. ASSUME NEW c \in Client, HandlerStep(c), ~GrantControl(c) PROVE grows
    BY <1>1, <2>1, <2>4, HandlerLeases DEF EpochInv
  <2>5. CASE (\E c \in Client : Connect(c)) \/ (\E t \in Task : Broadcast(t)) \/ UNCHANGED vars
    BY <2>1, <2>5 DEF Connect, Broadcast, vars, agentVars, LeasesKept
  <2>6. CASE ExpireControls
    BY <2>1, <2>6 DEF ExpireControls, Without, LeasesKept
  <2>7. CASE Tick
    BY <1>1, <2>1, <2>7, TickLeases DEF EpochInv
  <2>. QED BY <1>1, <2>2, <2>3, <2>4, <2>5, <2>6, <2>7 DEF Next
<1>. QED BY <1>1, EpochInvariant, PTL DEF Spec, EpochsGrow
-----------------------------------------------------------------------------
(* What ends a live lease.                                                 *)

\* Every request has the form its sender gave it: an acquisition carries no
\* epoch, and nothing else is forced.
Formed(r) == /\ r.kind = "acquire" => r.epoch = 0
             /\ r.kind # "acquire" => r.force = FALSE

RequestsFormed ==
  \A c \in Client : \A i \in 1..Len(requests[c]) : Formed(requests[c][i])

LEMMA WriteFormed ==
  ASSUME TypeOK, RequestsFormed, NEW c \in Client, NEW r \in Request, Formed(r), Write(c, r)
  PROVE  RequestsFormed'
<1> SUFFICES ASSUME NEW d \in Client, NEW i \in 1..Len(requests'[d])
             PROVE  Formed(requests'[d][i])
  BY DEF RequestsFormed, Formed
<1>1. requests[c] \in Seq(Request) /\ requests[d] \in Seq(Request)
  BY DEF TypeOK
<1>2. CASE d = c
  <2>1. requests'[c] = Append(requests[c], r)
    BY DEF Write, TypeOK
  <2>2. CASE i = Len(requests[c]) + 1
    BY <1>1, <1>2, <2>1, <2>2
  <2>3. CASE i # Len(requests[c]) + 1
    <3>1. i \in 1..Len(requests[c]) /\ requests'[c][i] = requests[c][i]
      BY <1>1, <1>2, <2>1, <2>3
    <3>. QED BY <1>2, <3>1 DEF RequestsFormed
  <2>. QED BY <2>2, <2>3
<1>3. CASE d # c
  <2>1. requests'[d] = requests[d]
    BY <1>3 DEF Write, TypeOK
  <2>. QED BY <2>1 DEF RequestsFormed
<1>. QED BY <1>2, <1>3

LEMMA TakeFormed ==
  ASSUME TypeOK, RequestsFormed, NEW c \in Client, NEW kind, Take(c, kind)
  PROVE  RequestsFormed' /\ Formed(Incoming(c))
<1>1. requests[c] \in Seq(Request) /\ requests[c] # <<>>
  BY DEF TypeOK, Take
<1>2. Formed(Incoming(c))
  BY <1>1 DEF RequestsFormed, Incoming
<1>3. ASSUME NEW d \in Client, NEW i \in 1..Len(requests'[d])
      PROVE  Formed(requests'[d][i])
  <2>1. CASE d = c
    <3>1. requests'[c] = Tail(requests[c])
      BY DEF Take, TypeOK
    <3>2. i + 1 \in 1..Len(requests[c]) /\ requests'[c][i] = requests[c][i + 1]
      BY <1>1, <1>3, <2>1, <3>1
    <3>. QED BY <2>1, <3>2 DEF RequestsFormed
  <2>2. CASE d # c
    <3>1. requests'[d] = requests[d]
      BY <2>2 DEF Take, TypeOK
    <3>. QED BY <1>3, <3>1 DEF RequestsFormed
  <2>. QED BY <2>1, <2>2
<1>. QED BY <1>2, <1>3 DEF RequestsFormed, Formed

LEMMA ClientFormed ==
  ASSUME TypeOK, RequestsFormed, NEW c \in Client, ClientStep(c)
  PROVE  RequestsFormed'
<1>1. ASSUME NEW w \in Workspace, NEW force \in BOOLEAN, EnsureControl(c, w, force)
      PROVE  RequestsFormed'
  <2>1. Write(c, AcquireOf(w, force))
    BY <1>1 DEF EnsureControl, UserRequest
  <2>2. Formed(AcquireOf(w, force))
    BY DEF Formed, AcquireOf
  <2>. QED BY <2>1, <2>2, AcquireOfType, WriteFormed
<1>2. ASSUME NEW w \in Workspace, NEW k \in {"heartbeat", "attach", "operate", "release"},
             NEW e \in Nat, Write(c, RequestOf(k, w, e))
      PROVE  RequestsFormed'
  <2>1. Formed(RequestOf(k, w, e))
    BY DEF Formed, RequestOf
  <2>2. RequestOf(k, w, e) \in Request
    BY RequestOfType DEF UserKind
  <2>. QED BY <1>2, <2>1, <2>2, WriteFormed
<1>3. ASSUME NEW w \in Workspace,
             Heartbeat(c, w) \/ Attach(c, w) \/ UseLease(c, w, "operate") \/ UseLease(c, w, "release")
      PROVE  RequestsFormed'
  <2>1. leases[c][w] \in Nat /\ 0 \in Nat
    BY DEF TypeOK
  <2>2. CASE Heartbeat(c, w)
    BY <1>2, <2>1, <2>2 DEF Heartbeat
  <2>3. CASE Attach(c, w)
    BY <1>2, <2>1, <2>3 DEF Attach, UserRequest
  <2>4. CASE UseLease(c, w, "operate")
    BY <1>2, <2>1, <2>4 DEF UseLease, UserRequest
  <2>5. CASE UseLease(c, w, "release")
    BY <1>2, <2>1, <2>5 DEF UseLease, UserRequest
  <2>. QED BY <1>3, <2>2, <2>3, <2>4, <2>5
<1>4. CASE \/ \E r \in awaiting[c] : EnsureControlTimeout(c, r)
           \/ ReceiveEvent(c) \/ ReceiveReply(c) \/ Cut(c)
  BY <1>4 DEF EnsureControlTimeout, ReceiveEvent, ReceiveReply, Cut, RequestsFormed
<1>. QED BY <1>1, <1>3, <1>4 DEF ClientStep

LEMMA FormedStep == TypeOK /\ RequestsFormed /\ [Next]_vars => RequestsFormed'
<1> SUFFICES ASSUME TypeOK, RequestsFormed, [Next]_vars PROVE RequestsFormed'
  OBVIOUS
<1>1. ASSUME NEW c \in Client, HandlerStep(c) PROVE RequestsFormed'
  <2>1. ASSUME NEW kind, Take(c, kind) PROVE RequestsFormed'
    BY <2>1, TakeFormed
  <2>2. CASE ReleaseClient(c)
    <3>1. requests' = [requests EXCEPT ![c] = <<>>]
      BY <2>2 DEF ReleaseClient, EndHandler
    <3>2. \A d \in Client : requests'[d] = requests[d] \/ (Len(requests'[d]) = 0)
      BY <3>1 DEF TypeOK
    <3>. QED BY <3>2 DEF RequestsFormed
  <2>3. CASE Perform(c) \/ SendResponse(c)
    BY <2>3 DEF Perform, SendResponse, RequestsFormed
  <2>4. CASE RenewOwn(c) \/ RefuseHeld(c) \/ GrantControl(c) \/ HandleRelease(c) \/ HandleAttach(c)
    BY <2>1, <2>4 DEF RenewOwn, RefuseHeld, GrantControl, HandleRelease, HandleAttach
  <2>5. ASSUME NEW kind \in Validated, ValidateAccept(c, kind) \/ ValidateReject(c, kind)
        PROVE  RequestsFormed'
    BY <2>1, <2>5 DEF ValidateAccept, ValidateReject
  <2>. QED BY <1>1, <2>2, <2>3, <2>4, <2>5 DEF HandlerStep
<1>2. CASE \/ (\E c \in Client : Connect(c)) \/ (\E t \in Task : Broadcast(t))
           \/ ExpireControls \/ Tick \/ UNCHANGED vars
  BY <1>2 DEF Connect, Broadcast, ExpireControls, Tick, vars, RequestsFormed
<1>. QED BY <1>1, <1>2, ClientFormed DEF Next

LEMMA FormedInvariant == Spec => []RequestsFormed
<1>1. Init => RequestsFormed
  BY DEF Init, RequestsFormed
<1>. QED BY <1>1, FormedStep, TypeCorrect, PTL DEF Spec

\* The steps that may end a live lease of w, whoever takes it over.
Ended(w) == Alive(w) /\ (controls'[w] = None \/ controls'[w].owner # controls[w].owner)

Excused(w) ==
  LET c == controls[w].owner IN
  \/ link'[c] = "gone"
  \/ requests[c] # <<>> /\ Incoming(c) = RequestOf("release", w, controls[w].epoch)
  \/ /\ controls'[w] # None
     /\ requests[controls'[w].owner] # <<>>
     /\ Incoming(controls'[w].owner) = AcquireOf(w, TRUE)

LEMMA RefreshEndsNone ==
  ASSUME TypeOK, NEW v \in Workspace, Alive(v), controls' = [controls EXCEPT ![v].age = 0],
         NEW w \in Workspace
  PROVE  ~Ended(w)
<1>1. controls[v] \in Lease
  BY DEF Alive, TypeOK
<1>2. /\ controls'[v] \in Lease /\ controls'[v].owner = controls[v].owner
      /\ \A u \in Workspace \ {v} : controls'[u] = controls[u]
  BY <1>1, RefreshType
<1>3. controls'[v] # None
  BY <1>2, NoneAssumption
<1>. QED BY <1>2, <1>3 DEF Ended, Alive

LEMMA TickEndsNone ==
  ASSUME TypeOK, Tick, NEW w \in Workspace
  PROVE  ~Ended(w)
<1> SUFFICES ASSUME Alive(w) PROVE controls'[w] # None /\ controls'[w].owner = controls[w].owner
  BY DEF Ended
<1>1. controls[w] \in Lease /\ controls[w].age + 1 \in 0..Ttl
  BY ConstantsAssumption DEF Alive, TypeOK, Lease
<1>2. controls'[w] = [controls[w] EXCEPT !.age = @ + 1]
  BY DEF Tick
<1>3. controls'[w] \in Lease /\ controls'[w].owner = controls[w].owner
  BY <1>1, <1>2, AgeType
<1>. QED BY <1>3, NoneAssumption

LEMMA HandlerExcused ==
  ASSUME TypeOK, RequestsFormed, NEW c \in Client, HandlerStep(c),
         NEW w \in Workspace, Ended(w)
  PROVE  Excused(w)
<1>0. controls[w] \in Lease /\ controls[w].owner \in Client
  BY DEF Ended, Alive, TypeOK, Lease
<1>1. CASE RenewOwn(c)
  <2>1. Incoming(c).ws \in Workspace
    BY <1>1, TakeType DEF RenewOwn, Request
  <2>. QED BY <1>1, <2>1, RefreshEndsNone DEF RenewOwn
<1>2. ASSUME NEW kind \in Validated, ValidateAccept(c, kind) PROVE Excused(w)
  <2>1. Incoming(c).ws \in Workspace
    BY <1>2, TakeType DEF ValidateAccept, Request
  <2>2. CASE controls' = controls
    BY <2>2 DEF Ended, Alive
  <2>3. CASE controls' = [controls EXCEPT ![Incoming(c).ws].age = 0]
    BY <1>2, <2>1, <2>3, RefreshEndsNone DEF ValidateAccept
  <2>. QED BY <1>2, <2>2, <2>3 DEF ValidateAccept
<1>3. ASSUME NEW kind \in Validated, ValidateReject(c, kind) PROVE Excused(w)
  <2>1. controls'[w] = controls[w]
    BY <1>3 DEF ValidateReject, Ended, TypeOK
  <2>. QED BY <2>1 DEF Ended, Alive
<1>4. CASE HandleAttach(c)
  <2>1. Incoming(c).ws \in Workspace
    BY <1>4, TakeType DEF HandleAttach, Request
  <2>2. CASE Alive(Incoming(c).ws) /\ Owns(c, Incoming(c).ws)
    BY <1>4, <2>1, <2>2, RefreshEndsNone DEF HandleAttach
  <2>3. CASE ~(Alive(Incoming(c).ws) /\ Owns(c, Incoming(c).ws))
    BY <1>4, <2>3 DEF HandleAttach, Ended, Alive
  <2>. QED BY <2>2, <2>3
<1>5. CASE HandleRelease(c)
  <2> DEFINE r == Incoming(c)
  <2>1. /\ r \in Request /\ r.kind = "release" /\ r.force = FALSE
        /\ requests[c] # <<>>
    BY <1>5, TakeType, TakeFormed DEF HandleRelease, Take, Formed
  <2>2. Holds(c, r.ws, r.epoch) /\ r.ws = w
    BY <1>5 DEF HandleRelease, Ended, Alive, TypeOK
  <2>3. controls[w].owner = c /\ controls[w].epoch = r.epoch
    BY <2>2 DEF Holds, Owns
  <2>4. r = RequestOf("release", w, controls[w].epoch)
    BY <2>1, <2>2, <2>3 DEF RequestOf, Request
  <2>. QED BY <2>1, <2>3, <2>4 DEF Excused
<1>6. CASE ReleaseClient(c)
  <2>1. controls[w].owner = c
    BY <1>6, <1>0 DEF ReleaseClient, EndHandler, Without, Owns, Ended, Alive
  <2>2. link'[c] = "gone"
    BY <1>6 DEF ReleaseClient, EndHandler, TypeOK
  <2>. QED BY <2>1, <2>2 DEF Excused
<1>7. CASE GrantControl(c)
  <2> DEFINE r == Incoming(c)
  <2>1. /\ r \in Request /\ r.kind = "acquire" /\ r.epoch = 0 /\ requests[c] # <<>>
    BY <1>7, TakeType, TakeFormed DEF GrantControl, Take, Formed
  <2>2. PICK v \in Workspace :
          /\ controls' = [controls EXCEPT ![v] = [owner |-> c, epoch |-> nextEpoch + 1, age |-> 0]]
          /\ r.ws = v
    BY <1>7, GrantClaim
  <2>3. v = w
    BY <2>2 DEF Ended, Alive, TypeOK
  <2>4. r.force = TRUE
    BY <1>7, <2>1, <2>2, <2>3 DEF GrantControl, Ended, Request
  <2>5. r = AcquireOf(w, TRUE)
    BY <2>1, <2>2, <2>3, <2>4 DEF AcquireOf, Request
  <2>6. controls'[w] = [owner |-> c, epoch |-> nextEpoch + 1, age |-> 0]
    BY <2>2, <2>3 DEF TypeOK
  <2>7. controls'[w] # None /\ controls'[w].owner = c
    <3>1. controls'[w] \in Lease
      BY <2>6, ConstantsAssumption DEF Lease, TypeOK
    <3>. QED BY <2>6, <3>1, NoneAssumption
  <2>. QED BY <2>1, <2>5, <2>7 DEF Excused
<1>8. CASE RefuseHeld(c) \/ Perform(c) \/ SendResponse(c)
  BY <1>8 DEF RefuseHeld, Perform, SendResponse, Ended, Alive
<1>. QED BY <1>1, <1>2, <1>3, <1>4, <1>5, <1>6, <1>7, <1>8 DEF HandlerStep

\* A live lease is taken from its owner only by its own release, its own
\* disconnection or a forced acquisition, whatever else the agent is doing.
THEOREM LiveLeasesKept == Spec => LiveLeaseKept
<1> DEFINE kept ==
      \A w \in Workspace :
        Alive(w) /\ (controls'[w] = None \/ controls'[w].owner # controls[w].owner) =>
          LET c == controls[w].owner IN
          \/ link'[c] = "gone"
          \/ requests[c] # <<>> /\ Incoming(c) = RequestOf("release", w, controls[w].epoch)
          \/ /\ controls'[w] # None
             /\ requests[controls'[w].owner] # <<>>
             /\ Incoming(controls'[w].owner) = AcquireOf(w, TRUE)
<1>1. ASSUME TypeOK, RequestsFormed, [Next]_vars, NEW w \in Workspace, Ended(w)
      PROVE  Excused(w)
  <2>1. ASSUME NEW c \in Client, ClientStep(c) PROVE FALSE
    BY <1>1, <2>1, ClientLinks DEF agentVars, Ended, Alive
  <2>2. CASE (\E c \in Client : Connect(c)) \/ (\E t \in Task : Broadcast(t)) \/ UNCHANGED vars
    BY <1>1, <2>2 DEF Connect, Broadcast, vars, agentVars, Ended, Alive
  <2>3. CASE ExpireControls
    BY <1>1, <2>3 DEF ExpireControls, Without, Ended, Alive
  <2>4. CASE Tick
    BY <1>1, <2>4, TickEndsNone
  <2>. QED BY <1>1, <2>1, <2>2, <2>3, <2>4, HandlerExcused DEF Next
<1>2. ASSUME TypeOK, RequestsFormed, [Next]_vars PROVE kept
  BY <1>1, <1>2 DEF Ended, Excused
<1>. QED BY <1>2, TypeCorrect, FormedInvariant, PTL DEF Spec, LiveLeaseKept
=============================================================================
