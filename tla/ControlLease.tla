--------------------------- MODULE ControlLease ---------------------------
(***************************************************************************)
(* Workspace control leases: the table the agent keeps (server.rs), the    *)
(* ControlChanged broadcasts it sends, and the copy of the table each GUI  *)
(* transport caches (host-transport.ts).                                   *)
(*                                                                         *)
(* The agent runs one handler task per connection; a handler answers its   *)
(* client's requests one at a time.  acquire_control, release_control and  *)
(* expire_controls change the table under its lock, drop the lock, and     *)
(* only then broadcast, so announcements of two tasks can overtake each    *)
(* other and every client's cache lags behind the table.                   *)
(*                                                                         *)
(* Time is the age of a lease's last heartbeat, counted in ticks up to Ttl *)
(* (CONTROL_TTL); a lease of age Ttl is dead.                              *)
(***************************************************************************)
EXTENDS Naturals, Sequences, FiniteSets

CONSTANTS
  Client,       \* connections; each carries a client id of its own
  Workspace,
  Sweeper,      \* the task that calls expire_controls
  None,         \* no lease, no pending answer
  Ttl,          \* CONTROL_TTL in ticks
  QueueCap,     \* CLIENT_QUEUE_CAPACITY
  MaxUnread,    \* bound: requests of one client that wait unread
  Budget,       \* bound: Budget[k] requests of kind k in a behaviour,
  MaxRequests   \* bound: and as many of all kinds together

UserKind == {"acquire", "operate", "release", "attach"}

ASSUME ConstantsAssumption ==
  /\ Ttl \in Nat \ {0}
  /\ QueueCap \in Nat \ {0}
  /\ MaxUnread \in Nat \ {0}
  /\ Budget \in [UserKind -> Nat] /\ MaxRequests \in Nat
  /\ Sweeper \notin Client
  /\ None \notin Client

VARIABLES
  link,        \* link[c]: the socket and its handler, "new" "up" "cut" "gone"
  clients,     \* AgentState.clients: connections a broadcast reaches
  controls,    \* AgentState.controls
  nextEpoch,   \* AgentState.next_lease_epoch
  requests,    \* requests[c]: frames written by c, not yet read by its handler
  announcing,  \* announcing[t]: broadcasts task t has still to make
  answer,      \* answer[c]: the response c's handler sends after broadcasting
  effect,      \* effect[c]: a validated operation c's handler has still to perform
  events,      \* events[c]: ControlChanged events queued to c
  replies,     \* replies[c]: responses queued to c
  leases,      \* leases[c][w]: HostTransport.leases, 0 where there is none
  awaiting,    \* awaiting[c]: ensureControl calls that have not timed out
  spent        \* how much of Budget is used

agentVars == <<clients, controls, nextEpoch, announcing, answer, effect>>
clientVars == <<leases, awaiting>>
vars == <<link, requests, events, replies, spent, agentVars, clientVars>>

Task == Client \cup {Sweeper}
Lease == [owner : Client, epoch : Nat, age : 0..Ttl]

\* An entry of the table is there or it is not: Rust's Option.
ASSUME NoneAssumption == None \notin Lease

Announcement == [ws : Workspace, controller : Client \cup {None}, epoch : Nat]
Request ==
  [kind : UserKind \cup {"heartbeat"},
   ws : Workspace, epoch : Nat, force : BOOLEAN]
Reply == [to : Request, result : {"acquired", "ok", "refused"}, epoch : Nat]

AcquireOf(w, force) == [kind |-> "acquire", ws |-> w, epoch |-> 0, force |-> force]
RequestOf(k, w, e) == [kind |-> k, ws |-> w, epoch |-> e, force |-> FALSE]
ReplyTo(r, result, e) == [to |-> r, result |-> result, epoch |-> e]

-----------------------------------------------------------------------------
(* The agent's view.                                                       *)

Alive(w) == controls[w] # None /\ controls[w].age < Ttl
Owns(c, w) == controls[w] # None /\ controls[w].owner = c
Holds(c, w, e) == Owns(c, w) /\ controls[w].epoch = e

\* c's handler has answered its last request and reads the next one.
Idle(c) == /\ link[c] \in {"up", "cut"}
           /\ announcing[c] = {} /\ answer[c] = None /\ effect[c] = None

Full(c) == Len(events[c]) + Cardinality(replies[c]) >= QueueCap

Init ==
  /\ link = [c \in Client |-> "new"]
  /\ clients = {}
  /\ controls = [w \in Workspace |-> None]
  /\ nextEpoch = 0
  /\ requests = [c \in Client |-> <<>>]
  /\ announcing = [t \in Task |-> {}]
  /\ answer = [c \in Client |-> None]
  /\ effect = [c \in Client |-> None]
  /\ events = [c \in Client |-> <<>>]
  /\ replies = [c \in Client |-> {}]
  /\ leases = [c \in Client |-> [w \in Workspace |-> 0]]
  /\ awaiting = [c \in Client |-> {}]
  /\ spent = [k \in UserKind |-> 0]

-----------------------------------------------------------------------------
(* Client requests.                                                        *)

\* One request of each form is outstanding at a time, and at most MaxUnread
\* wait unread.
CanSend(c, r) ==
  /\ link[c] = "up"
  /\ Len(requests[c]) < MaxUnread
  /\ \A i \in 1..Len(requests[c]) : requests[c][i] # r
  /\ \A p \in replies[c] : p.to # r
  /\ answer[c] # None => answer[c].to # r
  /\ effect[c] # r

Write(c, r) == requests' = [requests EXCEPT ![c] = Append(@, r)]

\* The 5 s interval of a transport sends a heartbeat for each cached lease.
Heartbeat(c, w) ==
  LET r == RequestOf("heartbeat", w, leases[c][w]) IN
  /\ leases[c][w] # 0
  /\ CanSend(c, r) /\ Write(c, r)
  /\ UNCHANGED <<link, events, replies, spent, agentVars, clientVars>>

Requested == spent["acquire"] + spent["operate"] + spent["release"] + spent["attach"]

UserRequest(c, r) ==
  /\ spent[r.kind] < Budget[r.kind] /\ Requested < MaxRequests
  /\ spent' = [spent EXCEPT ![r.kind] = @ + 1]
  /\ CanSend(c, r) /\ Write(c, r)
  /\ UNCHANGED <<link, events, replies, leases, agentVars>>

\* ensureControl: a cached lease answers an unforced call without a request.
EnsureControl(c, w, force) ==
  /\ leases[c][w] = 0 \/ force
  /\ UserRequest(c, AcquireOf(w, force))
  /\ awaiting' = [awaiting EXCEPT ![c] = @ \cup {AcquireOf(w, force)}]

\* The 8 s timer of ensureControl fires first: a later answer is dropped.
EnsureControlTimeout(c, r) ==
  /\ link[c] = "up" /\ r \in awaiting[c]
  /\ awaiting' = [awaiting EXCEPT ![c] = @ \ {r}]
  /\ UNCHANGED <<link, requests, events, replies, leases, spent, agentVars>>

\* Input, Resize, Kill, ApplyWorkspaceOp and the checkpoint requests, like
\* ReleaseControl, carry the epoch their client holds.
UseLease(c, w, kind) ==
  /\ leases[c][w] # 0
  /\ UserRequest(c, RequestOf(kind, w, leases[c][w]))
  /\ UNCHANGED awaiting

\* AttachSession carries no epoch: watchers may attach.
Attach(c, w) ==
  /\ UserRequest(c, RequestOf("attach", w, 0))
  /\ UNCHANGED awaiting

-----------------------------------------------------------------------------
(* The handler of one connection.                                          *)

Incoming(c) == Head(requests[c])

Take(c, kind) ==
  /\ Idle(c) /\ requests[c] # <<>> /\ Incoming(c).kind = kind
  /\ requests' = [requests EXCEPT ![c] = Tail(@)]

\* handle_client after the handshake: the connection joins the broadcasts.
Connect(c) ==
  /\ link[c] = "new"
  /\ link' = [link EXCEPT ![c] = "up"]
  /\ clients' = clients \cup {c}
  /\ UNCHANGED <<controls, nextEpoch, announcing, answer, effect, requests, events, replies, spent, clientVars>>

\* acquire_control, the owner's live lease: same epoch, fresh heartbeat.
RenewOwn(c) ==
  /\ Take(c, "acquire")
  /\ LET w == Incoming(c).ws IN
     /\ Alive(w) /\ Owns(c, w)
     /\ controls' = [controls EXCEPT ![w].age = 0]
     /\ answer' = [answer EXCEPT ![c] = ReplyTo(Incoming(c), "acquired", controls[w].epoch)]
  /\ UNCHANGED <<link, clients, nextEpoch, announcing, effect,
                 events, replies, spent, clientVars>>

\* acquire_control, somebody else's live lease and no force: control_held.
RefuseHeld(c) ==
  /\ Take(c, "acquire")
  /\ LET w == Incoming(c).ws IN
     /\ Alive(w) /\ ~Owns(c, w) /\ ~Incoming(c).force
     /\ answer' = [answer EXCEPT ![c] = ReplyTo(Incoming(c), "refused", 0)]
  /\ UNCHANGED <<link, clients, controls, nextEpoch, announcing, effect, events, replies, spent, clientVars>>

Grant(c, w, epoch) ==
  /\ nextEpoch' = IF epoch > nextEpoch THEN epoch ELSE nextEpoch
  /\ controls' = [controls EXCEPT ![w] = [owner |-> c, epoch |-> epoch, age |-> 0]]
  /\ announcing' = [announcing EXCEPT ![c] =
                      {[ws |-> w, controller |-> c, epoch |-> epoch]}]
  /\ answer' = [answer EXCEPT ![c] = ReplyTo(Incoming(c), "acquired", epoch)]
  /\ UNCHANGED <<link, clients, effect, events, replies, spent, clientVars>>

\* Faulty variants: a takeover keeps the epoch; the counter is kept in the lease
\* and forgotten with it; a live lease needs no force.
TakeoverKeepsEpoch(c) ==
  /\ Take(c, "acquire")
  /\ LET w == Incoming(c).ws IN
     /\ ~Alive(w) \/ (~Owns(c, w) /\ Incoming(c).force)
     /\ Grant(c, w, IF Alive(w) THEN controls[w].epoch ELSE nextEpoch + 1)
EpochKeptInLease(c) ==
  /\ Take(c, "acquire")
  /\ LET w == Incoming(c).ws IN
     /\ ~Alive(w) \/ (~Owns(c, w) /\ Incoming(c).force)
     /\ Grant(c, w, IF controls[w] = None THEN 1 ELSE controls[w].epoch + 1)
GrantWithoutForce(c) ==
  /\ Take(c, "acquire")
  /\ LET w == Incoming(c).ws IN
     /\ ~(Alive(w) /\ Owns(c, w))
     /\ Grant(c, w, nextEpoch + 1)

\* acquire_control, a free, dead or forced lease: a fresh epoch, announced
\* after the table's lock is dropped and before the response.
GrantControl(c) ==
  /\ Take(c, "acquire")
  /\ LET w == Incoming(c).ws IN
     /\ ~Alive(w) \/ (~Owns(c, w) /\ Incoming(c).force)
     /\ Grant(c, w, nextEpoch + 1)

Validated == {"heartbeat", "operate"}

\* validate_control, the current lease, not yet expired.  A heartbeat refreshes
\* it and is answered; an operation, which passes heartbeat = false, leaves its
\* age alone and is still to be performed.
ValidateAccept(c, kind) ==
  /\ Take(c, kind)
  /\ LET r == Incoming(c) IN
     /\ Holds(c, r.ws, r.epoch) /\ Alive(r.ws)
     /\ \/ /\ kind = "heartbeat"
           /\ controls' = [controls EXCEPT ![r.ws].age = 0]
           /\ answer' = [answer EXCEPT ![c] = ReplyTo(r, "ok", 0)] /\ UNCHANGED effect
        \/ /\ kind = "operate"
           /\ effect' = [effect EXCEPT ![c] = r] /\ UNCHANGED <<controls, answer>>
  /\ UNCHANGED <<link, clients, nextEpoch, announcing,
                 events, replies, spent, clientVars>>

\* validate_control otherwise: control_required, stale_control_lease, or
\* control_expired, which removes the lease without announcing it.
ValidateReject(c, kind) ==
  /\ Take(c, kind)
  /\ LET r == Incoming(c) IN
     /\ ~(Holds(c, r.ws, r.epoch) /\ Alive(r.ws))
     /\ controls' = [controls EXCEPT ![r.ws] = IF Holds(c, r.ws, r.epoch) THEN None ELSE @]
     /\ answer' = [answer EXCEPT ![c] = ReplyTo(r, "refused", 0)]
  /\ UNCHANGED <<link, clients, nextEpoch, announcing, effect,
                 events, replies, spent, clientVars>>

\* The operation itself, after validate_control has dropped the table's lock.
Perform(c) ==
  /\ effect[c] # None
  /\ answer' = [answer EXCEPT ![c] = ReplyTo(effect[c], "ok", 0)]
  /\ effect' = [effect EXCEPT ![c] = None]
  /\ UNCHANGED <<link, clients, controls, nextEpoch, announcing,
                 requests, events, replies, spent, clientVars>>

\* release_control.
HandleRelease(c) ==
  /\ Take(c, "release")
  /\ LET r == Incoming(c) IN
     \/ /\ Holds(c, r.ws, r.epoch)
        /\ controls' = [controls EXCEPT ![r.ws] = None]
        /\ announcing' = [announcing EXCEPT ![c] =
                            {[ws |-> r.ws, controller |-> None, epoch |-> r.epoch]}]
        /\ answer' = [answer EXCEPT ![c] = ReplyTo(r, "ok", 0)]
     \/ /\ ~Holds(c, r.ws, r.epoch)
        /\ answer' = [answer EXCEPT ![c] = ReplyTo(r, "refused", 0)]
        /\ UNCHANGED <<controls, announcing>>
  /\ UNCHANGED <<link, clients, nextEpoch, effect,
                 events, replies, spent, clientVars>>

\* refresh_control_if_owner, called by AttachSession.
HandleAttach(c) ==
  /\ Take(c, "attach")
  /\ LET r == Incoming(c) IN
     /\ controls' = IF Alive(r.ws) /\ Owns(c, r.ws)
                    THEN [controls EXCEPT ![r.ws].age = 0]
                    ELSE controls
     /\ answer' = [answer EXCEPT ![c] = ReplyTo(r, "ok", 0)]
  /\ UNCHANGED <<link, clients, nextEpoch, announcing, effect,
                 events, replies, spent, clientVars>>

\* send_response, once every broadcast of the request is out.  A transport does
\* nothing with a plain acknowledgement, so none is kept for it.
SendResponse(c) ==
  /\ answer[c] # None /\ announcing[c] = {}
  /\ ~Full(c)
  /\ replies' = IF answer[c].result = "ok" \/ link[c] = "cut" THEN replies
                ELSE [replies EXCEPT ![c] = @ \cup {answer[c]}]
  /\ answer' = [answer EXCEPT ![c] = None]
  /\ UNCHANGED <<link, clients, controls, nextEpoch, announcing, effect, requests, events, spent, clientVars>>

-----------------------------------------------------------------------------
(* Broadcasts, expiry, the end of a connection, time.                      *)

\* Faulty variant: the events go through an unbounded channel.
BroadcastUnbounded(t) ==
  \E a \in announcing[t] :
    /\ events' = [c \in Client |-> IF c \in clients /\ link[c] = "up"
                                   THEN Append(events[c], a) ELSE events[c]]
    /\ clients' = {c \in clients : ~Full(c)}
    /\ announcing' = [announcing EXCEPT ![t] = @ \ {a}]
    /\ UNCHANGED <<link, controls, nextEpoch, answer, effect,
                   requests, replies, spent, clientVars>>

\* broadcast: try_send to every connection; one whose queue is full is dropped
\* from the table of clients and gets no further announcement.
Broadcast(t) ==
  \E a \in announcing[t] :
    /\ events' = [c \in Client |-> IF c \in clients /\ link[c] = "up" /\ ~Full(c)
                                   THEN Append(events[c], a) ELSE events[c]]
    /\ clients' = {c \in clients : ~Full(c)}
    /\ announcing' = [announcing EXCEPT ![t] = @ \ {a}]
    /\ UNCHANGED <<link, controls, nextEpoch, answer, effect,
                   requests, replies, spent, clientVars>>

Freed(W) == {[ws |-> w, controller |-> None, epoch |-> controls[w].epoch] : w \in W}

Without(W) == [w \in Workspace |-> IF w \in W THEN None ELSE controls[w]]

\* Faulty variant: the age is compared with the wrong bound and none is dead.
ExpireNothing ==
  LET dead == {w \in Workspace : controls[w] # None /\ controls[w].age > Ttl} IN
  /\ announcing[Sweeper] = {} /\ dead # {}
  /\ controls' = Without(dead)
  /\ announcing' = [announcing EXCEPT ![Sweeper] = Freed(dead)]
  /\ UNCHANGED <<link, clients, nextEpoch, answer, effect,
                 requests, events, replies, spent, clientVars>>

\* expire_controls: every dead lease leaves the table, then is announced.
ExpireControls ==
  LET dead == {w \in Workspace : controls[w] # None /\ ~Alive(w)} IN
  /\ announcing[Sweeper] = {} /\ dead # {}
  /\ controls' = Without(dead)
  /\ announcing' = [announcing EXCEPT ![Sweeper] = Freed(dead)]
  /\ UNCHANGED <<link, clients, nextEpoch, answer, effect,
                 requests, events, replies, spent, clientVars>>

\* The transport of c and all it had cached are gone.
ForgetTransport(c) ==
  /\ events' = [events EXCEPT ![c] = <<>>]
  /\ replies' = [replies EXCEPT ![c] = {}]
  /\ leases' = [leases EXCEPT ![c] = [w \in Workspace |-> 0]]
  /\ awaiting' = [awaiting EXCEPT ![c] = {}]

\* The client crashes, quits or loses its link; what it wrote may still be read.
Cut(c) ==
  /\ link[c] = "up"
  /\ link' = [link EXCEPT ![c] = "cut"]
  /\ ForgetTransport(c)
  /\ UNCHANGED <<requests, spent, agentVars>>

EndHandler(c, held) ==
  /\ announcing[c] = {} /\ effect[c] = None
  /\ link[c] = "cut" \/ (link[c] = "up" /\ answer[c] # None /\ Full(c))
  /\ link' = [link EXCEPT ![c] = "gone"]
  /\ clients' = clients \ {c}
  /\ controls' = Without(held)
  /\ announcing' = [announcing EXCEPT ![c] = Freed(held)]
  /\ answer' = [answer EXCEPT ![c] = None]
  /\ requests' = [requests EXCEPT ![c] = <<>>]
  /\ ForgetTransport(c)
  /\ UNCHANGED <<nextEpoch, effect, spent>>

\* Faulty variant: only what the transport itself believes in is released.
ReleaseCachedOnly(c) == EndHandler(c, {w \in Workspace : leases[c][w] # 0})

\* The handler's loop ends, at the end of the stream, on a read error, or when
\* a response finds the queue full for CLIENT_SEND_TIMEOUT; then release_client.
ReleaseClient(c) == EndHandler(c, {w \in Workspace : Owns(c, w)})

Tick ==
  /\ controls' = [w \in Workspace |->
                    IF Alive(w) THEN [controls[w] EXCEPT !.age = @ + 1] ELSE controls[w]]
  /\ UNCHANGED <<link, clients, nextEpoch, announcing, answer, effect,
                 requests, events, replies, spent, clientVars>>

-----------------------------------------------------------------------------
(* What a transport does with what it receives.  Events keep their order;  *)
(* responses resolve separate promises and may be seen in any order.       *)

ClearLease(c, w) == leases' = [leases EXCEPT ![c][w] = 0]

\* handleEvent, control_changed: everything but the announcement of the cached
\* epoch clears the lease.
ReceiveEvent(c) ==
  /\ link[c] = "up" /\ events[c] # <<>>
  /\ events' = [events EXCEPT ![c] = Tail(@)]
  /\ LET a == Head(events[c])
         stillOurs == a.controller # None /\ leases[c][a.ws] # 0 /\ leases[c][a.ws] = a.epoch
     IN IF stillOurs THEN UNCHANGED leases ELSE ClearLease(c, a.ws)
  /\ UNCHANGED <<link, requests, replies, awaiting, spent, agentVars>>

\* ensureControl resumes, unless it has timed out.
OnAcquireReply(c, p) ==
  /\ p.to.kind = "acquire"
  /\ leases' = IF p.to \in awaiting[c] /\ p.result = "acquired"
               THEN [leases EXCEPT ![c][p.to.ws] = p.epoch] ELSE leases
  /\ awaiting' = [awaiting EXCEPT ![c] = @ \ {p.to}]

\* Faulty variant: a refused heartbeat is logged and forgotten.
OnHeartbeatIgnored(c, p) ==
  /\ p.to.kind = "heartbeat"
  /\ UNCHANGED clientVars

\* A refused heartbeat clears the lease, whatever its epoch has become.
OnHeartbeatReply(c, p) ==
  /\ p.to.kind = "heartbeat"
  /\ IF p.result = "refused" THEN ClearLease(c, p.to.ws) ELSE UNCHANGED leases
  /\ UNCHANGED awaiting

\* A refused resize calls invalidateControlLease; input is a notification and
\* its response is not looked at.
OnOperateReply(c, p) ==
  /\ p.to.kind = "operate"
  /\ \/ p.result = "refused" /\ leases[c][p.to.ws] = p.to.epoch /\ ClearLease(c, p.to.ws)
     \/ UNCHANGED leases
  /\ UNCHANGED awaiting

OnOtherReply(c, p) ==
  /\ p.to.kind \in {"release", "attach"}
  /\ UNCHANGED clientVars

ReceiveReply(c) ==
  /\ link[c] = "up"
  /\ \E p \in replies[c] :
       /\ replies' = [replies EXCEPT ![c] = @ \ {p}]
       /\ \/ OnAcquireReply(c, p) \/ OnHeartbeatReply(c, p)
          \/ OnOperateReply(c, p) \/ OnOtherReply(c, p)
  /\ UNCHANGED <<link, requests, events, spent, agentVars>>

-----------------------------------------------------------------------------
ClientStep(c) ==
  \/ \E w \in Workspace :
       \/ \E force \in BOOLEAN : EnsureControl(c, w, force)
       \/ Heartbeat(c, w) \/ Attach(c, w)
       \/ UseLease(c, w, "operate") \/ UseLease(c, w, "release")
  \/ \E r \in awaiting[c] : EnsureControlTimeout(c, r)
  \/ ReceiveEvent(c) \/ ReceiveReply(c)
  \/ Cut(c)

HandlerStep(c) ==
  \/ RenewOwn(c) \/ RefuseHeld(c) \/ GrantControl(c)
  \/ \E kind \in Validated : ValidateAccept(c, kind) \/ ValidateReject(c, kind)
  \/ Perform(c) \/ HandleRelease(c) \/ HandleAttach(c) \/ SendResponse(c)
  \/ ReleaseClient(c)

Next ==
  \/ \E c \in Client : Connect(c) \/ ClientStep(c) \/ HandlerStep(c)
  \/ \E t \in Task : Broadcast(t)
  \/ ExpireControls
  \/ Tick

Spec == Init /\ [][Next]_vars

\* Tasks run, the agent's timer and the transports' intervals fire, and a
\* transport reads what arrives; users, crashes and slow links owe nothing.
Fairness ==
  /\ WF_vars(Tick) /\ WF_vars(ExpireControls)
  /\ \A t \in Task : WF_vars(Broadcast(t))
  /\ \A c \in Client : /\ WF_vars(HandlerStep(c))
                       /\ WF_vars(ReceiveEvent(c)) /\ WF_vars(ReceiveReply(c))
                       /\ \A w \in Workspace : SF_vars(Heartbeat(c, w))

FairSpec == Spec /\ Fairness

-----------------------------------------------------------------------------
(* Properties.                                                             *)

\* Every variable keeps its type, and what waits for one client, announcements
\* of all tasks and the answers of its own handler, never outgrows the queue
\* they share (CLIENT_QUEUE_CAPACITY).
TypeOK ==
  /\ link \in [Client -> {"new", "up", "cut", "gone"}]
  /\ clients \subseteq Client
  /\ controls \in [Workspace -> Lease \cup {None}]
  /\ nextEpoch \in Nat
  /\ requests \in [Client -> Seq(Request)]
  /\ announcing \in [Task -> SUBSET Announcement]
  /\ answer \in [Client -> Reply \cup {None}]
  /\ effect \in [Client -> Request \cup {None}]
  /\ events \in [Client -> Seq(Announcement)]
  /\ replies \in [Client -> SUBSET Reply]
  /\ \A c \in Client : /\ IsFiniteSet(replies[c])
                       /\ Len(events[c]) + Cardinality(replies[c]) <= QueueCap
  /\ leases \in [Client -> [Workspace -> Nat]]
  /\ awaiting \in [Client -> SUBSET Request]
  /\ spent \in [UserKind -> Nat]

\* An epoch cached by a transport is believed by nobody else: whatever order
\* answers, takeovers and expiries come in, two connections never both hold
\* one epoch, so validate_control tells their requests apart.
BeliefsDisjoint ==
  \A c, d \in Client : \A w, v \in Workspace :
    leases[c][w] # 0 /\ leases[c][w] = leases[d][v] => c = d /\ w = v

\* release_client leaves nothing behind: a lease in the table belongs to a
\* connection whose handler still runs, also when its client vanished with
\* requests unread.
NoGhostLease ==
  \A w \in Workspace : controls[w] # None => link[controls[w].owner] \in {"up", "cut"}

\* The epochs anybody may still act on: in the table, in a cache, in an answer
\* or an announcement on its way.
EpochsAbout ==
  {controls[w].epoch : w \in {v \in Workspace : controls[v] # None}}
    \cup {leases[c][w] : c \in Client, w \in Workspace}
    \cup {answer[c].epoch : c \in {d \in Client : answer[d] # None}}
    \cup (UNION {{p.epoch : p \in replies[c]} : c \in Client})
    \cup (UNION {{a.epoch : a \in announcing[t]} : t \in Task})
    \cup (UNION {{events[c][i].epoch : i \in 1..Len(events[c])} : c \in Client})

\* Every change of controller raises the epoch above every epoch that is about,
\* on any workspace, so a request of an earlier tenure is never taken for one
\* of the new controller.
EpochsGrow ==
  [][\A w \in Workspace :
       controls'[w] # None =>
         \/ Holds(controls'[w].owner, w, controls'[w].epoch)
         \/ \A e \in EpochsAbout : e < controls'[w].epoch]_vars

\* A live lease ends only by its owner's release or disconnection, or by a
\* forced acquisition: never by expiry, by another client's stale request or by
\* an unforced acquisition.
LiveLeaseKept ==
  [][\A w \in Workspace :
       Alive(w) /\ (controls'[w] = None \/ controls'[w].owner # controls[w].owner) =>
         LET c == controls[w].owner IN
         \/ link'[c] = "gone"
         \/ requests[c] # <<>> /\ Incoming(c) = RequestOf("release", w, controls[w].epoch)
         \/ /\ controls'[w] # None
            /\ requests[controls'[w].owner] # <<>>
            /\ Incoming(controls'[w].owner) = AcquireOf(w, TRUE)]_vars

\* A transport that still believes in an epoch the agent has moved past finds
\* out, even when its announcement was lost with its place in the broadcasts.
StaleLeaseDropped ==
  \A c \in Client, w \in Workspace :
    (link[c] = "up" /\ leases[c][w] # 0 /\ ~Holds(c, w, leases[c][w]))
      ~> (link[c] # "up" \/ leases[c][w] = 0 \/ Holds(c, w, leases[c][w]))

\* A lease whose owner does not know of it (its answer came too late, or an
\* announcement that was overtaken cleared the cache) does not block the
\* workspace for ever: the owner learns of it or it leaves the table.
UnawareLeaseFreed ==
  \A c \in Client, w \in Workspace :
    (Owns(c, w) /\ ~Holds(c, w, leases[c][w]))
      ~> (~Owns(c, w) \/ Holds(c, w, leases[c][w]))

\* What an earlier controller sent is rejected by its epoch: no operation takes
\* effect while another client holds the lease.
NoLateOperation ==
  [][\A c \in Client :
       effect[c] # None /\ effect'[c] = None =>
         \A d \in Client \ {c} : ~Owns(d, effect[c].ws)]_vars

=============================================================================
