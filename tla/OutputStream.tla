--------------------------- MODULE OutputStream ---------------------------
(***************************************************************************)
(* The output of one PTY session on its way to the screens that watch it:  *)
(* the session's sequence space, retained tail and checkpoint              *)
(* (session_manager.rs), the queue and rows of the on-disk journal         *)
(* (repository.rs), and each GUI's AgentPty (pty.ts, remote-sequence.ts).  *)
(*                                                                         *)
(* The n-th byte the shell writes is called n; it occupies the sequence    *)
(* positions [n - 1, n), and every chunk is one byte.  A checkpoint is the *)
(* content of a screen, a sequence of such bytes.  One connection carries  *)
(* events in order; a send that may wait for room (a replay) is modelled   *)
(* without the wait, a send that may not (live output) with it.            *)
(***************************************************************************)
EXTENDS Naturals, Sequences, FiniteSets, SequencesExt

CONSTANTS
  Client,       \* terminals that show the session, one connection each
  Spawner,      \* those whose pane has no stored session id: they ask for a spawn
  Restorer,     \* those whose xterm starts with a locally saved snapshot
  None,         \* no checkpoint, no request, after_seq absent
  MemoryCap,    \* MAX_IN_MEMORY_JOURNAL_BYTES
  DiskCap,      \* MAX_DISK_JOURNAL_BYTES
  ClientCap,    \* CLIENT_QUEUE_CAPACITY
  JournalCap,   \* JOURNAL_QUEUE_CAPACITY
  MaxWritten,   \* bound: bytes the shell writes
  MaxConnects,  \* bound: connections made
  MaxSnapshots, \* bound: checkpoints taken
  Upsets        \* what may go wrong, of AllUpsets

\* "stall": a client stops reading for longer than SUBSCRIBER_SEND_TIMEOUT;
\* "drop": a connection is lost before its replay has been read;
\* "persist": a checkpoint is taken between two events of a replay.
AllUpsets == {"stall", "drop", "persist"}

ASSUME ConstantsAssumption ==
  /\ Spawner \subseteq Client /\ Restorer \subseteq Client
  /\ None \notin Nat
  /\ MemoryCap \in Nat \ {0} /\ DiskCap \in Nat
  /\ ClientCap \in Nat \ {0} /\ JournalCap \in Nat \ {0}
  /\ MaxWritten \in Nat /\ MaxConnects \in Nat /\ MaxSnapshots \in Nat
  /\ Upsets \subseteq AllUpsets

VARIABLES
  written,      \* SessionData.head_seq
  tailStart,    \* the memory journal holds the bytes tailStart + 1 .. written
  checkpoint,   \* SessionData.checkpoint
  subscribers,  \* SessionData.subscribers
  unqueued,     \* the byte the output task has still to hand to the journal, or 0
  journal,      \* the queue of the journal writer
  disk,         \* the rows of output_chunks
  storing,      \* storing[c]: through_seq of a checkpoint still to be queued
  phase,        \* phase[c]: where AgentPty's connect stands
  known,        \* known[c]: a session id would be left if the attach failed
  after,        \* after[c]: after_seq of the attach request
  channel,      \* channel[c]: events on their way to c
  notice,       \* notice[c]: slow_client_detached waits to be sent to c
  nextSeq,      \* AgentPty.nextSeq
  parsedSeq,    \* AgentPty.parsedSeq
  unparsed,     \* unparsed[c]: data in xterm's write buffer, with its parseEnds
  screen,       \* screen[c]: what xterm has rendered since its last reset
  snapshot,     \* snapshot[c]: a checkpoint taken and not yet uploaded
  spent         \* connections made and checkpoints taken so far

sessionVars == <<written, tailStart, checkpoint, subscribers, unqueued, journal, disk, storing>>
terminalVars == <<nextSeq, parsedSeq, unparsed, screen, snapshot>>
vars == <<sessionVars, phase, known, after, channel, notice, terminalVars, spent>>

\* "reattaching" is attach inside connect's try, "attaching" the one after a
\* spawn; "failed" awaits the fallback of the first, "unattached" has none.
Phase == {"new", "reattaching", "attaching", "replayed", "up", "failed", "unattached", "down"}
Byte == 1..MaxWritten
Checkpoint == [through : 0..MaxWritten, ansi : Seq(Byte)]

Events == [kind : {"begin"}, reset : BOOLEAN, base : 0..MaxWritten]
     \cup [kind : {"checkpoint"}, ansi : Seq(Byte)]
     \cup [kind : {"output"}, byte : Byte]
     \cup [kind : {"end"}, next : 0..MaxWritten]
     \cup [kind : {"slow"}]

\* What waits in the queue of the journal writer and in xterm's write buffer.
JournalOp == [op : {"append"}, at : 1..written] \cup [op : {"checkpoint"}, at : 0..MaxWritten]
Chunk == [bytes : Seq(Byte), end : 0..MaxWritten \cup {None}]

Begin(reset, base) == [kind |-> "begin", reset |-> reset, base |-> base]
CheckpointChunk(ansi) == [kind |-> "checkpoint", ansi |-> ansi]
Output(n) == [kind |-> "output", byte |-> n]
End(next) == [kind |-> "end", next |-> next]
Slow == [kind |-> "slow"]

View == INSTANCE TerminalView WITH Client <- Client, written <- written, screen <- screen

Tracked(c) == {i \in DOMAIN unparsed[c] : unparsed[c][i].end # None}
ParserIdle(c) == Tracked(c) = {}
Untrack(s) == [i \in DOMAIN s |-> [s[i] EXCEPT !.end = None]]
InMemory == (tailStart + 1)..written
BackUpTo(x, y) == IF x > y THEN x - y ELSE 0

Init ==
  /\ written = 0 /\ tailStart = 0
  /\ checkpoint = None
  /\ subscribers = {}
  /\ unqueued = 0 /\ journal = <<>> /\ disk = {}
  /\ storing = [c \in Client |-> None]
  /\ phase = [c \in Client |-> "new"]
  /\ known = [c \in Client |-> c \notin Spawner]
  /\ after = [c \in Client |-> None]
  /\ channel = [c \in Client |-> <<>>]
  /\ notice = [c \in Client |-> FALSE]
  /\ nextSeq = [c \in Client |-> 0]
  /\ parsedSeq = [c \in Client |-> 0]
  /\ unparsed = [c \in Client |-> <<>>]
  /\ screen = [c \in Client |-> <<>>]
  /\ snapshot = [c \in Client |-> None]
  /\ spent = [connects |-> 0, snapshots |-> 0]

-----------------------------------------------------------------------------
(* The session's output task and the journal writer.                       *)

\* One chunk under the data lock: the sequence advances, the memory journal
\* grows and is trimmed to MemoryCap, and each subscriber with room gets it; one
\* without room loses its place, and a warning is owed to it.
Produce ==
  /\ written < MaxWritten /\ unqueued = 0
  /\ written' = written + 1
  /\ tailStart' = IF written' - tailStart > MemoryCap THEN written' - MemoryCap ELSE tailStart
  /\ LET room == {c \in subscribers : Len(channel[c]) < ClientCap} IN
     /\ channel' = [c \in Client |-> IF c \in room THEN Append(channel[c], Output(written'))
                                     ELSE channel[c]]
     /\ subscribers' = room
     /\ notice' = [c \in Client |-> notice[c] \/ c \in subscribers \ room]
  /\ unqueued' = written'
  /\ UNCHANGED <<checkpoint, journal, disk, storing, phase, known, after, terminalVars, spent>>

\* enqueue_output, after the lock: a full queue drops the chunk.
EnqueueOutput ==
  /\ unqueued # 0
  /\ journal' = IF Len(journal) < JournalCap
                THEN Append(journal, [op |-> "append", at |-> unqueued]) ELSE journal
  /\ unqueued' = 0
  /\ UNCHANGED <<written, tailStart, checkpoint, subscribers, disk, storing, phase, known, after, channel, notice, terminalVars, spent>>

\* journal_writer, Append and Checkpoint, on the rows.
Apply(rows, o) ==
  CASE o.op = "append" -> {n \in rows \cup {o.at} : n > BackUpTo(o.at, DiskCap)}
    [] o.op = "checkpoint" -> {n \in rows : n > o.at}

JournalWriter ==
  /\ journal # <<>>
  /\ disk' = Apply(disk, Head(journal))
  /\ journal' = Tail(journal)
  /\ UNCHANGED <<written, tailStart, checkpoint, subscribers, unqueued, storing, phase, known, after, channel, notice, terminalVars, spent>>

-----------------------------------------------------------------------------
(* Attach.                                                                 *)

\* Faulty variant: a checkpoint is used although output after it has been forgotten.
PlanWithOldCheckpoint(seq, start) ==
  IF seq # None /\ seq >= start /\ seq <= written
  THEN [reset |-> FALSE, base |-> seq, withCheckpoint |-> FALSE, truncated |-> FALSE]
  ELSE IF checkpoint # None
  THEN [reset |-> TRUE, base |-> checkpoint.through, withCheckpoint |-> TRUE, truncated |-> FALSE]
  ELSE [reset |-> TRUE, base |-> start, withCheckpoint |-> FALSE, truncated |-> start > 0]

\* replay_plan.
ReplayPlan(seq, start) ==
  IF seq # None /\ seq >= start /\ seq <= written
  THEN [reset |-> FALSE, base |-> seq, withCheckpoint |-> FALSE, truncated |-> FALSE]
  ELSE IF checkpoint # None /\ checkpoint.through >= start
  THEN [reset |-> TRUE, base |-> checkpoint.through, withCheckpoint |-> TRUE, truncated |-> FALSE]
  ELSE [reset |-> TRUE, base |-> start, withCheckpoint |-> FALSE, truncated |-> start > 0]

\* Faulty variant: whatever is on disk is taken, across a hole.
ExtendAcrossHoles(rows) == rows \cup InMemory

\* extend_journal_backwards: as far as the rows on disk join the memory journal.
ExtendBackwards(rows) == {n \in rows \cup InMemory : n..tailStart \subseteq rows}

StartOf(held) == IF held = {} THEN written ELSE Min(held) - 1

\* The chunks attach replays from: the disk is read only when the memory
\* journal would leave the history truncated.
MemoryTruncated(c) == ReplayPlan(after[c], StartOf(InMemory)).truncated
Held(c) == IF MemoryTruncated(c) THEN ExtendBackwards(disk) ELSE InMemory

InOrder(S) == [i \in 1..Cardinality(S) |-> CHOOSE n \in S : Cardinality({m \in S : m <= n}) = i]

Replay(c) ==
  LET plan == ReplayPlan(after[c], StartOf(Held(c)))
      rest == InOrder({n \in Held(c) : n > plan.base})
  IN <<Begin(plan.reset, plan.base)>>
       \o (IF plan.withCheckpoint THEN <<CheckpointChunk(checkpoint.ansi)>> ELSE <<>>)
       \o [i \in DOMAIN rest |-> Output(rest[i])]
       \o <<End(written)>>

\* What attach waits for and leaves alone: load_output_chunks goes through the
\* writer's queue, so the rows are read when all that is queued is on disk.
Attaching(c) ==
  /\ phase[c] \in {"reattaching", "attaching"}
  /\ MemoryTruncated(c) => journal = <<>>
  /\ UNCHANGED <<written, tailStart, checkpoint, unqueued, journal, disk, storing, known, after, notice, terminalVars, spent>>

\* attach: the whole replay, then the subscription, in one hold of the lock.
Attach(c) ==
  /\ Attaching(c)
  /\ channel' = [channel EXCEPT ![c] = @ \o Replay(c)]
  /\ subscribers' = subscribers \cup {c}
  /\ phase' = [phase EXCEPT ![c] = "replayed"]

\* send_to_client gives up part of the way: client_too_slow, no subscription.
AttachTooSlow(c) ==
  /\ "stall" \in Upsets
  /\ Attaching(c)
  /\ \E n \in 0..(Len(Replay(c)) - 1) : channel' = [channel EXCEPT ![c] = @ \o SubSeq(Replay(c), 1, n)]
  /\ phase' = [phase EXCEPT ![c] = IF @ = "reattaching" THEN "failed" ELSE "unattached"]
  /\ UNCHANGED subscribers

-----------------------------------------------------------------------------
(* AgentPty's connection.                                                  *)

\* The session id is tried first: with after_seq absent for a pane just
\* opened, and from what the parser has finished when the host comes back.
Reattach(c, seq) ==
  /\ phase' = [phase EXCEPT ![c] = "reattaching"]
  /\ known' = [known EXCEPT ![c] = c \notin Spawner]
  /\ after' = [after EXCEPT ![c] = seq]
  /\ UNCHANGED <<nextSeq, parsedSeq, unparsed>>

\* spawn_session finds the session running and returns it; AgentPty takes it
\* for a new one, starts counting from zero and keeps what is on the screen.
Respawn(c) ==
  /\ phase' = [phase EXCEPT ![c] = "attaching"]
  /\ known' = [known EXCEPT ![c] = TRUE]
  /\ after' = [after EXCEPT ![c] = 0]
  /\ nextSeq' = [nextSeq EXCEPT ![c] = 0]
  /\ parsedSeq' = [parsedSeq EXCEPT ![c] = 0]
  /\ unparsed' = [unparsed EXCEPT ![c] = Untrack(@)]

SpendConnect ==
  /\ spent.connects < MaxConnects
  /\ spent' = [spent EXCEPT !.connects = @ + 1]

Restorable(c) == {<<>>} \cup IF c \in Restorer THEN {View!Window(1, n) : n \in 1..written} ELSE {}

\* A pane is opened: getOrCreateSession and the constructor's connect.
Open(c) ==
  /\ phase[c] = "new" /\ SpendConnect
  /\ \E s \in Restorable(c) : screen' = [screen EXCEPT ![c] = s]
  /\ IF known[c] THEN Reattach(c, None) ELSE Respawn(c)
  /\ UNCHANGED <<sessionVars, channel, notice, snapshot>>

\* Faulty variant: the resuming attach does not wait for the parser.
ReconnectAtOnce(c) ==
  /\ phase[c] = "down" /\ SpendConnect
  /\ IF known[c] THEN Reattach(c, parsedSeq[c]) ELSE Respawn(c)
  /\ UNCHANGED <<sessionVars, channel, notice, screen, snapshot>>

\* The host is back: the resuming connect, which waits for the parser.
Reconnect(c) ==
  /\ phase[c] = "down" /\ SpendConnect
  /\ IF known[c] THEN ParserIdle(c) /\ Reattach(c, parsedSeq[c]) ELSE Respawn(c)
  /\ UNCHANGED <<sessionVars, channel, notice, screen, snapshot>>

Attached(c) ==
  /\ phase[c] = "replayed"
  /\ phase' = [phase EXCEPT ![c] = "up"]
  /\ known' = [known EXCEPT ![c] = TRUE]
  /\ UNCHANGED <<sessionVars, after, channel, notice, terminalVars, spent>>

\* The reattach was refused.  By the time the spawn is answered, the events
\* sent before the refusal have been read.
Fallback(c) ==
  /\ phase[c] = "failed" /\ channel[c] = <<>>
  /\ Respawn(c)
  /\ UNCHANGED <<sessionVars, channel, notice, screen, snapshot, spent>>

\* A read-only pane may not spawn, nor store what it serialized.
GiveUp(c) ==
  /\ phase[c] = "failed"
  /\ phase' = [phase EXCEPT ![c] = "unattached"]
  /\ channel' = [channel EXCEPT ![c] = <<>>]
  /\ snapshot' = [snapshot EXCEPT ![c] = None]
  /\ UNCHANGED <<sessionVars, known, after, notice, nextSeq, parsedSeq, unparsed, screen, spent>>

\* The connection ends on both sides; a checkpoint being uploaded is lost.
Offline(c) ==
  /\ phase' = [phase EXCEPT ![c] = "down"]
  /\ channel' = [channel EXCEPT ![c] = <<>>]
  /\ notice' = [notice EXCEPT ![c] = FALSE]
  /\ subscribers' = subscribers \ {c}

ReplayPending(c) ==
  phase[c] \in {"reattaching", "attaching"} \/ \E i \in DOMAIN channel[c] : channel[c][i].kind = "end"

Disconnect(c) ==
  /\ phase[c] \notin {"new", "down"}
  /\ ReplayPending(c) => "drop" \in Upsets
  /\ Offline(c)
  /\ \E lost \in BOOLEAN : snapshot' = IF lost THEN [snapshot EXCEPT ![c] = None] ELSE snapshot
  /\ UNCHANGED <<written, tailStart, checkpoint, unqueued, journal, disk, storing, known, after, nextSeq, parsedSeq, unparsed, screen, spent>>

\* Faulty variant: the warning that the stream was dropped is not sent.
SlowUnsent(c) ==
  /\ notice[c] /\ Len(channel[c]) < ClientCap
  /\ notice' = [notice EXCEPT ![c] = FALSE]
  /\ UNCHANGED <<sessionVars, phase, known, after, channel, terminalVars, spent>>

\* The task that warns a client whose queue was full waits for room,
SendSlow(c) ==
  /\ notice[c] /\ Len(channel[c]) < ClientCap
  /\ channel' = [channel EXCEPT ![c] = Append(@, Slow)]
  /\ notice' = [notice EXCEPT ![c] = FALSE]
  /\ UNCHANGED <<sessionVars, phase, known, after, terminalVars, spent>>

\* but not for longer than SUBSCRIBER_SEND_TIMEOUT.
DropSlow(c) ==
  /\ "stall" \in Upsets
  /\ notice[c] /\ Len(channel[c]) >= ClientCap
  /\ notice' = [notice EXCEPT ![c] = FALSE]
  /\ UNCHANGED <<sessionVars, phase, known, after, channel, terminalVars, spent>>

-----------------------------------------------------------------------------
(* AgentPty.handleEvent and xterm's parser.                                *)

Listening(c) == phase[c] \notin {"new", "down"}

\* Faulty variant: a reset that leaves the old screen where it is.
BeginWithoutReset(c, e) ==
  /\ nextSeq' = [nextSeq EXCEPT ![c] = e.base]
  /\ IF e.reset
     THEN /\ parsedSeq' = [parsedSeq EXCEPT ![c] = e.base]
          /\ unparsed' = [unparsed EXCEPT ![c] = Untrack(@)]
          /\ UNCHANGED screen
     ELSE UNCHANGED <<parsedSeq, unparsed, screen>>

\* replay_begin: with reset, xterm is cleared and counting starts at the base.
OnBegin(c, e) ==
  /\ nextSeq' = [nextSeq EXCEPT ![c] = e.base]
  /\ IF e.reset
     THEN /\ parsedSeq' = [parsedSeq EXCEPT ![c] = e.base]
          /\ unparsed' = [unparsed EXCEPT ![c] = Untrack(@)]
          /\ screen' = [screen EXCEPT ![c] = <<>>]
     ELSE UNCHANGED <<parsedSeq, unparsed, screen>>

Queue(c, bytes, end) ==
  /\ unparsed' = [unparsed EXCEPT ![c] = Append(@, [bytes |-> bytes, end |-> end])]
  /\ UNCHANGED <<parsedSeq, screen>>

OnCheckpoint(c, e) == Queue(c, e.ansi, nextSeq[c]) /\ UNCHANGED nextSeq

\* acceptOutputSequence finds the byte it expects.  Its other two answers,
\* duplicate and gap, never come up: see InSequence.
OnOutput(c, e) ==
  /\ e.byte = nextSeq[c] + 1
  /\ nextSeq' = [nextSeq EXCEPT ![c] = e.byte]
  /\ Queue(c, <<e.byte>>, e.byte)

OnEnd(c, e) ==
  /\ nextSeq' = [nextSeq EXCEPT ![c] = e.next]
  /\ UNCHANGED <<parsedSeq, unparsed, screen>>

ReceiveEvent(c) ==
  /\ Listening(c) /\ channel[c] # <<>>
  /\ LET e == Head(channel[c]) IN
       \/ e.kind = "begin" /\ OnBegin(c, e)
       \/ e.kind = "checkpoint" /\ OnCheckpoint(c, e)
       \/ e.kind = "output" /\ OnOutput(c, e)
       \/ e.kind = "end" /\ OnEnd(c, e)
  /\ channel' = [channel EXCEPT ![c] = Tail(@)]
  /\ UNCHANGED <<sessionVars, phase, known, after, notice, snapshot, spent>>

\* slow_client_detached puts the transport offline; the attach it overtook
\* has succeeded.
ReceiveSlow(c) ==
  /\ Listening(c) /\ channel[c] # <<>> /\ Head(channel[c]).kind = "slow"
  /\ Offline(c)
  /\ known' = [known EXCEPT ![c] = TRUE]
  /\ UNCHANGED <<written, tailStart, checkpoint, unqueued, journal, disk, storing, after, terminalVars, spent>>

\* xterm parses one write and its callback, acknowledgeData, runs.
Parse(c) ==
  /\ unparsed[c] # <<>>
  /\ LET w == Head(unparsed[c]) IN
     /\ screen' = [screen EXCEPT ![c] = @ \o w.bytes]
     /\ parsedSeq' = [parsedSeq EXCEPT ![c] = IF w.end # None /\ w.end > @ THEN w.end ELSE @]
  /\ unparsed' = [unparsed EXCEPT ![c] = Tail(@)]
  /\ UNCHANGED <<sessionVars, phase, known, after, channel, notice, nextSeq, snapshot, spent>>

-----------------------------------------------------------------------------
(* Checkpoints.                                                            *)

\* Faulty variant: the checkpoint claims all that was received, parsed or not.
SnapshotOfReceived(c) ==
  /\ phase[c] # "new"
  /\ ReplayPending(c) => "persist" \in Upsets
  /\ snapshot[c] = None /\ spent.snapshots < MaxSnapshots
  /\ snapshot' = [snapshot EXCEPT ![c] = [through |-> nextSeq[c], ansi |-> screen[c]]]
  /\ spent' = [spent EXCEPT !.snapshots = @ + 1]
  /\ UNCHANGED <<sessionVars, phase, known, after, channel, notice, nextSeq, parsedSeq, unparsed, screen>>

\* persist: what is serialized is sent when AgentPty is ready.
Snapshot(c) ==
  /\ phase[c] # "new" /\ ParserIdle(c)
  /\ ReplayPending(c) => "persist" \in Upsets
  /\ snapshot[c] = None /\ spent.snapshots < MaxSnapshots
  /\ snapshot' = [snapshot EXCEPT ![c] = [through |-> parsedSeq[c], ansi |-> screen[c]]]
  /\ spent' = [spent EXCEPT !.snapshots = @ + 1]
  /\ UNCHANGED <<sessionVars, phase, known, after, channel, notice, nextSeq, parsedSeq, unparsed, screen>>

\* Faulty variant: an older checkpoint replaces a newer one.
AcceptableOlder(through) == through <= written

Acceptable(through) ==
  /\ checkpoint # None => through >= checkpoint.through
  /\ through <= written

\* Faulty variant: the tail is trimmed as if the checkpoint covered one byte more.
TrimTooFar(c) ==
  /\ phase[c] \in {"up", "unattached"}
  /\ snapshot[c] # None /\ storing[c] = None
  /\ snapshot' = [snapshot EXCEPT ![c] = None]
  /\ LET through == snapshot[c].through IN
     IF Acceptable(through)
     THEN /\ checkpoint' = snapshot[c]
          /\ tailStart' = IF through + 1 > tailStart THEN through + 1 ELSE tailStart
          /\ storing' = [storing EXCEPT ![c] = through]
     ELSE UNCHANGED <<checkpoint, tailStart, storing>>
  /\ UNCHANGED <<written, subscribers, unqueued, journal, disk, phase, known, after, channel, notice, nextSeq, parsedSeq, unparsed, screen, spent>>

\* save_checkpoint under the data lock, after the whole upload.
SaveCheckpoint(c) ==
  /\ phase[c] \in {"up", "unattached"}
  /\ snapshot[c] # None /\ storing[c] = None
  /\ snapshot' = [snapshot EXCEPT ![c] = None]
  /\ LET through == snapshot[c].through IN
     IF Acceptable(through)
     THEN /\ checkpoint' = snapshot[c]
          /\ tailStart' = IF through > tailStart THEN through ELSE tailStart
          /\ storing' = [storing EXCEPT ![c] = through]
     ELSE UNCHANGED <<checkpoint, tailStart, storing>>
  /\ UNCHANGED <<written, subscribers, unqueued, journal, disk, phase, known, after, channel, notice, nextSeq, parsedSeq, unparsed, screen, spent>>

\* Repository::save_checkpoint waits for room in the journal queue.
QueueCheckpoint(c) ==
  /\ storing[c] # None /\ Len(journal) < JournalCap
  /\ journal' = Append(journal, [op |-> "checkpoint", at |-> storing[c]])
  /\ storing' = [storing EXCEPT ![c] = None]
  /\ UNCHANGED <<written, tailStart, checkpoint, subscribers, unqueued, disk, phase, known, after, channel, notice, terminalVars, spent>>

-----------------------------------------------------------------------------
Terminal(c) ==
  \/ Open(c) \/ Reconnect(c) \/ Attached(c) \/ Fallback(c) \/ GiveUp(c) \/ Disconnect(c)
  \/ Attach(c) \/ AttachTooSlow(c) \/ SendSlow(c) \/ DropSlow(c)
  \/ ReceiveEvent(c) \/ ReceiveSlow(c) \/ Parse(c)
  \/ Snapshot(c) \/ SaveCheckpoint(c) \/ QueueCheckpoint(c)

Next == Produce \/ EnqueueOutput \/ JournalWriter \/ \E c \in Client : Terminal(c)

Spec == Init /\ [][Next]_vars

\* What the tasks, timers and the event loop do without anyone's decision.
Fairness ==
  /\ WF_vars(JournalWriter)
  /\ \A c \in Client :
       /\ WF_vars(Attach(c) \/ AttachTooSlow(c)) /\ WF_vars(Attached(c))
       /\ WF_vars(SendSlow(c) \/ DropSlow(c))
       /\ WF_vars(ReceiveEvent(c)) /\ WF_vars(ReceiveSlow(c)) /\ WF_vars(Parse(c))

FairSpec == Spec /\ Fairness

-----------------------------------------------------------------------------
(* Properties.                                                             *)

\* Types; the memory journal never exceeds its cap and the queue of the
\* journal writer never exceeds its own.
TypeOK ==
  /\ written \in 0..MaxWritten
  /\ tailStart \in 0..written /\ written - tailStart <= MemoryCap
  /\ checkpoint \in Checkpoint \cup {None} /\ (checkpoint # None => checkpoint.through <= written)
  /\ subscribers \subseteq Client
  /\ unqueued \in 0..written
  /\ journal \in Seq(JournalOp) /\ Len(journal) <= JournalCap
  /\ disk \subseteq 1..written
  /\ storing \in [Client -> 0..MaxWritten \cup {None}]
  /\ phase \in [Client -> Phase]
  /\ known \in [Client -> BOOLEAN] /\ notice \in [Client -> BOOLEAN]
  /\ after \in [Client -> 0..MaxWritten \cup {None}]
  /\ channel \in [Client -> Seq(Events)]
  /\ nextSeq \in [Client -> 0..MaxWritten] /\ parsedSeq \in [Client -> 0..MaxWritten]
  /\ unparsed \in [Client -> Seq(Chunk)]
  /\ screen \in [Client -> Seq(Byte)]
  /\ snapshot \in [Client -> Checkpoint \cup {None}]
  /\ spent \in [connects : 0..MaxConnects, snapshots : 0..MaxSnapshots]

\* A terminal is handed every byte exactly when it expects it: the replay and
\* the live stream join without gap or overlap, whatever is written meanwhile,
\* so acceptOutputSequence never has to drop, trim or recover.
InSequence ==
  \A c \in Client :
    Listening(c) /\ channel[c] # <<>> /\ Head(channel[c]).kind = "output"
      => Head(channel[c]).byte = nextSeq[c] + 1

\* A screen shows a contiguous piece of the output that ends where AgentPty
\* says the parser is: nothing is missing, repeated or out of order, across
\* reconnections, truncated histories and other terminals' checkpoints.
ScreenExact ==
  \A c \in Client :
    /\ View!IsWindow(screen[c])
    /\ screen[c] # <<>> => Last(screen[c]) = parsedSeq[c]

\* The bytes up to n that the agent has certainly not forgotten.
Retained(n) == {m \in 1..n : m + MemoryCap > written}

Settled(c) == phase[c] = "up" /\ ~ReplayPending(c) /\ Tracked(c) = {}

\* Once its replay has been rendered, a terminal shows all the output the
\* agent retains, up to where its parser is, wherever that came from: its
\* own screen, the checkpoint, the memory journal or the rows on disk.
HistoryShown == \A c \in Client : Settled(c) => Retained(parsedSeq[c]) \subseteq Range(screen[c])

\* A checkpoint contains the output it lets the agent forget.
CheckpointWhole == checkpoint # None => Retained(checkpoint.through) \subseteq Range(checkpoint.ansi)

\* No output is shown twice once a replay has been rendered.
NothingTwice == \A c \in Client : Settled(c) => \A i, j \in DOMAIN screen[c] : screen[c][i] = screen[c][j] => i = j

\* The stream is what TerminalView promises: screens only grow by the bytes
\* that follow, or are cleared.
ViewSpec == View!Spec

\* A terminal that stays attached shows everything in the end, also after
\* the live stream has dropped it.
CatchesUp == \A c \in Client : <>[](phase[c] = "up") => <>[](parsedSeq[c] = written)
=============================================================================
