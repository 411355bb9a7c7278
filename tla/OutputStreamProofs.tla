------------------------ MODULE OutputStreamProofs ------------------------
(***************************************************************************)
(* The safety properties of OutputStream, for every set of terminals and   *)
(* every value of the caps and the bounds, and that the stream implements  *)
(* the view of a terminal.                                                 *)
(***************************************************************************)
EXTENDS OutputStream, FiniteSetTheorems, SequenceTheorems, WellFoundedInduction, TLAPS

\* The position of the stream after the first i events of s, if it is p before
\* them.  A checkpoint leaves it where the event before it, a begin, put it;
\* after a warning nothing follows.
After(s, p, i) ==
  IF i = 0 THEN p
  ELSE CASE s[i].kind = "begin" -> s[i].base
         [] s[i].kind = "output" -> s[i].byte
         [] s[i].kind = "end" -> s[i].next
         [] s[i].kind = "checkpoint" -> IF i = 1 THEN p ELSE s[i - 1].base
         [] s[i].kind = "slow" -> 0

\* Every event of s follows on the one before it.
Chained(s, p) ==
  \A i \in 1..Len(s) :
    /\ s[i].kind = "output" => s[i].byte = After(s, p, i - 1) + 1
    /\ s[i].kind = "end" => s[i].next = After(s, p, i - 1)
    /\ s[i].kind = "checkpoint" => i = 1 \/ s[i - 1].kind = "begin"
    /\ s[i].kind = "slow" => i = Len(s)

HasSlow(c) == \E i \in 1..Len(channel[c]) : channel[c][i].kind = "slow"

\* The events on their way to c follow on each other and on what c has received.
\* A subscriber has been sent all that is written and is owed no warning; one
\* that is owed a warning, or has it on its way, is sent nothing else.
StreamOf(c) ==
  /\ Chained(channel[c], nextSeq[c])
  /\ phase[c] \in {"new", "down", "reattaching", "attaching"} => channel[c] = <<>>
  /\ c \in subscribers => /\ phase[c] \in {"replayed", "up"} /\ ~HasSlow(c) /\ ~notice[c]
                         /\ After(channel[c], nextSeq[c], Len(channel[c])) = written
  /\ notice[c] => phase[c] \in {"replayed", "up"} /\ ~HasSlow(c)

\* The inductive invariant behind InSequence.
StreamInv == \A c \in Client : StreamOf(c)

-----------------------------------------------------------------------------
(* What ScreenExact needs beside it, when every terminal attaches to the   *)
(* session and starts with an empty screen, and no read stalls.            *)

\* A contiguous piece of the output that ends with byte n, or nothing.
IsPiece(s, n) == View!IsWindow(s) /\ (s # <<>> => Last(s) = n)

\* Where the parser of c will be after i of the writes in its buffer.
Parsed(c, i) == IF i = 0 THEN parsedSeq[c] ELSE unparsed[c][i].end

\* A write continues what is on the screen and in the buffer before it, or is
\* the checkpoint a cleared screen starts with.
Renders(c, i) ==
  LET w == unparsed[c][i] IN
  /\ w.end \in Nat /\ w.end <= written
  /\ \/ w.end = Parsed(c, i - 1) + 1 /\ w.bytes = <<w.end>>
     \/ i = 1 /\ screen[c] = <<>> /\ w.end = parsedSeq[c] /\ IsPiece(w.bytes, w.end)

\* A replay begins when nothing is left to parse, where the parser is or with a
\* cleared screen; its checkpoint ends where it says.
Fits(c, i) ==
  /\ After(channel[c], nextSeq[c], i) \in 0..written
  /\ channel[c][i].kind = "begin" =>
       /\ i = 1 /\ unparsed[c] = <<>>
       /\ ~channel[c][i].reset => channel[c][i].base = parsedSeq[c]
  /\ channel[c][i].kind = "checkpoint" =>
       /\ IsPiece(channel[c][i].ansi, After(channel[c], nextSeq[c], i - 1))
       /\ i = 1 => unparsed[c] = <<>> /\ screen[c] = <<>>
       /\ i # 1 => i = 2 /\ channel[c][1].reset

ExactOf(c) ==
  /\ known[c] /\ phase[c] \in {"new", "reattaching", "replayed", "up", "down"}
  /\ nextSeq[c] = Parsed(c, Len(unparsed[c]))
  /\ nextSeq[c] <= written /\ parsedSeq[c] <= written
  /\ IsPiece(screen[c], parsedSeq[c])
  /\ snapshot[c] # None => IsPiece(snapshot[c].ansi, snapshot[c].through) /\ snapshot[c].through <= written
  /\ phase[c] \in {"new", "reattaching"} => unparsed[c] = <<>>
  /\ phase[c] = "reattaching" => after[c] \in {None, parsedSeq[c]}
  /\ \A i \in 1..Len(unparsed[c]) : Renders(c, i)
  /\ \A i \in 1..Len(channel[c]) : Fits(c, i)

CheckpointExact == checkpoint # None => IsPiece(checkpoint.ansi, checkpoint.through)

ExactInv == CheckpointExact /\ \A c \in Client : ExactOf(c)

-----------------------------------------------------------------------------
(* What HistoryShown needs beside it, when moreover no replay is cut and no *)
(* checkpoint is taken in the middle of one.                                *)

Awaiting(c) == channel[c] # <<>> /\ channel[c][1].kind = "checkpoint"

\* Byte m is on the screen of c or waits to be parsed.
Covered(c, m) ==
  m \in Range(screen[c]) \/ \E i \in 1..Len(unparsed[c]) : m \in Range(unparsed[c][i].bytes)

\* An event of a replay leaves nothing out that the agent retains, and the
\* replay goes on to its end.
Completes(c, i) ==
  /\ channel[c][i].kind = "begin" /\ channel[c][i].reset =>
       \/ Retained(channel[c][i].base) = {}
       \/ i < Len(channel[c]) /\ channel[c][i + 1].kind = "checkpoint"
  /\ channel[c][i].kind = "checkpoint" =>
       Retained(After(channel[c], nextSeq[c], i - 1)) \subseteq Range(channel[c][i].ansi)
  /\ channel[c][i].kind \in {"begin", "checkpoint"} =>
       \E j \in 1..Len(channel[c]) : j > i /\ channel[c][j].kind = "end"

WholeOf(c) ==
  /\ phase[c] = "new" => screen[c] = <<>>
  /\ snapshot[c] # None => Retained(snapshot[c].through) \subseteq Range(snapshot[c].ansi)
  /\ ~Awaiting(c) => \A m \in Retained(nextSeq[c]) : Covered(c, m)
  /\ \A i \in 1..Len(channel[c]) : Completes(c, i)

\* What the memory journal has been trimmed of, the agent need not retain or a
\* checkpoint contains.
TailKept ==
  \/ tailStart = 0 \/ tailStart + MemoryCap <= written
  \/ checkpoint # None /\ checkpoint.through >= tailStart

WholeInv == CheckpointWhole /\ TailKept /\ \A c \in Client : WholeOf(c)

-----------------------------------------------------------------------------
(* Operators.                                                              *)

\* A nonempty set of naturals has a least element, and Min is it.
LEMMA MinIsLeast ==
  ASSUME NEW B \in SUBSET Nat, B # {}
  PROVE  Min(B) \in B /\ \A n \in B : Min(B) <= n
<1>1. IsWellFoundedOn(OpToRel(<, Nat), Nat)
  BY NatLessThanWellFounded
<1>2. \E m \in B : \A n \in B : ~ (<<n, m>> \in OpToRel(<, Nat))
  BY <1>1, WFMin
<1>3. PICK m \in B : \A n \in B : ~ (<<n, m>> \in OpToRel(<, Nat))
  BY <1>2
<1>4. \A n \in B : m <= n
  <2>1. SUFFICES ASSUME NEW n \in B PROVE m <= n
    OBVIOUS
  <2>2. <<n, m>> \notin OpToRel(<, Nat)
    BY <1>3
  <2>3. m \in Nat /\ n \in Nat
    OBVIOUS
  <2>4. ~ (n < m)
    BY <2>2, <2>3, Zenon DEF OpToRel
  <2> QED
    BY <2>3, <2>4
<1>5. \E x \in B : \A n \in B : x <= n
  BY <1>4
<1> QED
  BY <1>5 DEF Min

\* The numbers between two bounds, put in order.
LEMMA IntervalInOrder ==
  ASSUME NEW a \in Nat, NEW b \in Nat, a <= b
  PROVE  InOrder((a + 1)..b) = [i \in 1..(b - a) |-> a + i]
<1>1. ASSUME NEW c \in Nat, a <= c
      PROVE  Cardinality((a + 1)..c) = c - a
  <2>1. a + 1 \in Int /\ c \in Int
    OBVIOUS
  <2>2. Cardinality((a + 1)..c) = IF a + 1 > c THEN 0 ELSE c - (a + 1) + 1
    BY <2>1, FS_Interval, Zenon
  <2> QED
    BY <1>1, <2>2
<1>2. ASSUME NEW i \in 1..(b - a)
      PROVE  (CHOOSE n \in (a + 1)..b : Cardinality({m \in (a + 1)..b : m <= n}) = i) = a + i
  <2>1. ASSUME NEW n \in (a + 1)..b
        PROVE  Cardinality({m \in (a + 1)..b : m <= n}) = n - a
    <3>1. {m \in (a + 1)..b : m <= n} = (a + 1)..n
      OBVIOUS
    <3>2. n \in Nat /\ a <= n
      OBVIOUS
    <3> QED
      BY <3>1, <3>2, <1>1
  <2>2. a + i \in (a + 1)..b
    OBVIOUS
  <2>3. \A n \in (a + 1)..b : (Cardinality({m \in (a + 1)..b : m <= n}) = i) <=> n = a + i
    BY <2>1
  <2> QED
    BY <2>2, <2>3
<1> QED
  BY <1>1, <1>2, Cardinality((a + 1)..b) = b - a DEF InOrder

-----------------------------------------------------------------------------
(* What an attach replays.                                                 *)

\* What an attach replays from is all that was written after some position,
\* which the memory journal does not begin before.
LEMMA HeldIsTail ==
  ASSUME TypeOK, NEW c \in Client
  PROVE  /\ StartOf(Held(c)) \in 0..tailStart
         /\ Held(c) = (StartOf(Held(c)) + 1)..written
<1> DEFINE H == Held(c)
<1>1. /\ written \in Nat /\ tailStart \in 0..written /\ disk \subseteq 1..written
  BY ConstantsAssumption DEF TypeOK
<1> HIDE DEF H
<1>2. InMemory \subseteq H /\ H \subseteq 1..written /\ \A n \in H : \A m \in n..written : m \in H
  <2>1. CASE ~MemoryTruncated(c)
    BY <1>1, <2>1 DEF H, Held, InMemory
  <2>2. CASE MemoryTruncated(c)
    <3>1. H = {n \in disk \cup InMemory : n..tailStart \subseteq disk}
      BY <2>2 DEF H, Held, ExtendBackwards
    <3>2. ASSUME NEW n \in H, NEW m \in n..written
          PROVE  m \in H
      <4>1. n \in 1..written /\ n..tailStart \subseteq disk
        BY <1>1, <3>1 DEF InMemory
      <4>2. m..tailStart \subseteq disk
        BY <1>1, <4>1
      <4>3. m \in disk \cup InMemory
        BY <1>1, <4>1 DEF InMemory
      <4> QED
        BY <3>1, <4>2, <4>3
    <3>3. InMemory \subseteq H
      BY <1>1, <3>1 DEF InMemory
    <3>4. H \subseteq 1..written
      <4>1. InMemory \subseteq 1..written
        BY <1>1 DEF InMemory
      <4>2. H \subseteq disk \cup InMemory
        BY <3>1
      <4> QED
        BY <1>1, <4>1, <4>2
    <3> QED
      BY <3>2, <3>3, <3>4
  <2> QED
    BY <2>1, <2>2
<1>3. CASE H = {}
  <2>1. StartOf(H) = written
    BY <1>3 DEF StartOf
  <2>2. tailStart = written
    BY <1>1, <1>2, <1>3 DEF InMemory
  <2> QED
    BY <1>1, <1>3, <2>1, <2>2 DEF H
<1>4. CASE H # {}
  <2>1. H \in SUBSET Nat
    BY <1>1, <1>2
  <2>2. Min(H) \in H /\ \A n \in H : Min(H) <= n
    BY <1>4, <2>1, MinIsLeast
  <2>3. StartOf(H) = Min(H) - 1
    BY <1>4 DEF StartOf
  <2>4. Min(H) \in 1..written
    BY <1>2, <2>2
  <2>5. Min(H) <= tailStart + 1
    BY <1>1, <1>2, <2>2, <2>4 DEF InMemory
  <2>6. H = Min(H)..written
    <3> DEFINE least == Min(H)
    <3>1. least \in H /\ least \in 1..written /\ \A n \in H : least <= n
      BY <2>2, <2>4
    <3> HIDE DEF least
    <3>2. \A n \in H : n \in least..written
      BY <1>1, <1>2, <3>1
    <3>3. \A n \in least..written : n \in H
      BY <1>1, <1>2, <3>1
    <3> QED
      BY <3>2, <3>3 DEF least
  <2>7. StartOf(H) \in 0..tailStart /\ (StartOf(H) + 1) = Min(H)
    BY <1>1, <2>3, <2>4, <2>5
  <2> QED
    BY <2>6, <2>7 DEF H
<1> QED
  BY <1>3, <1>4

Plan(c) == ReplayPlan(after[c], StartOf(Held(c)))

\* What the plan of a replay says of where it begins.
LEMMA PlanBase ==
  ASSUME TypeOK, NEW c \in Client
  PROVE  /\ Plan(c).reset \in BOOLEAN /\ Plan(c).withCheckpoint \in BOOLEAN
         /\ Plan(c).base \in StartOf(Held(c))..written /\ Plan(c).base \in Nat
         /\ ~Plan(c).reset => ~Plan(c).withCheckpoint /\ after[c] # None /\ Plan(c).base = after[c]
         /\ Plan(c).withCheckpoint => checkpoint # None /\ Plan(c).base = checkpoint.through
         /\ Plan(c).reset /\ ~Plan(c).withCheckpoint =>
              /\ Plan(c).base = StartOf(Held(c))
              /\ checkpoint = None \/ checkpoint.through < Plan(c).base
<1> DEFINE start == StartOf(Held(c))
           seq == after[c]
<1>1. start \in 0..written /\ written \in Nat
  BY HeldIsTail, ConstantsAssumption DEF TypeOK
<1>2. seq # None => seq \in Nat
  BY ConstantsAssumption DEF TypeOK
<1>3. checkpoint # None => checkpoint.through \in Nat /\ checkpoint.through <= written
  BY ConstantsAssumption DEF TypeOK, Checkpoint
<1> HIDE DEF start, seq
<1>4. Plan(c) = ReplayPlan(seq, start)
  BY DEF Plan, start, seq
<1>5. CASE seq # None /\ seq >= start /\ seq <= written
  <2>1. Plan(c) = [reset |-> FALSE, base |-> seq, withCheckpoint |-> FALSE, truncated |-> FALSE]
    BY <1>4, <1>5 DEF ReplayPlan
  <2> QED
    BY <1>1, <1>2, <1>5, <2>1 DEF start, seq
<1>6. CASE ~(seq # None /\ seq >= start /\ seq <= written)
  <2>1. CASE checkpoint # None /\ checkpoint.through >= start
    <3>1. Plan(c) = [reset |-> TRUE, base |-> checkpoint.through, withCheckpoint |-> TRUE, truncated |-> FALSE]
      BY <1>4, <1>6, <2>1 DEF ReplayPlan
    <3> QED
      BY <1>1, <1>3, <2>1, <3>1 DEF start, seq
  <2>2. CASE ~(checkpoint # None /\ checkpoint.through >= start)
    <3>1. Plan(c) = [reset |-> TRUE, base |-> start, withCheckpoint |-> FALSE, truncated |-> start > 0]
      BY <1>4, <1>6, <2>2 DEF ReplayPlan
    <3> QED
      BY <1>1, <1>3, <2>2, <3>1 DEF start, seq
  <2> QED
    BY <2>1, <2>2
<1> QED
  BY <1>5, <1>6

\* A replay begins no later than it ends.
LEMMA PlanBounds ==
  ASSUME TypeOK, NEW c \in Client
  PROVE  written \in Nat /\ Plan(c).base \in Nat /\ Plan(c).base <= written
<1> DEFINE start == StartOf(Held(c))
           base == Plan(c).base
<1>1. written \in 0..MaxWritten /\ tailStart \in 0..written
  BY DEF TypeOK
<1>2. MaxWritten \in Nat
  BY ConstantsAssumption
<1>3. start \in 0..tailStart
  BY HeldIsTail
<1>4. base \in start..written /\ base \in Nat
  BY PlanBase
<1> HIDE DEF start, base
<1>5. written \in Nat /\ tailStart \in Nat
  BY <1>1, <1>2
<1>6. start \in Nat
  BY <1>3, <1>5
<1>7. base \in Nat /\ base <= written
  BY <1>4, <1>5, <1>6
<1> QED
  BY <1>5, <1>7 DEF base

\* The number of events of a replay before its output.
Lead(c) == IF Plan(c).withCheckpoint THEN 2 ELSE 1

\* Where the events of two sequences are after they have been joined.
LEMMA EventsJoined ==
  ASSUME NEW s \in Seq(Events), NEW t \in Seq(Events)
  PROVE  /\ s \o t \in Seq(Events) /\ Len(s \o t) = Len(s) + Len(t)
         /\ Len(s) \in Nat /\ Len(t) \in Nat
         /\ \A i \in 1..Len(s) : (s \o t)[i] = s[i]
         /\ \A i \in 1..Len(t) : (s \o t)[Len(s) + i] = t[i]
OBVIOUS

\* The events of a replay, one by one.
LEMMA ReplayEvents ==
  ASSUME TypeOK, NEW c \in Client
  PROVE  /\ Replay(c) \in Seq(Events)
         /\ Len(Replay(c)) = Lead(c) + (written - Plan(c).base) + 1
         /\ Replay(c)[1] = Begin(Plan(c).reset, Plan(c).base)
         /\ Lead(c) = 2 => Replay(c)[2] = CheckpointChunk(checkpoint.ansi)
         /\ \A i \in 1..(written - Plan(c).base) : Replay(c)[Lead(c) + i] = Output(Plan(c).base + i)
         /\ Replay(c)[Len(Replay(c))] = End(written)
<1> DEFINE base == Plan(c).base
           first == <<Begin(Plan(c).reset, base)>>
           second == IF Plan(c).withCheckpoint THEN <<CheckpointChunk(checkpoint.ansi)>> ELSE <<>>
           third == [i \in 1..(written - base) |-> Output(base + i)]
           last == <<End(written)>>
<1>1. /\ written \in 0..MaxWritten /\ written \in Nat /\ MaxWritten \in Nat
      /\ base \in StartOf(Held(c))..written /\ base \in Nat /\ Plan(c).reset \in BOOLEAN
  <2>1. /\ Plan(c).base \in StartOf(Held(c))..written /\ Plan(c).base \in Nat
        /\ Plan(c).reset \in BOOLEAN
    BY PlanBase
  <2>2. written \in 0..MaxWritten /\ written \in Nat /\ MaxWritten \in Nat
    BY ConstantsAssumption DEF TypeOK
  <2> QED
    BY <2>1, <2>2
<1>2. {n \in Held(c) : n > base} = (base + 1)..written
  <2> DEFINE start == StartOf(Held(c))
  <2>1. start \in 0..tailStart /\ tailStart \in 0..written /\ Held(c) = (start + 1)..written
    BY HeldIsTail DEF TypeOK
  <2>2. base \in start..written /\ base \in Nat
    BY <1>1
  <2> HIDE DEF start, base
  <2> QED
    BY <1>1, <2>1, <2>2
<1>3. InOrder({n \in Held(c) : n > base}) = [i \in 1..(written - base) |-> base + i]
  <2>1. base <= written
    BY <1>1
  <2> QED
    BY <1>1, <1>2, <2>1, IntervalInOrder
<1>4. Replay(c) = first \o second \o third \o last
  BY <1>3 DEF Replay, Plan
<1>5. first \in Seq(Events) /\ Len(first) = 1 /\ first[1] = Begin(Plan(c).reset, base)
  <2>1. Begin(Plan(c).reset, base) \in Events
    BY <1>1 DEF Begin, Events
  <2> QED
    BY <2>1
<1>6. /\ second \in Seq(Events) /\ Len(second) = Lead(c) - 1
      /\ Lead(c) = 2 => second[1] = CheckpointChunk(checkpoint.ansi)
  <2>1. CASE Plan(c).withCheckpoint
    <3>1. checkpoint.ansi \in Seq(Byte)
      BY <2>1, PlanBase DEF TypeOK, Checkpoint
    <3>2. CheckpointChunk(checkpoint.ansi) \in Events
      BY <3>1 DEF CheckpointChunk, Events
    <3> QED
      BY <2>1, <3>2 DEF Lead
  <2>2. CASE ~Plan(c).withCheckpoint
    <3>1. second = <<>> /\ Lead(c) = 1
      BY <2>2 DEF Lead
    <3> QED
      BY <3>1, EmptySeq
  <2> QED
    BY <2>1, <2>2
<1>7. third \in Seq(Events) /\ Len(third) = written - base
  <2>1. \A i \in 1..(written - base) : Output(base + i) \in Events
    BY <1>1 DEF Output, Events, Byte
  <2>2. written - base \in Nat
    BY <1>1
  <2> QED
    BY <2>1, <2>2
<1>8. last \in Seq(Events) /\ Len(last) = 1 /\ last[1] = End(written)
  <2>1. End(written) \in Events
    BY <1>1 DEF End, Events
  <2> QED
    BY <2>1
<1>9. \A i \in 1..(written - base) : third[i] = Output(base + i)
  OBVIOUS
<1>10. Lead(c) \in {1, 2} /\ written - base \in Nat
  BY <1>1 DEF Lead
<1> HIDE DEF first, second, third, last
<1>11. /\ first \o second \in Seq(Events) /\ Len(first \o second) = Lead(c)
       /\ (first \o second)[1] = Begin(Plan(c).reset, base)
       /\ Lead(c) = 2 => (first \o second)[2] = CheckpointChunk(checkpoint.ansi)
  <2>1. /\ first \o second \in Seq(Events) /\ Len(first \o second) = Len(first) + Len(second)
        /\ \A i \in 1..Len(first) : (first \o second)[i] = first[i]
        /\ \A i \in 1..Len(second) : (first \o second)[Len(first) + i] = second[i]
    BY <1>5, <1>6, EventsJoined, Zenon
  <2>2. 1 \in 1..Len(first) /\ (Lead(c) = 2 => 1 \in 1..Len(second))
    BY <1>5, <1>6
  <2>3. Len(first \o second) = Lead(c)
    BY <1>5, <1>6, <1>10, <2>1
  <2>4. Lead(c) = 2 => (first \o second)[2] = second[1]
    BY <1>5, <2>1, <2>2
  <2> QED
    BY <1>5, <1>6, <2>1, <2>2, <2>3, <2>4
<1> DEFINE lead == first \o second
<1> HIDE DEF lead
<1>12. /\ lead \o third \in Seq(Events) /\ Len(lead \o third) = Lead(c) + (written - base)
       /\ (lead \o third)[1] = Begin(Plan(c).reset, base)
       /\ Lead(c) = 2 => (lead \o third)[2] = CheckpointChunk(checkpoint.ansi)
       /\ \A i \in 1..(written - base) : (lead \o third)[Lead(c) + i] = Output(base + i)
  <2>1. lead \in Seq(Events) /\ Len(lead) = Lead(c)
    BY <1>11 DEF lead
  <2>2. /\ lead \o third \in Seq(Events) /\ Len(lead \o third) = Len(lead) + Len(third)
        /\ \A i \in 1..Len(lead) : (lead \o third)[i] = lead[i]
        /\ \A i \in 1..Len(third) : (lead \o third)[Len(lead) + i] = third[i]
    BY <1>7, <2>1, EventsJoined, Zenon
  <2>3. 1 \in 1..Len(lead) /\ (Lead(c) = 2 => 2 \in 1..Len(lead))
    BY <1>10, <2>1
  <2> QED
    BY <1>7, <1>9, <1>11, <2>1, <2>2, <2>3 DEF lead
<1> DEFINE body == lead \o third
<1>13. body \in Seq(Events)
  BY <1>12
<1> HIDE DEF body
<1>14. /\ body \o last \in Seq(Events) /\ Len(body \o last) = Len(body) + 1
       /\ \A i \in 1..Len(body) : (body \o last)[i] = body[i]
       /\ (body \o last)[Len(body) + 1] = End(written)
  <2>1. /\ body \o last \in Seq(Events) /\ Len(body \o last) = Len(body) + Len(last)
        /\ \A i \in 1..Len(body) : (body \o last)[i] = body[i]
        /\ \A i \in 1..Len(last) : (body \o last)[Len(body) + i] = last[i]
    BY <1>8, <1>13, EventsJoined, Zenon
  <2>2. 1 \in 1..Len(last)
    BY <1>8
  <2> QED
    BY <1>8, <2>1, <2>2
<1>17. Replay(c) = body \o last
  BY <1>4 DEF body, lead
<1>18. Len(body) = Lead(c) + (written - base)
  BY <1>12 DEF body
<1>19. \A i \in 1..(written - base) : Lead(c) + i \in 1..Len(body)
  BY <1>10, <1>18
<1>20. 1 \in 1..Len(body) /\ (Lead(c) = 2 => 2 \in 1..Len(body))
  BY <1>10, <1>18
<1>21. Replay(c)[1] = Begin(Plan(c).reset, base)
  BY <1>12, <1>14, <1>17, <1>20 DEF body
<1>22. Lead(c) = 2 => Replay(c)[2] = CheckpointChunk(checkpoint.ansi)
  BY <1>12, <1>14, <1>17, <1>20 DEF body
<1>23. \A i \in 1..(written - base) : Replay(c)[Lead(c) + i] = Output(base + i)
  BY <1>12, <1>14, <1>17, <1>19 DEF body
<1>24. Len(Replay(c)) = Len(body) + 1
  BY <1>14, <1>17
<1>25. Replay(c)[Len(Replay(c))] = End(written)
  BY <1>14, <1>17, <1>24
<1> QED
  BY <1>14, <1>17, <1>18, <1>21, <1>22, <1>23, <1>24, <1>25

-----------------------------------------------------------------------------
(* Chains of events.                                                       *)

LEMMA EventKinds ==
  ASSUME NEW e \in Events
  PROVE  /\ e.kind \in {"begin", "checkpoint", "output", "end", "slow"}
         /\ e.kind = "begin" => e.base \in 0..MaxWritten /\ e.reset \in BOOLEAN
         /\ e.kind = "checkpoint" => e.ansi \in Seq(Byte)
         /\ e.kind = "output" => e.byte \in Byte
         /\ e.kind = "end" => e.next \in 0..MaxWritten
BY DEF Events

\* What one event does to the position.
LEMMA AfterEvent ==
  ASSUME NEW s \in Seq(Events), NEW p, NEW i \in 1..Len(s)
  PROVE  /\ s[i] \in Events /\ s[i].kind \in {"begin", "checkpoint", "output", "end", "slow"}
         /\ s[i].kind = "begin" => After(s, p, i) = s[i].base
         /\ s[i].kind = "output" => After(s, p, i) = s[i].byte
         /\ s[i].kind = "end" => After(s, p, i) = s[i].next
         /\ s[i].kind = "checkpoint" => After(s, p, i) = IF i = 1 THEN p ELSE s[i - 1].base
         /\ s[i].kind = "slow" => After(s, p, i) = 0
<1>1. s[i] \in Events
  OBVIOUS
<1>2. s[i].kind \in {"begin", "checkpoint", "output", "end", "slow"}
  BY <1>1, EventKinds
<1>3. i # 0
  OBVIOUS
<1> DEFINE k == s[i].kind
           before == IF i = 1 THEN p ELSE s[i - 1].base
<1>4. After(s, p, i) = CASE k = "begin" -> s[i].base
                         [] k = "output" -> s[i].byte
                         [] k = "end" -> s[i].next
                         [] k = "checkpoint" -> before
                         [] k = "slow" -> 0
  BY <1>3 DEF After
<1> HIDE DEF before
<1>5. k = "checkpoint" => After(s, p, i) = before
  BY <1>4
<1> QED
  BY <1>1, <1>2, <1>4, <1>5 DEF before

\* Two chains that agree so far have the same position.
LEMMA SameAfter ==
  ASSUME NEW s \in Seq(Events), NEW t \in Seq(Events), NEW p,
         NEW n \in Nat, n <= Len(s), n <= Len(t), \A i \in 1..n : s[i] = t[i]
  PROVE  \A i \in 0..n : After(s, p, i) = After(t, p, i)
<1>1. ASSUME NEW i \in 0..n
      PROVE  After(s, p, i) = After(t, p, i)
  <2>1. CASE i = 0
    BY <2>1 DEF After
  <2>2. CASE i # 0
    <3>1. i \in 1..Len(s) /\ i \in 1..Len(t) /\ s[i] = t[i]
      BY <2>2
    <3>2. i = 1 \/ (i - 1 \in 1..n /\ s[i - 1] = t[i - 1])
      BY <2>2
    <3> QED
      BY <3>1, <3>2, AfterEvent
  <2> QED
    BY <2>1, <2>2
<1> QED
  BY <1>1

\* A chain without a warning can be cut anywhere.
LEMMA ChainPrefix ==
  ASSUME NEW s \in Seq(Events), NEW p, Chained(s, p), NEW n \in 0..Len(s),
         \A i \in 1..Len(s) : s[i].kind # "slow"
  PROVE  /\ SubSeq(s, 1, n) \in Seq(Events) /\ Len(SubSeq(s, 1, n)) = n
         /\ \A i \in 1..n : SubSeq(s, 1, n)[i] = s[i]
         /\ Chained(SubSeq(s, 1, n), p)
         /\ \A i \in 0..n : After(SubSeq(s, 1, n), p, i) = After(s, p, i)
<1> DEFINE t == SubSeq(s, 1, n)
<1>1. t \in Seq(Events) /\ Len(t) = n /\ \A i \in 1..n : t[i] = s[i]
  OBVIOUS
<1>2. n \in Nat /\ n <= Len(s)
  OBVIOUS
<1> HIDE DEF t
<1>3. \A i \in 0..n : After(t, p, i) = After(s, p, i)
  BY <1>1, <1>2, SameAfter
<1>4. Chained(t, p)
  <2>1. SUFFICES ASSUME NEW i \in 1..n
                 PROVE  /\ t[i].kind = "output" => t[i].byte = After(t, p, i - 1) + 1
                        /\ t[i].kind = "end" => t[i].next = After(t, p, i - 1)
                        /\ t[i].kind = "checkpoint" => i = 1 \/ t[i - 1].kind = "begin"
                        /\ t[i].kind = "slow" => i = Len(t)
    BY <1>1 DEF Chained
  <2>2. i \in 1..Len(s) /\ i - 1 \in 0..n /\ (i = 1 \/ i - 1 \in 1..n) /\ t[i] = s[i]
    BY <1>1, <1>2
  <2>3. After(t, p, i - 1) = After(s, p, i - 1)
    BY <1>3, <2>2
  <2>4. i = 1 \/ t[i - 1] = s[i - 1]
    BY <1>1, <2>2
  <2> QED
    BY <2>2, <2>3, <2>4 DEF Chained
<1> QED
  BY <1>1, <1>3, <1>4 DEF t

\* An event that follows on a chain without a warning prolongs it.
LEMMA ChainAppend ==
  ASSUME NEW s \in Seq(Events), NEW p, Chained(s, p), NEW e \in Events,
         \A i \in 1..Len(s) : s[i].kind # "slow",
         \/ e.kind = "output" /\ e.byte = After(s, p, Len(s)) + 1
         \/ e.kind = "slow"
  PROVE  /\ Append(s, e) \in Seq(Events) /\ Len(Append(s, e)) = Len(s) + 1 /\ Len(s) \in Nat
         /\ \A i \in 1..Len(s) : Append(s, e)[i] = s[i]
         /\ Append(s, e)[Len(s) + 1] = e
         /\ Chained(Append(s, e), p)
         /\ \A i \in 0..Len(s) : After(Append(s, e), p, i) = After(s, p, i)
         /\ e.kind = "output" => After(Append(s, e), p, Len(s) + 1) = e.byte
<1> DEFINE t == Append(s, e)
           n == Len(s)
<1>1. /\ t \in Seq(Events) /\ Len(t) = n + 1 /\ n \in Nat
      /\ \A i \in 1..n : t[i] = s[i]
      /\ t[n + 1] = e
  OBVIOUS
<1> HIDE DEF t
<1>2. \A i \in 0..n : After(t, p, i) = After(s, p, i)
  BY <1>1, SameAfter
<1>3. Chained(t, p)
  <2>1. SUFFICES ASSUME NEW i \in 1..(n + 1)
                 PROVE  /\ t[i].kind = "output" => t[i].byte = After(t, p, i - 1) + 1
                        /\ t[i].kind = "end" => t[i].next = After(t, p, i - 1)
                        /\ t[i].kind = "checkpoint" => i = 1 \/ t[i - 1].kind = "begin"
                        /\ t[i].kind = "slow" => i = Len(t)
    BY <1>1 DEF Chained
  <2>2. After(t, p, i - 1) = After(s, p, i - 1)
    BY <1>1, <1>2
  <2>3. CASE i = n + 1
    BY <1>1, <2>2, <2>3
  <2>4. CASE i # n + 1
    <3>1. i \in 1..Len(s) /\ t[i] = s[i] /\ (i = 1 \/ t[i - 1] = s[i - 1])
      BY <1>1, <2>4
    <3> QED
      BY <2>2, <3>1 DEF Chained
  <2> QED
    BY <2>3, <2>4
<1>4. e.kind = "output" => After(t, p, n + 1) = e.byte
  <2>1. n + 1 \in 1..Len(t)
    BY <1>1
  <2> QED
    BY <1>1, <2>1, AfterEvent
<1> QED
  BY <1>1, <1>2, <1>3, <1>4 DEF t

\* What is left of a chain when its first event has been received.
LEMMA ChainTail ==
  ASSUME NEW s \in Seq(Events), NEW p, Chained(s, p), s # <<>>
  PROVE  /\ Tail(s) \in Seq(Events) /\ Len(Tail(s)) = Len(s) - 1 /\ Len(s) \in Nat \ {0}
         /\ Head(s) = s[1] /\ 1 \in 1..Len(s) /\ s[1] \in Events
         /\ \A i \in 1..(Len(s) - 1) : Tail(s)[i] = s[i + 1]
         /\ Chained(Tail(s), After(s, p, 1))
         /\ \A i \in 0..(Len(s) - 1) : After(Tail(s), After(s, p, 1), i) = After(s, p, i + 1)
<1> DEFINE t == Tail(s)
           q == After(s, p, 1)
<1>1. /\ t \in Seq(Events) /\ Len(t) = Len(s) - 1 /\ Len(s) \in Nat \ {0}
      /\ Head(s) = s[1] /\ 1 \in 1..Len(s) /\ s[1] \in Events
      /\ \A i \in 1..(Len(s) - 1) : t[i] = s[i + 1]
  OBVIOUS
<1> HIDE DEF t, q
<1>2. ASSUME NEW i \in 0..(Len(s) - 1)
      PROVE  After(t, q, i) = After(s, p, i + 1)
  <2>1. CASE i = 0
    BY <2>1 DEF After, q
  <2>2. CASE i # 0
    <3>1. i \in 1..Len(t) /\ i + 1 \in 1..Len(s) /\ t[i] = s[i + 1]
      BY <1>1, <2>2
    <3>4. /\ t[i].kind \in {"begin", "checkpoint", "output", "end", "slow"}
          /\ t[i].kind = "begin" => After(t, q, i) = t[i].base
          /\ t[i].kind = "output" => After(t, q, i) = t[i].byte
          /\ t[i].kind = "end" => After(t, q, i) = t[i].next
          /\ t[i].kind = "checkpoint" => After(t, q, i) = IF i = 1 THEN q ELSE t[i - 1].base
          /\ t[i].kind = "slow" => After(t, q, i) = 0
      <4>1. t \in Seq(Events) /\ i \in 1..Len(t)
        BY <1>1, <3>1
      <4>2. t[i].kind \in {"begin", "checkpoint", "output", "end", "slow"}
        BY <4>1, AfterEvent
      <4>3. t[i].kind = "begin" => After(t, q, i) = t[i].base
        BY <4>1, AfterEvent
      <4>4. t[i].kind = "output" => After(t, q, i) = t[i].byte
        BY <4>1, AfterEvent
      <4>5. t[i].kind = "end" => After(t, q, i) = t[i].next
        BY <4>1, AfterEvent
      <4>6. t[i].kind = "checkpoint" => After(t, q, i) = IF i = 1 THEN q ELSE t[i - 1].base
        BY <4>1, AfterEvent
      <4>7. t[i].kind = "slow" => After(t, q, i) = 0
        BY <4>1, AfterEvent
      <4> QED
        BY <4>2, <4>3, <4>4, <4>5, <4>6, <4>7
    <3>2. CASE t[i].kind # "checkpoint"
      BY <3>1, <3>2, <3>4, AfterEvent
    <3>3. CASE t[i].kind = "checkpoint"
      <4>1. After(s, p, i + 1) = s[i].base /\ s[i].kind = "begin" /\ i \in 1..Len(s)
        <5>1. s[i + 1].kind = "checkpoint" /\ i + 1 # 1 /\ i + 1 - 1 = i
          BY <3>1, <3>3, <2>2
        <5>2. After(s, p, i + 1) = s[i].base
          BY <3>1, <5>1, AfterEvent
        <5>3. s[i].kind = "begin"
          BY <3>1, <5>1 DEF Chained
        <5> QED
          BY <3>1, <5>2, <5>3, <2>2
      <4>2. After(t, q, i) = IF i = 1 THEN q ELSE t[i - 1].base
        BY <3>3, <3>4
      <4>3. CASE i = 1
        BY <1>1, <4>1, <4>2, <4>3, AfterEvent DEF q
      <4>4. CASE i # 1
        <5>1. t[i - 1] = s[i]
          BY <1>1, <2>2, <4>4
        <5> QED
          BY <4>1, <4>2, <4>4, <5>1
      <4> QED
        BY <4>3, <4>4
    <3> QED
      BY <3>2, <3>3
  <2> QED
    BY <2>1, <2>2
<1>3. Chained(t, q)
  <2>1. SUFFICES ASSUME NEW i \in 1..(Len(s) - 1)
                 PROVE  /\ t[i].kind = "output" => t[i].byte = After(t, q, i - 1) + 1
                        /\ t[i].kind = "end" => t[i].next = After(t, q, i - 1)
                        /\ t[i].kind = "checkpoint" => i = 1 \/ t[i - 1].kind = "begin"
                        /\ t[i].kind = "slow" => i = Len(t)
    BY <1>1 DEF Chained
  <2>2. i + 1 \in 1..Len(s) /\ t[i] = s[i + 1] /\ (i = 1 \/ t[i - 1] = s[i])
    BY <1>1
  <2>3. After(t, q, i - 1) = After(s, p, i)
    BY <1>1, <1>2
  <2>4. /\ s[i + 1].kind = "output" => s[i + 1].byte = After(s, p, i) + 1
        /\ s[i + 1].kind = "end" => s[i + 1].next = After(s, p, i)
        /\ s[i + 1].kind = "checkpoint" => s[i].kind = "begin"
        /\ s[i + 1].kind = "slow" => i + 1 = Len(s)
    <3>1. i + 1 - 1 = i /\ i + 1 # 1
      OBVIOUS
    <3> QED
      BY <2>2, <3>1 DEF Chained
  <2> QED
    BY <1>1, <2>2, <2>3, <2>4
<1> QED
  BY <1>1, <1>2, <1>3 DEF t, q

\* A replay is a chain from wherever, and ends at what has been written.
LEMMA ReplayChained ==
  ASSUME TypeOK, NEW c \in Client, NEW p
  PROVE  /\ Chained(Replay(c), p)
         /\ \A i \in 1..Len(Replay(c)) :
              /\ Replay(c)[i].kind # "slow"
              /\ After(Replay(c), p, i) \in Nat /\ After(Replay(c), p, i) <= written
         /\ After(Replay(c), p, Len(Replay(c))) = written
<1> DEFINE r == Replay(c)
           base == Plan(c).base
           l == Lead(c)
<1>1. /\ written \in Nat /\ base \in Nat /\ base <= written /\ l \in {1, 2}
      /\ r \in Seq(Events) /\ Len(r) = l + (written - base) + 1
  <2>1. written \in Nat /\ StartOf(Held(c)) \in Nat
    BY HeldIsTail, ConstantsAssumption DEF TypeOK
  <2>2. base \in StartOf(Held(c))..written /\ base \in Nat
    BY PlanBase
  <2> QED
    BY <2>1, <2>2, ReplayEvents DEF Lead
<1>2. /\ r[1].kind = "begin" /\ r[1].base = base
      /\ l = 2 => r[2].kind = "checkpoint"
      /\ \A i \in 1..(written - base) : r[l + i].kind = "output" /\ r[l + i].byte = base + i
      /\ r[Len(r)].kind = "end" /\ r[Len(r)].next = written
  <2>1. /\ r[1] = Begin(Plan(c).reset, base)
        /\ l = 2 => r[2] = CheckpointChunk(checkpoint.ansi)
        /\ \A i \in 1..(written - base) : r[l + i] = Output(base + i)
        /\ r[Len(r)] = End(written)
    BY ReplayEvents
  <2> HIDE DEF r, base, l
  <2> QED
    <3>1. r[1].kind = "begin" /\ r[1].base = base
      BY <2>1 DEF Begin
    <3>2. l = 2 => r[2].kind = "checkpoint"
      BY <2>1 DEF CheckpointChunk
    <3>3. \A i \in 1..(written - base) : r[l + i].kind = "output" /\ r[l + i].byte = base + i
      <4>1. SUFFICES ASSUME NEW i \in 1..(written - base)
                     PROVE  r[l + i].kind = "output" /\ r[l + i].byte = base + i
        OBVIOUS
      <4>2. r[l + i] = Output(base + i)
        BY <2>1
      <4> QED
        BY <4>2 DEF Output
    <3>4. r[Len(r)].kind = "end" /\ r[Len(r)].next = written
      BY <2>1 DEF End
    <3> QED
      BY <3>1, <3>2, <3>3, <3>4
<1> HIDE DEF r, base, l
<1>3. \A i \in 1..Len(r) : \/ i = 1
                           \/ i = 2 /\ l = 2
                           \/ i - l \in 1..(written - base)
                           \/ i = Len(r)
  BY <1>1
<1>4. \A i \in 1..Len(r) : i - l \in 1..(written - base) =>
        r[i].kind = "output" /\ r[i].byte = base + (i - l)
  <2>1. SUFFICES ASSUME NEW i \in 1..Len(r), i - l \in 1..(written - base)
                 PROVE  r[i].kind = "output" /\ r[i].byte = base + (i - l)
    OBVIOUS
  <2>2. l + (i - l) = i
    BY <1>1
  <2> QED
    BY <1>2, <2>1, <2>2
<1>5. \A i \in 1..Len(r) : After(r, p, i) = IF i <= l THEN base
                                            ELSE IF i = Len(r) THEN written ELSE base + (i - l)
  <2>1. SUFFICES ASSUME NEW i \in 1..Len(r)
                 PROVE  After(r, p, i) = IF i <= l THEN base
                                         ELSE IF i = Len(r) THEN written ELSE base + (i - l)
    OBVIOUS
  <2>2. CASE i = 1
    BY <1>1, <1>2, <2>2, AfterEvent
  <2>3. CASE i = 2 /\ l = 2
    BY <1>1, <1>2, <2>3, AfterEvent
  <2>4. CASE i - l \in 1..(written - base)
    <3>1. After(r, p, i) = base + (i - l)
      BY <1>1, <1>4, <2>4, AfterEvent
    <3> QED
      BY <1>1, <2>4, <3>1
  <2>5. CASE i = Len(r)
    <3>1. After(r, p, i) = written
      BY <1>1, <1>2, <2>5, AfterEvent
    <3> QED
      BY <1>1, <2>5, <3>1
  <2> QED
    BY <1>3, <2>2, <2>3, <2>4, <2>5
<1>6. \A i \in 1..Len(r) : r[i].kind # "slow"
  BY <1>1, <1>2, <1>3, <1>4
<1>7. Chained(r, p)
  <2>1. SUFFICES ASSUME NEW i \in 1..Len(r)
                 PROVE  /\ r[i].kind = "output" => r[i].byte = After(r, p, i - 1) + 1
                        /\ r[i].kind = "end" => r[i].next = After(r, p, i - 1)
                        /\ r[i].kind = "checkpoint" => i = 1 \/ r[i - 1].kind = "begin"
                        /\ r[i].kind = "slow" => i = Len(r)
    BY DEF Chained
  <2>2. CASE i = 1
    BY <1>2, <2>2
  <2>3. CASE i = 2 /\ l = 2
    BY <1>2, <2>3
  <2>4. CASE i - l \in 1..(written - base)
    <3>1. i - 1 \in 1..Len(r) /\ After(r, p, i - 1) = base + (i - l) - 1
      BY <1>1, <1>5, <2>4
    <3> QED
      BY <1>1, <1>4, <2>4, <3>1
  <2>5. CASE i = Len(r)
    <3>1. i - 1 \in 1..Len(r) /\ After(r, p, i - 1) = written
      BY <1>1, <1>5, <2>5
    <3> QED
      BY <1>2, <2>5, <3>1
  <2> QED
    BY <1>3, <2>2, <2>3, <2>4, <2>5
<1>8. \A i \in 1..Len(r) : After(r, p, i) \in Nat /\ After(r, p, i) <= written
  BY <1>1, <1>5
<1>9. After(r, p, Len(r)) = written
  BY <1>1, <1>5
<1> QED
  BY <1>6, <1>7, <1>8, <1>9 DEF r

-----------------------------------------------------------------------------
(* Types, action by action.                                                *)

LEMMA InitType == Init => TypeOK
BY ConstantsAssumption DEF Init, TypeOK, Phase

LEMMA ProduceType ==
  ASSUME TypeOK, Produce
  PROVE  TypeOK'
<1> DEFINE room == {c \in subscribers : Len(channel[c]) < ClientCap}
<1>1. /\ written' = written + 1 /\ written' \in 0..MaxWritten /\ written' \in Byte /\ written \in Nat
  BY ConstantsAssumption DEF TypeOK, Produce, Byte
<1>2. tailStart' \in 0..written' /\ written' - tailStart' <= MemoryCap
  BY <1>1, ConstantsAssumption DEF TypeOK, Produce
<1>3. Output(written') \in Events
  BY <1>1 DEF Output, Events
<1>4. channel' \in [Client -> Seq(Events)]
  BY <1>3 DEF TypeOK, Produce
<1>5. subscribers' \subseteq Client /\ notice' \in [Client -> BOOLEAN]
  BY DEF TypeOK, Produce
<1>6. unqueued' \in 0..written' /\ disk' \subseteq 1..written'
  BY <1>1 DEF TypeOK, Produce
<1>7. journal' \in Seq(JournalOp') /\ Len(journal') <= JournalCap
  <2>1. JournalOp \subseteq JournalOp'
    BY <1>1 DEF JournalOp
  <2>2. journal' = journal /\ journal \in Seq(JournalOp) /\ Len(journal) <= JournalCap
    BY DEF TypeOK, Produce
  <2> QED
    BY <2>1, <2>2
<1>8. checkpoint' \in Checkpoint \cup {None} /\ (checkpoint' # None => checkpoint'.through <= written')
  BY <1>1, ConstantsAssumption DEF TypeOK, Produce, Checkpoint
<1>9. UNCHANGED <<storing, phase, known, after, nextSeq, parsedSeq, unparsed, screen, snapshot, spent>>
  BY DEF Produce, terminalVars
<1> QED
  BY <1>1, <1>2, <1>4, <1>5, <1>6, <1>7, <1>8, <1>9 DEF TypeOK

LEMMA EnqueueOutputType ==
  ASSUME TypeOK, EnqueueOutput
  PROVE  TypeOK'
<1> DEFINE op == [op |-> "append", at |-> unqueued]
<1>1. journal' \in Seq(JournalOp) /\ Len(journal') <= JournalCap
  <2>1. op \in JournalOp
    BY ConstantsAssumption DEF TypeOK, EnqueueOutput, JournalOp
  <2>2. journal \in Seq(JournalOp) /\ Len(journal) <= JournalCap
    BY DEF TypeOK
  <2>3. journal' = IF Len(journal) < JournalCap THEN Append(journal, op) ELSE journal
    BY DEF EnqueueOutput
  <2> HIDE DEF op
  <2> QED
    BY <2>1, <2>2, <2>3, ConstantsAssumption
<1>2. /\ unqueued' = 0
      /\ UNCHANGED <<written, tailStart, checkpoint, subscribers, disk, storing, phase, known, after, channel,
                     notice, nextSeq, parsedSeq, unparsed, screen, snapshot, spent>>
  BY DEF EnqueueOutput, terminalVars
<1>3. JournalOp' = JournalOp
  BY <1>2 DEF JournalOp
<1>4. written \in Nat
  BY ConstantsAssumption DEF TypeOK
<1> QED
  BY <1>1, <1>2, <1>3, <1>4 DEF TypeOK

\* The journal writer keeps to what has been written.
LEMMA JournalWriterType ==
  ASSUME TypeOK, JournalWriter
  PROVE  TypeOK'
<1>1. journal \in Seq(JournalOp) /\ journal # <<>> /\ Len(journal) <= JournalCap
  BY DEF TypeOK, JournalWriter
<1>2. Head(journal) \in JournalOp /\ Tail(journal) \in Seq(JournalOp) /\ Len(Tail(journal)) <= JournalCap
  BY <1>1, ConstantsAssumption
<1>3. disk' \subseteq 1..written
  <2> DEFINE o == Head(journal)
  <2>1. disk \subseteq 1..written /\ disk' = Apply(disk, o) /\ o \in JournalOp
    BY <1>2 DEF TypeOK, JournalWriter
  <2> HIDE DEF o
  <2>2. CASE o.op = "append"
    <3>1. o.at \in 1..written
      BY <2>1, <2>2 DEF JournalOp
    <3>2. Apply(disk, o) = {n \in disk \cup {o.at} : n > BackUpTo(o.at, DiskCap)}
      BY <2>2 DEF Apply
    <3> QED
      BY <2>1, <3>1, <3>2
  <2>3. CASE o.op = "checkpoint"
    <3>1. Apply(disk, o) = {n \in disk : n > o.at}
      BY <2>3 DEF Apply
    <3> QED
      BY <2>1, <3>1
  <2>4. o.op \in {"append", "checkpoint"}
    BY <2>1 DEF JournalOp
  <2> QED
    BY <2>2, <2>3, <2>4
<1>4. /\ journal' = Tail(journal)
      /\ UNCHANGED <<written, tailStart, checkpoint, subscribers, unqueued, storing, phase, known, after, channel,
                     notice, nextSeq, parsedSeq, unparsed, screen, snapshot, spent>>
  BY DEF JournalWriter, terminalVars
<1>5. JournalOp' = JournalOp
  BY <1>4 DEF JournalOp
<1> QED
  BY <1>2, <1>3, <1>4, <1>5 DEF TypeOK

\* What every action of a terminal but SaveCheckpoint and QueueCheckpoint
\* leaves alone.
SessionKept == UNCHANGED <<written, tailStart, checkpoint, unqueued, journal, disk, storing>>

TerminalTyped ==
  /\ subscribers \subseteq Client
  /\ phase \in [Client -> Phase]
  /\ known \in [Client -> BOOLEAN] /\ notice \in [Client -> BOOLEAN]
  /\ after \in [Client -> 0..MaxWritten \cup {None}]
  /\ channel \in [Client -> Seq(Events)]
  /\ nextSeq \in [Client -> 0..MaxWritten] /\ parsedSeq \in [Client -> 0..MaxWritten]
  /\ unparsed \in [Client -> Seq(Chunk)]
  /\ screen \in [Client -> Seq(Byte)]
  /\ snapshot \in [Client -> Checkpoint \cup {None}]
  /\ spent \in [connects : 0..MaxConnects, snapshots : 0..MaxSnapshots]

LEMMA TypeParts ==
  /\ TypeOK => TerminalTyped
  /\ TypeOK /\ SessionKept /\ TerminalTyped' => TypeOK'
<1>1. TypeOK => TerminalTyped
  BY DEF TypeOK, TerminalTyped
<1>2. ASSUME TypeOK, SessionKept, TerminalTyped'
      PROVE  TypeOK'
  <2>1. JournalOp' = JournalOp
    BY <1>2 DEF SessionKept, JournalOp
  <2> QED
    BY <1>2, <2>1 DEF TypeOK, SessionKept, TerminalTyped
<1> QED
  BY <1>1, <1>2

LEMMA UntrackType ==
  ASSUME NEW s \in Seq(Chunk)
  PROVE  /\ Untrack(s) \in Seq(Chunk) /\ Len(Untrack(s)) = Len(s) /\ (s = <<>> => Untrack(s) = <<>>)
         /\ \A i \in 1..Len(s) : Untrack(s)[i] = [s[i] EXCEPT !.end = None]
<1>1. Untrack(s) = [i \in 1..Len(s) |-> [s[i] EXCEPT !.end = None]] /\ Len(s) \in Nat
  BY DEF Untrack
<1>2. \A i \in 1..Len(s) : [s[i] EXCEPT !.end = None] \in Chunk
  <2>1. SUFFICES ASSUME NEW i \in 1..Len(s) PROVE [s[i] EXCEPT !.end = None] \in Chunk
    OBVIOUS
  <2>2. s[i] \in Chunk
    OBVIOUS
  <2> QED
    BY <2>2 DEF Chunk
<1>3. Untrack(s) \in Seq(Chunk) /\ Len(Untrack(s)) = Len(s)
  BY <1>1, <1>2
<1>4. s = <<>> => Untrack(s) = <<>>
  BY <1>3, EmptySeq
<1> QED
  BY <1>1, <1>3, <1>4

LEMMA ReattachType ==
  ASSUME TerminalTyped, NEW c \in Client, NEW seq \in 0..MaxWritten \cup {None}, Reattach(c, seq)
  PROVE  /\ phase' \in [Client -> Phase] /\ known' \in [Client -> BOOLEAN]
         /\ after' \in [Client -> 0..MaxWritten \cup {None}]
         /\ nextSeq' \in [Client -> 0..MaxWritten] /\ parsedSeq' \in [Client -> 0..MaxWritten]
         /\ unparsed' \in [Client -> Seq(Chunk)]
BY DEF TerminalTyped, Reattach, Phase

LEMMA RespawnType ==
  ASSUME TerminalTyped, NEW c \in Client, Respawn(c)
  PROVE  /\ phase' \in [Client -> Phase] /\ known' \in [Client -> BOOLEAN]
         /\ after' \in [Client -> 0..MaxWritten \cup {None}]
         /\ nextSeq' \in [Client -> 0..MaxWritten] /\ parsedSeq' \in [Client -> 0..MaxWritten]
         /\ unparsed' \in [Client -> Seq(Chunk)]
<1>1. Untrack(unparsed[c]) \in Seq(Chunk)
  BY UntrackType DEF TerminalTyped
<1>2. unparsed' \in [Client -> Seq(Chunk)]
  BY <1>1 DEF TerminalTyped, Respawn
<1> QED
  BY <1>2, ConstantsAssumption DEF TerminalTyped, Respawn, Phase

LEMMA SpendConnectType ==
  ASSUME TerminalTyped, SpendConnect
  PROVE  spent' \in [connects : 0..MaxConnects, snapshots : 0..MaxSnapshots]
<1>1. /\ spent \in [connects : 0..MaxConnects, snapshots : 0..MaxSnapshots]
      /\ spent' = [spent EXCEPT !.connects = @ + 1] /\ spent.connects < MaxConnects
  BY DEF TerminalTyped, SpendConnect
<1>2. spent.connects \in 0..MaxConnects /\ MaxConnects \in Nat
  BY <1>1, ConstantsAssumption
<1>3. spent.connects + 1 \in 0..MaxConnects
  BY <1>1, <1>2
<1> QED
  BY <1>1, <1>3

LEMMA OpenType ==
  ASSUME TypeOK, NEW c \in Client, Open(c)
  PROVE  TypeOK'
<1>1. TerminalTyped /\ SessionKept /\ UNCHANGED <<subscribers, channel, notice, snapshot>>
  BY TypeParts DEF Open, SessionKept, sessionVars
<1>2. /\ phase' \in [Client -> Phase] /\ known' \in [Client -> BOOLEAN]
      /\ after' \in [Client -> 0..MaxWritten \cup {None}]
      /\ nextSeq' \in [Client -> 0..MaxWritten] /\ parsedSeq' \in [Client -> 0..MaxWritten]
      /\ unparsed' \in [Client -> Seq(Chunk)]
  <2>1. CASE known[c]
    <3>1. Reattach(c, None)
      BY <2>1 DEF Open
    <3> QED
      BY <1>1, <3>1, ReattachType
  <2>2. CASE ~known[c]
    <3>1. Respawn(c)
      BY <2>2 DEF Open
    <3> QED
      BY <1>1, <3>1, RespawnType
  <2> QED
    BY <2>1, <2>2
<1>3. \A s \in Restorable(c) : s \in Seq(Byte)
  <2>1. ASSUME NEW n \in 1..written
        PROVE  View!Window(1, n) \in Seq(Byte)
    <3>1. n \in Nat /\ n <= MaxWritten /\ MaxWritten \in Nat
      BY ConstantsAssumption DEF TypeOK
    <3>2. View!Window(1, n) = [i \in 1..n |-> i]
      BY <3>1 DEF View!Window
    <3> QED
      BY <3>1, <3>2 DEF Byte
  <2> QED
    BY <2>1, EmptySeq DEF Restorable
<1>4. screen' \in [Client -> Seq(Byte)]
  BY <1>1, <1>3 DEF Open, TerminalTyped
<1>5. spent' \in [connects : 0..MaxConnects, snapshots : 0..MaxSnapshots]
  BY <1>1, SpendConnectType DEF Open
<1>6. TerminalTyped'
  BY <1>1, <1>2, <1>4, <1>5 DEF TerminalTyped
<1> QED
  BY <1>1, <1>6, TypeParts

LEMMA ReconnectType ==
  ASSUME TypeOK, NEW c \in Client, Reconnect(c)
  PROVE  TypeOK'
<1>1. TerminalTyped /\ SessionKept /\ UNCHANGED <<subscribers, channel, notice, screen, snapshot>>
  BY TypeParts DEF Reconnect, SessionKept, sessionVars
<1>2. /\ phase' \in [Client -> Phase] /\ known' \in [Client -> BOOLEAN]
      /\ after' \in [Client -> 0..MaxWritten \cup {None}]
      /\ nextSeq' \in [Client -> 0..MaxWritten] /\ parsedSeq' \in [Client -> 0..MaxWritten]
      /\ unparsed' \in [Client -> Seq(Chunk)]
  <2>1. CASE known[c]
    <3>1. Reattach(c, parsedSeq[c]) /\ parsedSeq[c] \in 0..MaxWritten \cup {None}
      BY <1>1, <2>1 DEF Reconnect, TerminalTyped
    <3> QED
      BY <1>1, <3>1, ReattachType
  <2>2. CASE ~known[c]
    <3>1. Respawn(c)
      BY <2>2 DEF Reconnect
    <3> QED
      BY <1>1, <3>1, RespawnType
  <2> QED
    BY <2>1, <2>2
<1>3. spent' \in [connects : 0..MaxConnects, snapshots : 0..MaxSnapshots]
  BY <1>1, SpendConnectType DEF Reconnect
<1>4. TerminalTyped'
  BY <1>1, <1>2, <1>3 DEF TerminalTyped
<1> QED
  BY <1>1, <1>4, TypeParts

LEMMA FallbackType ==
  ASSUME TypeOK, NEW c \in Client, Fallback(c)
  PROVE  TypeOK'
<1>1. TerminalTyped /\ SessionKept /\ UNCHANGED <<subscribers, channel, notice, screen, snapshot, spent>>
  BY TypeParts DEF Fallback, SessionKept, sessionVars
<1>2. Respawn(c)
  BY DEF Fallback
<1>3. TerminalTyped'
  BY <1>1, <1>2, RespawnType DEF TerminalTyped
<1> QED
  BY <1>1, <1>3, TypeParts

LEMMA AttachedType ==
  ASSUME TypeOK, NEW c \in Client, Attached(c)
  PROVE  TypeOK'
<1>1. TerminalTyped /\ SessionKept
  BY TypeParts DEF Attached, SessionKept, sessionVars
<1>2. TerminalTyped'
  BY <1>1 DEF Attached, TerminalTyped, Phase, sessionVars, terminalVars
<1> QED
  BY <1>1, <1>2, TypeParts

LEMMA GiveUpType ==
  ASSUME TypeOK, NEW c \in Client, GiveUp(c)
  PROVE  TypeOK'
<1>1. TerminalTyped /\ SessionKept
  BY TypeParts DEF GiveUp, SessionKept, sessionVars
<1>2. TerminalTyped'
  BY <1>1 DEF GiveUp, TerminalTyped, Phase, sessionVars
<1> QED
  BY <1>1, <1>2, TypeParts

LEMMA OfflineType ==
  ASSUME TerminalTyped, NEW c \in Client, Offline(c)
  PROVE  /\ phase' \in [Client -> Phase] /\ channel' \in [Client -> Seq(Events)]
         /\ notice' \in [Client -> BOOLEAN] /\ subscribers' \subseteq Client
BY DEF TerminalTyped, Offline, Phase

LEMMA DisconnectType ==
  ASSUME TypeOK, NEW c \in Client, Disconnect(c)
  PROVE  TypeOK'
<1>1. /\ TerminalTyped /\ SessionKept /\ Offline(c)
      /\ UNCHANGED <<known, after, nextSeq, parsedSeq, unparsed, screen, spent>>
  BY TypeParts DEF Disconnect, SessionKept
<1>2. snapshot' \in [Client -> Checkpoint \cup {None}]
  <2>1. snapshot' = snapshot \/ snapshot' = [snapshot EXCEPT ![c] = None]
    BY DEF Disconnect
  <2> QED
    BY <1>1, <2>1 DEF TerminalTyped
<1>3. TerminalTyped'
  BY <1>1, <1>2, OfflineType DEF TerminalTyped
<1> QED
  BY <1>1, <1>3, TypeParts

LEMMA SendSlowType ==
  ASSUME TypeOK, NEW c \in Client, SendSlow(c)
  PROVE  TypeOK'
<1>1. TerminalTyped /\ SessionKept /\ UNCHANGED <<subscribers, phase, known, after, terminalVars, spent>>
  BY TypeParts DEF SendSlow, SessionKept, sessionVars
<1>2. Slow \in Events
  BY DEF Slow, Events
<1>3. channel' \in [Client -> Seq(Events)]
  BY <1>1, <1>2 DEF SendSlow, TerminalTyped
<1>4. TerminalTyped'
  BY <1>1, <1>3 DEF SendSlow, TerminalTyped, terminalVars
<1> QED
  BY <1>1, <1>4, TypeParts

LEMMA DropSlowType ==
  ASSUME TypeOK, NEW c \in Client, DropSlow(c)
  PROVE  TypeOK'
<1>1. TerminalTyped /\ SessionKept
  BY TypeParts DEF DropSlow, SessionKept, sessionVars
<1>2. TerminalTyped'
  BY <1>1 DEF DropSlow, TerminalTyped, sessionVars, terminalVars
<1> QED
  BY <1>1, <1>2, TypeParts

LEMMA AttachingKeeps ==
  ASSUME NEW c \in Client, Attaching(c)
  PROVE  SessionKept /\ UNCHANGED <<known, after, notice, nextSeq, parsedSeq, unparsed, screen, snapshot, spent>>
BY DEF Attaching, SessionKept, terminalVars

LEMMA AttachType ==
  ASSUME TypeOK, NEW c \in Client, Attach(c)
  PROVE  TypeOK'
<1>1. /\ TerminalTyped /\ SessionKept
      /\ UNCHANGED <<known, after, notice, nextSeq, parsedSeq, unparsed, screen, snapshot, spent>>
  BY TypeParts, AttachingKeeps DEF Attach
<1>2. channel' \in [Client -> Seq(Events)]
  <2>1. channel[c] \in Seq(Events) /\ Replay(c) \in Seq(Events)
    BY <1>1, ReplayEvents DEF TerminalTyped
  <2>2. channel[c] \o Replay(c) \in Seq(Events)
    BY <2>1, EventsJoined
  <2> QED
    BY <1>1, <2>2 DEF Attach, TerminalTyped
<1>3. TerminalTyped'
  BY <1>1, <1>2 DEF Attach, TerminalTyped, Phase
<1> QED
  BY <1>1, <1>3, TypeParts

LEMMA AttachTooSlowType ==
  ASSUME TypeOK, NEW c \in Client, AttachTooSlow(c)
  PROVE  TypeOK'
<1>1. /\ TerminalTyped /\ SessionKept
      /\ UNCHANGED <<known, after, notice, nextSeq, parsedSeq, unparsed, screen, snapshot, spent>>
  BY TypeParts, AttachingKeeps DEF AttachTooSlow
<1>2. channel' \in [Client -> Seq(Events)]
  <2>1. PICK n \in 0..(Len(Replay(c)) - 1) : channel' = [channel EXCEPT ![c] = @ \o SubSeq(Replay(c), 1, n)]
    BY DEF AttachTooSlow
  <2>2. channel[c] \in Seq(Events) /\ Replay(c) \in Seq(Events)
    BY <1>1, ReplayEvents DEF TerminalTyped
  <2>3. SubSeq(Replay(c), 1, n) \in Seq(Events)
    BY <2>2
  <2>4. channel[c] \o SubSeq(Replay(c), 1, n) \in Seq(Events)
    BY <2>2, <2>3, EventsJoined
  <2> QED
    BY <1>1, <2>1, <2>4 DEF TerminalTyped
<1>3. TerminalTyped'
  BY <1>1, <1>2 DEF AttachTooSlow, TerminalTyped, Phase
<1> QED
  BY <1>1, <1>3, TypeParts

LEMMA QueueType ==
  ASSUME TerminalTyped, NEW c \in Client, NEW bytes \in Seq(Byte), NEW end \in 0..MaxWritten,
         Queue(c, bytes, end)
  PROVE  unparsed' \in [Client -> Seq(Chunk)] /\ UNCHANGED <<parsedSeq, screen>>
<1>1. [bytes |-> bytes, end |-> end] \in Chunk
  BY DEF Chunk
<1> QED
  BY <1>1 DEF Queue, TerminalTyped

LEMMA ReceiveEventType ==
  ASSUME TypeOK, NEW c \in Client, ReceiveEvent(c)
  PROVE  TypeOK'
<1> DEFINE e == Head(channel[c])
<1>1. /\ TerminalTyped /\ SessionKept
      /\ UNCHANGED <<subscribers, phase, known, after, notice, snapshot, spent>>
  BY TypeParts DEF ReceiveEvent, SessionKept, sessionVars
<1>2. channel[c] \in Seq(Events) /\ channel[c] # <<>>
  BY <1>1 DEF ReceiveEvent, TerminalTyped
<1>3. e \in Events /\ Tail(channel[c]) \in Seq(Events)
  BY <1>2
<1>4. channel' \in [Client -> Seq(Events)]
  BY <1>1, <1>3 DEF ReceiveEvent, TerminalTyped
<1>5. \/ e.kind = "begin" /\ OnBegin(c, e)
      \/ e.kind = "checkpoint" /\ OnCheckpoint(c, e)
      \/ e.kind = "output" /\ OnOutput(c, e)
      \/ e.kind = "end" /\ OnEnd(c, e)
  BY DEF ReceiveEvent
<1> HIDE DEF e
<1>6. /\ nextSeq' \in [Client -> 0..MaxWritten] /\ parsedSeq' \in [Client -> 0..MaxWritten]
      /\ unparsed' \in [Client -> Seq(Chunk)] /\ screen' \in [Client -> Seq(Byte)]
  <2>1. CASE e.kind = "begin" /\ OnBegin(c, e)
    <3>1. e.base \in 0..MaxWritten
      BY <1>3, <2>1, EventKinds
    <3>2. Untrack(unparsed[c]) \in Seq(Chunk)
      BY <1>1, UntrackType DEF TerminalTyped
    <3> QED
      <4>1. nextSeq' = [nextSeq EXCEPT ![c] = e.base]
        BY <2>1 DEF OnBegin
      <4>2. CASE e.reset
        <5>1. /\ parsedSeq' = [parsedSeq EXCEPT ![c] = e.base]
              /\ unparsed' = [unparsed EXCEPT ![c] = Untrack(@)]
              /\ screen' = [screen EXCEPT ![c] = <<>>]
          BY <2>1, <4>2 DEF OnBegin
        <5> QED
          BY <1>1, <3>1, <3>2, <4>1, <5>1 DEF TerminalTyped
      <4>3. CASE ~e.reset
        <5>1. UNCHANGED <<parsedSeq, unparsed, screen>>
          BY <2>1, <4>3 DEF OnBegin
        <5> QED
          BY <1>1, <3>1, <4>1, <5>1 DEF TerminalTyped
      <4> QED
        BY <4>2, <4>3
  <2>2. CASE e.kind = "checkpoint" /\ OnCheckpoint(c, e)
    <3>1. e.ansi \in Seq(Byte) /\ nextSeq[c] \in 0..MaxWritten
      BY <1>1, <1>3, <2>2, EventKinds DEF TerminalTyped
    <3>2. Queue(c, e.ansi, nextSeq[c]) /\ UNCHANGED nextSeq
      BY <2>2 DEF OnCheckpoint
    <3> QED
      BY <1>1, <3>1, <3>2, QueueType DEF TerminalTyped
  <2>3. CASE e.kind = "output" /\ OnOutput(c, e)
    <3>1. e.byte \in Byte /\ e.byte \in 0..MaxWritten
      BY <1>3, <2>3, EventKinds, ConstantsAssumption DEF Byte
    <3>2. <<e.byte>> \in Seq(Byte)
      BY <3>1
    <3>3. Queue(c, <<e.byte>>, e.byte) /\ nextSeq' = [nextSeq EXCEPT ![c] = e.byte]
      BY <2>3 DEF OnOutput
    <3> QED
      BY <1>1, <3>1, <3>2, <3>3, QueueType DEF TerminalTyped
  <2>4. CASE e.kind = "end" /\ OnEnd(c, e)
    <3>1. e.next \in 0..MaxWritten
      BY <1>3, <2>4, EventKinds
    <3> QED
      BY <1>1, <2>4, <3>1 DEF OnEnd, TerminalTyped
  <2> QED
    BY <1>5, <2>1, <2>2, <2>3, <2>4
<1>7. TerminalTyped'
  BY <1>1, <1>4, <1>6 DEF TerminalTyped
<1> QED
  BY <1>1, <1>7, TypeParts

LEMMA ReceiveSlowType ==
  ASSUME TypeOK, NEW c \in Client, ReceiveSlow(c)
  PROVE  TypeOK'
<1>1. /\ TerminalTyped /\ SessionKept /\ Offline(c)
      /\ UNCHANGED <<after, nextSeq, parsedSeq, unparsed, screen, snapshot, spent>>
  BY TypeParts DEF ReceiveSlow, SessionKept, terminalVars
<1>2. TerminalTyped'
  BY <1>1, OfflineType DEF ReceiveSlow, TerminalTyped
<1> QED
  BY <1>1, <1>2, TypeParts

LEMMA ParseType ==
  ASSUME TypeOK, NEW c \in Client, Parse(c)
  PROVE  TypeOK'
<1> DEFINE w == Head(unparsed[c])
<1>1. /\ TerminalTyped /\ SessionKept
      /\ UNCHANGED <<subscribers, phase, known, after, channel, notice, nextSeq, snapshot, spent>>
  BY TypeParts DEF Parse, SessionKept, sessionVars
<1>2. unparsed[c] \in Seq(Chunk) /\ unparsed[c] # <<>>
  BY <1>1 DEF Parse, TerminalTyped
<1>3. w \in Chunk /\ Tail(unparsed[c]) \in Seq(Chunk)
  BY <1>2
<1>4. w.bytes \in Seq(Byte) /\ w.end \in 0..MaxWritten \cup {None}
  BY <1>3 DEF Chunk
<1>5. /\ screen' = [screen EXCEPT ![c] = @ \o w.bytes]
      /\ parsedSeq' = [parsedSeq EXCEPT ![c] = IF w.end # None /\ w.end > @ THEN w.end ELSE @]
      /\ unparsed' = [unparsed EXCEPT ![c] = Tail(@)]
  BY DEF Parse
<1> HIDE DEF w
<1>6. screen[c] \o w.bytes \in Seq(Byte)
  BY <1>1, <1>4 DEF TerminalTyped
<1>7. screen' \in [Client -> Seq(Byte)]
  BY <1>1, <1>5, <1>6 DEF TerminalTyped
<1>8. parsedSeq' \in [Client -> 0..MaxWritten]
  BY <1>1, <1>4, <1>5 DEF TerminalTyped
<1>9. unparsed' \in [Client -> Seq(Chunk)]
  BY <1>1, <1>3, <1>5 DEF TerminalTyped
<1>10. TerminalTyped'
  BY <1>1, <1>7, <1>8, <1>9 DEF TerminalTyped
<1> QED
  BY <1>1, <1>10, TypeParts

LEMMA SnapshotType ==
  ASSUME TypeOK, NEW c \in Client, Snapshot(c)
  PROVE  TypeOK'
<1> DEFINE taken == [through |-> parsedSeq[c], ansi |-> screen[c]]
<1>1. /\ TerminalTyped /\ SessionKept
      /\ UNCHANGED <<subscribers, phase, known, after, channel, notice, nextSeq, parsedSeq, unparsed, screen>>
  BY TypeParts DEF Snapshot, SessionKept, sessionVars
<1>2. taken \in Checkpoint
  BY <1>1 DEF Checkpoint, TerminalTyped
<1>3. snapshot' = [snapshot EXCEPT ![c] = taken]
  BY DEF Snapshot
<1> HIDE DEF taken
<1>4. snapshot' \in [Client -> Checkpoint \cup {None}]
  BY <1>1, <1>2, <1>3 DEF TerminalTyped
<1>5. spent' \in [connects : 0..MaxConnects, snapshots : 0..MaxSnapshots]
  <2>1. /\ spent \in [connects : 0..MaxConnects, snapshots : 0..MaxSnapshots]
        /\ spent' = [spent EXCEPT !.snapshots = @ + 1] /\ spent.snapshots < MaxSnapshots
    BY <1>1 DEF TerminalTyped, Snapshot
  <2>2. spent.snapshots \in 0..MaxSnapshots /\ MaxSnapshots \in Nat
    BY <2>1, ConstantsAssumption
  <2>3. spent.snapshots + 1 \in 0..MaxSnapshots
    BY <2>1, <2>2
  <2> QED
    BY <2>1, <2>3
<1>6. TerminalTyped'
  BY <1>1, <1>4, <1>5 DEF TerminalTyped
<1> QED
  BY <1>1, <1>6, TypeParts

\* The memory journal is trimmed to what a checkpoint covers, and no further
\* than what has been written.
LEMMA SaveCheckpointType ==
  ASSUME TypeOK, NEW c \in Client, SaveCheckpoint(c)
  PROVE  TypeOK'
<1> DEFINE through == snapshot[c].through
<1>1. /\ TerminalTyped
      /\ UNCHANGED <<written, subscribers, unqueued, journal, disk, phase, known, after, channel, notice,
                     nextSeq, parsedSeq, unparsed, screen, spent>>
  BY TypeParts DEF SaveCheckpoint
<1>2. snapshot[c] \in Checkpoint /\ through \in 0..MaxWritten
  BY <1>1 DEF SaveCheckpoint, TerminalTyped, Checkpoint
<1>3. snapshot' = [snapshot EXCEPT ![c] = None]
  BY DEF SaveCheckpoint
<1>4. snapshot' \in [Client -> Checkpoint \cup {None}]
  BY <1>1, <1>3 DEF TerminalTyped
<1>5. \/ /\ Acceptable(through)
         /\ checkpoint' = snapshot[c]
         /\ tailStart' = IF through > tailStart THEN through ELSE tailStart
         /\ storing' = [storing EXCEPT ![c] = through]
      \/ UNCHANGED <<checkpoint, tailStart, storing>>
  BY DEF SaveCheckpoint
<1>6. /\ written \in Nat /\ tailStart \in 0..written /\ written - tailStart <= MemoryCap
      /\ checkpoint \in Checkpoint \cup {None} /\ (checkpoint # None => checkpoint.through <= written)
      /\ storing \in [Client -> 0..MaxWritten \cup {None}]
  BY ConstantsAssumption DEF TypeOK
<1>7. /\ tailStart' \in 0..written /\ written - tailStart' <= MemoryCap
      /\ checkpoint' \in Checkpoint \cup {None} /\ (checkpoint' # None => checkpoint'.through <= written)
      /\ storing' \in [Client -> 0..MaxWritten \cup {None}]
  <2>1. CASE UNCHANGED <<checkpoint, tailStart, storing>>
    BY <1>6, <2>1
  <2>2. CASE /\ Acceptable(through)
             /\ checkpoint' = snapshot[c]
             /\ tailStart' = IF through > tailStart THEN through ELSE tailStart
             /\ storing' = [storing EXCEPT ![c] = through]
    <3>1. through <= written
      BY <2>2 DEF Acceptable
    <3>2. checkpoint' \in Checkpoint /\ checkpoint'.through = through
      BY <1>2, <2>2
    <3> HIDE DEF through
    <3>3. tailStart' \in 0..written /\ written - tailStart' <= MemoryCap
      BY <1>2, <1>6, <2>2, <3>1, ConstantsAssumption
    <3>4. storing' \in [Client -> 0..MaxWritten \cup {None}]
      BY <1>2, <1>6, <2>2
    <3> QED
      BY <3>1, <3>2, <3>3, <3>4
  <2> QED
    BY <1>5, <2>1, <2>2
<1>8. JournalOp' = JournalOp
  BY <1>1 DEF JournalOp
<1> QED
  BY <1>1, <1>4, <1>7, <1>8 DEF TypeOK

LEMMA QueueCheckpointType ==
  ASSUME TypeOK, NEW c \in Client, QueueCheckpoint(c)
  PROVE  TypeOK'
<1> DEFINE op == [op |-> "checkpoint", at |-> storing[c]]
<1>1. /\ UNCHANGED <<written, tailStart, checkpoint, subscribers, unqueued, disk, phase, known, after, channel,
                     notice, nextSeq, parsedSeq, unparsed, screen, snapshot, spent>>
      /\ journal' = Append(journal, op) /\ Len(journal) < JournalCap
      /\ storing' = [storing EXCEPT ![c] = None] /\ storing[c] # None
  BY DEF QueueCheckpoint, terminalVars
<1>2. op \in JournalOp
  BY <1>1 DEF TypeOK, JournalOp
<1> HIDE DEF op
<1>3. journal' \in Seq(JournalOp) /\ Len(journal') <= JournalCap
  BY <1>1, <1>2, ConstantsAssumption DEF TypeOK
<1>4. JournalOp' = JournalOp
  BY <1>1 DEF JournalOp
<1>5. storing' \in [Client -> 0..MaxWritten \cup {None}]
  BY <1>1 DEF TypeOK
<1> QED
  BY <1>1, <1>3, <1>4, <1>5 DEF TypeOK

LEMMA StepType ==
  ASSUME TypeOK, [Next]_vars
  PROVE  TypeOK'
<1>1. CASE UNCHANGED vars
  <2>1. SessionKept /\ TerminalTyped'
    BY <1>1, TypeParts DEF vars, sessionVars, terminalVars, SessionKept, TerminalTyped
  <2> QED
    BY <2>1, TypeParts
<1>2. CASE Produce
  BY <1>2, ProduceType
<1>3. CASE EnqueueOutput
  BY <1>3, EnqueueOutputType
<1>4. CASE JournalWriter
  BY <1>4, JournalWriterType
<1>5. ASSUME NEW c \in Client, Terminal(c)
      PROVE  TypeOK'
  BY <1>5, OpenType, ReconnectType, AttachedType, FallbackType, GiveUpType, DisconnectType, AttachType,
     AttachTooSlowType, SendSlowType, DropSlowType, ReceiveEventType, ReceiveSlowType, ParseType,
     SnapshotType, SaveCheckpointType, QueueCheckpointType DEF Terminal
<1> QED
  BY <1>1, <1>2, <1>3, <1>4, <1>5 DEF Next

\* No position, row, event or screen leaves its range; the memory journal keeps
\* to MAX_IN_MEMORY_JOURNAL_BYTES and the journal queue to its capacity, and
\* the disk has no row that was not written.
THEOREM TypeCorrect == Spec => []TypeOK
<1>1. Init => TypeOK
  BY InitType
<1>2. TypeOK /\ [Next]_vars => TypeOK'
  BY StepType
<1> QED
  BY <1>1, <1>2, PTL DEF Spec

-----------------------------------------------------------------------------
(* What the actions do, terminal by terminal.                              *)

\* Terminal d is as it was.
Untouched(d) ==
  /\ phase'[d] = phase[d] /\ known'[d] = known[d] /\ after'[d] = after[d]
  /\ channel'[d] = channel[d] /\ notice'[d] = notice[d] /\ (d \in subscribers' <=> d \in subscribers)
  /\ nextSeq'[d] = nextSeq[d] /\ parsedSeq'[d] = parsedSeq[d] /\ unparsed'[d] = unparsed[d]
  /\ screen'[d] = screen[d] /\ snapshot'[d] = snapshot[d]

\* The connection of c is as it was.
WireKept(c) ==
  channel'[c] = channel[c] /\ notice'[c] = notice[c] /\ (c \in subscribers' <=> c \in subscribers)

\* What c has received is as it was.
ReceivedKept(c) ==
  nextSeq'[c] = nextSeq[c] /\ parsedSeq'[c] = parsedSeq[c] /\ unparsed'[c] = unparsed[c]

\* A connect of c: with its session id, or by a spawn.
Connected(c, seq) ==
  /\ WireKept(c) /\ snapshot'[c] = snapshot[c]
  /\ \/ /\ known[c] /\ known'[c] = (c \notin Spawner) /\ phase'[c] = "reattaching" /\ after'[c] = seq
        /\ ReceivedKept(c)
     \/ ~known[c] /\ phase'[c] = "attaching" /\ nextSeq'[c] = 0

LEMMA ReattachEffect ==
  ASSUME TerminalTyped, NEW c \in Client, NEW seq, Reattach(c, seq)
  PROVE  /\ phase'[c] = "reattaching" /\ known'[c] = (c \notin Spawner) /\ after'[c] = seq
         /\ ReceivedKept(c)
         /\ \A d \in Client \ {c} : /\ phase'[d] = phase[d] /\ known'[d] = known[d] /\ after'[d] = after[d]
                                    /\ ReceivedKept(d)
BY DEF TerminalTyped, Reattach, ReceivedKept

LEMMA RespawnEffect ==
  ASSUME TerminalTyped, NEW c \in Client, Respawn(c)
  PROVE  /\ phase'[c] = "attaching" /\ nextSeq'[c] = 0
         /\ \A d \in Client \ {c} : /\ phase'[d] = phase[d] /\ known'[d] = known[d] /\ after'[d] = after[d]
                                    /\ ReceivedKept(d)
BY DEF TerminalTyped, Respawn, ReceivedKept

LEMMA OpenEffect ==
  ASSUME TypeOK, NEW c \in Client, Open(c)
  PROVE  /\ phase[c] = "new" /\ UNCHANGED <<written, tailStart, checkpoint>>
         /\ Connected(c, None) /\ screen'[c] \in Restorable(c)
         /\ \A d \in Client \ {c} : Untouched(d)
<1>1. TerminalTyped
  BY TypeParts
<1>2. phase[c] = "new" /\ UNCHANGED <<written, tailStart, checkpoint, subscribers, channel, notice, snapshot>>
  BY DEF Open, sessionVars
<1>3. screen'[c] \in Restorable(c) /\ \A d \in Client \ {c} : screen'[d] = screen[d]
  BY <1>1 DEF Open, TerminalTyped
<1>4. CASE known[c]
  <2>1. Reattach(c, None)
    BY <1>4 DEF Open
  <2> QED
    BY <1>1, <1>2, <1>3, <1>4, <2>1, ReattachEffect DEF Connected, Untouched, WireKept, ReceivedKept
<1>5. CASE ~known[c]
  <2>1. Respawn(c)
    BY <1>5 DEF Open
  <2> QED
    BY <1>1, <1>2, <1>3, <1>5, <2>1, RespawnEffect DEF Connected, Untouched, WireKept, ReceivedKept
<1> QED
  BY <1>4, <1>5

LEMMA ReconnectEffect ==
  ASSUME TypeOK, NEW c \in Client, Reconnect(c)
  PROVE  /\ phase[c] = "down" /\ UNCHANGED <<written, tailStart, checkpoint>>
         /\ Connected(c, parsedSeq[c]) /\ screen'[c] = screen[c] /\ (known[c] => ParserIdle(c))
         /\ \A d \in Client \ {c} : Untouched(d)
<1>1. TerminalTyped
  BY TypeParts
<1>2. /\ phase[c] = "down" /\ (known[c] => ParserIdle(c))
      /\ UNCHANGED <<written, tailStart, checkpoint, subscribers, channel, notice, screen, snapshot>>
  BY DEF Reconnect, sessionVars
<1>4. CASE known[c]
  <2>1. Reattach(c, parsedSeq[c])
    BY <1>4 DEF Reconnect
  <2> QED
    BY <1>1, <1>2, <1>4, <2>1, ReattachEffect DEF Connected, Untouched, WireKept, ReceivedKept
<1>5. CASE ~known[c]
  <2>1. Respawn(c)
    BY <1>5 DEF Reconnect
  <2> QED
    BY <1>1, <1>2, <1>5, <2>1, RespawnEffect DEF Connected, Untouched, WireKept, ReceivedKept
<1> QED
  BY <1>4, <1>5

LEMMA FallbackEffect ==
  ASSUME TypeOK, NEW c \in Client, Fallback(c)
  PROVE  /\ phase[c] = "failed" /\ channel[c] = <<>> /\ UNCHANGED <<written, tailStart, checkpoint>>
         /\ phase'[c] = "attaching" /\ WireKept(c)
         /\ \A d \in Client \ {c} : Untouched(d)
<1>1. TerminalTyped /\ Respawn(c)
  BY TypeParts DEF Fallback
<1>2. /\ phase[c] = "failed" /\ channel[c] = <<>>
      /\ UNCHANGED <<written, tailStart, checkpoint, subscribers, channel, notice, screen, snapshot>>
  BY DEF Fallback, sessionVars
<1> QED
  BY <1>1, <1>2, RespawnEffect DEF Untouched, WireKept, ReceivedKept

LEMMA AttachedEffect ==
  ASSUME TypeOK, NEW c \in Client, Attached(c)
  PROVE  /\ phase[c] = "replayed" /\ UNCHANGED <<written, tailStart, checkpoint>>
         /\ phase'[c] = "up" /\ known'[c] /\ after'[c] = after[c]
         /\ WireKept(c) /\ ReceivedKept(c) /\ screen'[c] = screen[c] /\ snapshot'[c] = snapshot[c]
         /\ \A d \in Client \ {c} : Untouched(d)
<1>1. TerminalTyped
  BY TypeParts
<1> QED
  BY <1>1 DEF Attached, TerminalTyped, Untouched, WireKept, ReceivedKept, sessionVars, terminalVars

LEMMA GiveUpEffect ==
  ASSUME TypeOK, NEW c \in Client, GiveUp(c)
  PROVE  /\ phase[c] = "failed" /\ UNCHANGED <<written, tailStart, checkpoint>>
         /\ phase'[c] = "unattached" /\ channel'[c] = <<>> /\ notice'[c] = notice[c]
         /\ (c \in subscribers' <=> c \in subscribers)
         /\ \A d \in Client \ {c} : Untouched(d)
<1>1. TerminalTyped
  BY TypeParts
<1> QED
  BY <1>1 DEF GiveUp, TerminalTyped, Untouched, sessionVars, terminalVars

\* A connection that ends, and what is left of it.
WentOffline(c) ==
  /\ phase'[c] = "down" /\ channel'[c] = <<>> /\ ~notice'[c] /\ c \notin subscribers'
  /\ after'[c] = after[c] /\ ReceivedKept(c) /\ screen'[c] = screen[c]
  /\ snapshot'[c] = snapshot[c] \/ snapshot'[c] = None

LEMMA OfflineEffect ==
  ASSUME TerminalTyped, NEW c \in Client, Offline(c)
  PROVE  /\ phase'[c] = "down" /\ channel'[c] = <<>> /\ ~notice'[c] /\ c \notin subscribers'
         /\ \A d \in Client \ {c} :
              /\ phase'[d] = phase[d] /\ channel'[d] = channel[d] /\ notice'[d] = notice[d]
              /\ d \in subscribers' <=> d \in subscribers
BY DEF TerminalTyped, Offline

LEMMA DisconnectEffect ==
  ASSUME TypeOK, NEW c \in Client, Disconnect(c)
  PROVE  /\ phase[c] \notin {"new", "down"} /\ (ReplayPending(c) => "drop" \in Upsets)
         /\ UNCHANGED <<written, tailStart, checkpoint>>
         /\ WentOffline(c) /\ known'[c] = known[c]
         /\ \A d \in Client \ {c} : Untouched(d)
<1>1. /\ TerminalTyped /\ Offline(c) /\ phase[c] \notin {"new", "down"} /\ (ReplayPending(c) => "drop" \in Upsets)
      /\ UNCHANGED <<written, tailStart, checkpoint, known, after, nextSeq, parsedSeq, unparsed, screen>>
  BY TypeParts DEF Disconnect
<1>2. /\ snapshot'[c] = snapshot[c] \/ snapshot'[c] = None
      /\ \A d \in Client \ {c} : snapshot'[d] = snapshot[d]
  <2>1. snapshot' = snapshot \/ snapshot' = [snapshot EXCEPT ![c] = None]
    BY DEF Disconnect
  <2> QED
    BY <1>1, <2>1 DEF TerminalTyped
<1>3. WentOffline(c)
  BY <1>1, <1>2, OfflineEffect DEF WentOffline, ReceivedKept
<1>4. \A d \in Client \ {c} : Untouched(d)
  BY <1>1, <1>2, OfflineEffect DEF Untouched
<1> QED
  BY <1>1, <1>3, <1>4

LEMMA ReceiveSlowEffect ==
  ASSUME TypeOK, NEW c \in Client, ReceiveSlow(c)
  PROVE  /\ Listening(c) /\ channel[c] # <<>> /\ Head(channel[c]).kind = "slow"
         /\ UNCHANGED <<written, tailStart, checkpoint>>
         /\ WentOffline(c) /\ known'[c]
         /\ \A d \in Client \ {c} : Untouched(d)
<1>1. /\ TerminalTyped /\ Offline(c) /\ Listening(c) /\ channel[c] # <<>> /\ Head(channel[c]).kind = "slow"
      /\ UNCHANGED <<written, tailStart, checkpoint, after, nextSeq, parsedSeq, unparsed, screen, snapshot>>
      /\ known' = [known EXCEPT ![c] = TRUE]
  BY TypeParts DEF ReceiveSlow, terminalVars
<1>2. known'[c] /\ \A d \in Client \ {c} : known'[d] = known[d]
  BY <1>1 DEF TerminalTyped
<1>3. WentOffline(c)
  BY <1>1, OfflineEffect DEF WentOffline, ReceivedKept
<1>4. \A d \in Client \ {c} : Untouched(d)
  BY <1>1, <1>2, OfflineEffect DEF Untouched
<1> QED
  BY <1>1, <1>2, <1>3, <1>4

\* Only the connection of c has changed.
RestKept(c) ==
  /\ known'[c] = known[c] /\ after'[c] = after[c]
  /\ ReceivedKept(c) /\ screen'[c] = screen[c] /\ snapshot'[c] = snapshot[c]

LEMMA SendSlowEffect ==
  ASSUME TypeOK, NEW c \in Client, SendSlow(c)
  PROVE  /\ notice[c] /\ UNCHANGED <<written, tailStart, checkpoint>>
         /\ phase'[c] = phase[c] /\ (c \in subscribers' <=> c \in subscribers)
         /\ channel'[c] = Append(channel[c], Slow) /\ ~notice'[c] /\ RestKept(c)
         /\ \A d \in Client \ {c} : Untouched(d)
<1>1. TerminalTyped
  BY TypeParts
<1> QED
  BY <1>1 DEF SendSlow, TerminalTyped, Untouched, RestKept, ReceivedKept, sessionVars, terminalVars

LEMMA DropSlowEffect ==
  ASSUME TypeOK, NEW c \in Client, DropSlow(c)
  PROVE  /\ notice[c] /\ UNCHANGED <<written, tailStart, checkpoint>>
         /\ phase'[c] = phase[c] /\ (c \in subscribers' <=> c \in subscribers)
         /\ channel'[c] = channel[c] /\ ~notice'[c] /\ RestKept(c)
         /\ \A d \in Client \ {c} : Untouched(d)
<1>1. TerminalTyped
  BY TypeParts
<1> QED
  BY <1>1 DEF DropSlow, TerminalTyped, Untouched, RestKept, ReceivedKept, sessionVars, terminalVars

LEMMA AttachEffect ==
  ASSUME TypeOK, NEW c \in Client, Attach(c)
  PROVE  /\ phase[c] \in {"reattaching", "attaching"} /\ UNCHANGED <<written, tailStart, checkpoint>>
         /\ phase'[c] = "replayed" /\ c \in subscribers' /\ notice'[c] = notice[c]
         /\ channel'[c] = channel[c] \o Replay(c) /\ RestKept(c)
         /\ \A d \in Client \ {c} : Untouched(d)
<1>1. TerminalTyped
  BY TypeParts
<1>2. /\ phase[c] \in {"reattaching", "attaching"}
      /\ UNCHANGED <<written, tailStart, checkpoint, known, after, notice, nextSeq, parsedSeq, unparsed, screen, snapshot>>
  BY AttachingKeeps DEF Attach, Attaching, SessionKept
<1>3. /\ phase' = [phase EXCEPT ![c] = "replayed"] /\ subscribers' = subscribers \cup {c}
      /\ channel' = [channel EXCEPT ![c] = @ \o Replay(c)]
  BY DEF Attach
<1> DEFINE r == Replay(c)
<1> HIDE DEF r
<1>4. channel' = [channel EXCEPT ![c] = @ \o r]
  BY <1>3 DEF r
<1>5. channel'[c] = channel[c] \o r
  BY <1>1, <1>4 DEF TerminalTyped
<1>6. \A d \in Client \ {c} : Untouched(d)
  BY <1>1, <1>2, <1>3, <1>4 DEF TerminalTyped, Untouched
<1>7. phase'[c] = "replayed" /\ c \in subscribers'
  BY <1>1, <1>3 DEF TerminalTyped
<1> QED
  BY <1>2, <1>5, <1>6, <1>7 DEF r, RestKept, ReceivedKept

LEMMA AttachTooSlowEffect ==
  ASSUME TypeOK, NEW c \in Client, AttachTooSlow(c)
  PROVE  /\ "stall" \in Upsets
         /\ phase[c] \in {"reattaching", "attaching"} /\ UNCHANGED <<written, tailStart, checkpoint>>
         /\ phase'[c] \in {"failed", "unattached"} /\ (c \in subscribers' <=> c \in subscribers)
         /\ notice'[c] = notice[c] /\ RestKept(c)
         /\ \E n \in 0..(Len(Replay(c)) - 1) : channel'[c] = channel[c] \o SubSeq(Replay(c), 1, n)
         /\ \A d \in Client \ {c} : Untouched(d)
<1>1. TerminalTyped
  BY TypeParts
<1>2. /\ phase[c] \in {"reattaching", "attaching"} /\ "stall" \in Upsets
      /\ UNCHANGED <<written, tailStart, checkpoint, known, after, notice, nextSeq, parsedSeq, unparsed, screen, snapshot>>
  BY AttachingKeeps DEF AttachTooSlow, Attaching, SessionKept
<1>3. /\ phase' = [phase EXCEPT ![c] = IF @ = "reattaching" THEN "failed" ELSE "unattached"]
      /\ subscribers' = subscribers
  BY DEF AttachTooSlow
<1>4. PICK n \in 0..(Len(Replay(c)) - 1) : channel' = [channel EXCEPT ![c] = @ \o SubSeq(Replay(c), 1, n)]
  BY DEF AttachTooSlow
<1> DEFINE r == SubSeq(Replay(c), 1, n)
<1>5. channel' = [channel EXCEPT ![c] = @ \o r]
  BY <1>4
<1> HIDE DEF r
<1>6. channel'[c] = channel[c] \o r
  BY <1>1, <1>5 DEF TerminalTyped
<1>7. \A d \in Client \ {c} : Untouched(d)
  BY <1>1, <1>2, <1>3, <1>5 DEF TerminalTyped, Untouched
<1>8. phase'[c] \in {"failed", "unattached"}
  BY <1>1, <1>3 DEF TerminalTyped
<1>9. \E m \in 0..(Len(Replay(c)) - 1) : channel'[c] = channel[c] \o SubSeq(Replay(c), 1, m)
  BY <1>4, <1>6 DEF r
<1> QED
  BY <1>2, <1>3, <1>7, <1>8, <1>9 DEF RestKept, ReceivedKept

LEMMA ReceiveEventEffect ==
  ASSUME TypeOK, NEW c \in Client, ReceiveEvent(c)
  PROVE  /\ Listening(c) /\ channel[c] # <<>> /\ UNCHANGED <<written, tailStart, checkpoint>>
         /\ phase'[c] = phase[c] /\ known'[c] = known[c] /\ after'[c] = after[c] /\ snapshot'[c] = snapshot[c]
         /\ channel'[c] = Tail(channel[c]) /\ notice'[c] = notice[c] /\ (c \in subscribers' <=> c \in subscribers)
         /\ LET e == Head(channel[c]) IN
            \/ /\ e.kind = "begin" /\ nextSeq'[c] = e.base
               /\ IF e.reset THEN parsedSeq'[c] = e.base /\ unparsed'[c] = Untrack(unparsed[c]) /\ screen'[c] = <<>>
                  ELSE parsedSeq'[c] = parsedSeq[c] /\ unparsed'[c] = unparsed[c] /\ screen'[c] = screen[c]
            \/ /\ e.kind = "checkpoint" /\ nextSeq'[c] = nextSeq[c]
               /\ parsedSeq'[c] = parsedSeq[c] /\ screen'[c] = screen[c]
               /\ unparsed'[c] = Append(unparsed[c], [bytes |-> e.ansi, end |-> nextSeq[c]])
            \/ /\ e.kind = "output" /\ nextSeq'[c] = e.byte
               /\ parsedSeq'[c] = parsedSeq[c] /\ screen'[c] = screen[c]
               /\ unparsed'[c] = Append(unparsed[c], [bytes |-> <<e.byte>>, end |-> e.byte])
            \/ e.kind = "end" /\ nextSeq'[c] = e.next /\ parsedSeq'[c] = parsedSeq[c]
               /\ unparsed'[c] = unparsed[c] /\ screen'[c] = screen[c]
         /\ \A d \in Client \ {c} : Untouched(d)
<1> DEFINE e == Head(channel[c])
<1>1. TerminalTyped
  BY TypeParts
<1>2. /\ Listening(c) /\ channel[c] # <<>>
      /\ UNCHANGED <<written, tailStart, checkpoint, subscribers, phase, known, after, notice, snapshot>>
      /\ channel' = [channel EXCEPT ![c] = Tail(@)]
  BY DEF ReceiveEvent, sessionVars
<1>3. \/ e.kind = "begin" /\ OnBegin(c, e)
      \/ e.kind = "checkpoint" /\ OnCheckpoint(c, e)
      \/ e.kind = "output" /\ OnOutput(c, e)
      \/ e.kind = "end" /\ OnEnd(c, e)
  BY DEF ReceiveEvent
<1> HIDE DEF e
<1>4. channel'[c] = Tail(channel[c]) /\ \A d \in Client \ {c} : channel'[d] = channel[d]
  BY <1>1, <1>2 DEF TerminalTyped
<1> DEFINE OthersKept == \A d \in Client \ {c} : ReceivedKept(d) /\ screen'[d] = screen[d]
<1>5. CASE e.kind = "begin" /\ OnBegin(c, e)
  <2>1. nextSeq'[c] = e.base /\ \A d \in Client \ {c} : nextSeq'[d] = nextSeq[d]
    BY <1>1, <1>5 DEF OnBegin, TerminalTyped
  <2>2. CASE e.reset
    <3>1. parsedSeq'[c] = e.base /\ unparsed'[c] = Untrack(unparsed[c]) /\ screen'[c] = <<>>
      BY <1>1, <1>5, <2>2 DEF OnBegin, TerminalTyped
    <3>2. OthersKept
      BY <1>1, <1>5, <2>1, <2>2 DEF OnBegin, TerminalTyped, ReceivedKept
    <3> QED
      BY <1>2, <1>4, <1>5, <2>1, <2>2, <3>1, <3>2 DEF Untouched, ReceivedKept, e
  <2>3. CASE ~e.reset
    <3>1. UNCHANGED <<parsedSeq, unparsed, screen>>
      BY <1>5, <2>3 DEF OnBegin
    <3> QED
      BY <1>2, <1>4, <1>5, <2>1, <2>3, <3>1 DEF Untouched, e
  <2> QED
    BY <2>2, <2>3
<1>6. CASE e.kind = "checkpoint" /\ OnCheckpoint(c, e)
  <2>1. /\ unparsed'[c] = Append(unparsed[c], [bytes |-> e.ansi, end |-> nextSeq[c]])
        /\ \A d \in Client \ {c} : unparsed'[d] = unparsed[d]
        /\ UNCHANGED <<nextSeq, parsedSeq, screen>>
    BY <1>1, <1>6 DEF OnCheckpoint, Queue, TerminalTyped
  <2> QED
    BY <1>2, <1>4, <1>6, <2>1 DEF Untouched, e
<1>7. CASE e.kind = "output" /\ OnOutput(c, e)
  <2>1. /\ unparsed'[c] = Append(unparsed[c], [bytes |-> <<e.byte>>, end |-> e.byte])
        /\ \A d \in Client \ {c} : unparsed'[d] = unparsed[d]
        /\ UNCHANGED <<parsedSeq, screen>>
    BY <1>1, <1>7 DEF OnOutput, Queue, TerminalTyped
  <2>2. nextSeq'[c] = e.byte /\ \A d \in Client \ {c} : nextSeq'[d] = nextSeq[d]
    BY <1>1, <1>7 DEF OnOutput, TerminalTyped
  <2> QED
    BY <1>2, <1>4, <1>7, <2>1, <2>2 DEF Untouched, e
<1>8. CASE e.kind = "end" /\ OnEnd(c, e)
  <2>1. /\ nextSeq'[c] = e.next /\ \A d \in Client \ {c} : nextSeq'[d] = nextSeq[d]
        /\ UNCHANGED <<parsedSeq, unparsed, screen>>
    BY <1>1, <1>8 DEF OnEnd, TerminalTyped
  <2> QED
    BY <1>2, <1>4, <1>8, <2>1 DEF Untouched, e
<1> QED
  BY <1>3, <1>5, <1>6, <1>7, <1>8

LEMMA ParseEffect ==
  ASSUME TypeOK, NEW c \in Client, Parse(c)
  PROVE  /\ unparsed[c] # <<>> /\ UNCHANGED <<written, tailStart, checkpoint>>
         /\ phase'[c] = phase[c] /\ known'[c] = known[c] /\ after'[c] = after[c]
         /\ WireKept(c) /\ snapshot'[c] = snapshot[c]
         /\ nextSeq'[c] = nextSeq[c] /\ unparsed'[c] = Tail(unparsed[c])
         /\ screen'[c] = screen[c] \o unparsed[c][1].bytes
         /\ parsedSeq'[c] = IF unparsed[c][1].end # None /\ unparsed[c][1].end > parsedSeq[c]
                            THEN unparsed[c][1].end ELSE parsedSeq[c]
         /\ \A d \in Client \ {c} : Untouched(d)
<1> DEFINE w == Head(unparsed[c])
<1>1. TerminalTyped
  BY TypeParts
<1>2. /\ unparsed[c] # <<>>
      /\ UNCHANGED <<written, tailStart, checkpoint, subscribers, phase, known, after, channel, notice, nextSeq, snapshot>>
      /\ screen' = [screen EXCEPT ![c] = @ \o w.bytes]
      /\ parsedSeq' = [parsedSeq EXCEPT ![c] = IF w.end # None /\ w.end > @ THEN w.end ELSE @]
      /\ unparsed' = [unparsed EXCEPT ![c] = Tail(@)]
  BY DEF Parse, sessionVars
<1>3. w = unparsed[c][1]
  BY <1>1, <1>2 DEF TerminalTyped
<1> HIDE DEF w
<1>4. screen'[c] = screen[c] \o w.bytes /\ \A d \in Client \ {c} : screen'[d] = screen[d]
  BY <1>1, <1>2 DEF TerminalTyped
<1>5. /\ parsedSeq'[c] = IF w.end # None /\ w.end > parsedSeq[c] THEN w.end ELSE parsedSeq[c]
      /\ \A d \in Client \ {c} : parsedSeq'[d] = parsedSeq[d]
  BY <1>1, <1>2 DEF TerminalTyped
<1>6. unparsed'[c] = Tail(unparsed[c]) /\ \A d \in Client \ {c} : unparsed'[d] = unparsed[d]
  BY <1>1, <1>2 DEF TerminalTyped
<1> QED
  BY <1>2, <1>3, <1>4, <1>5, <1>6 DEF Untouched, WireKept

LEMMA SnapshotEffect ==
  ASSUME TypeOK, NEW c \in Client, Snapshot(c)
  PROVE  /\ phase[c] # "new" /\ ParserIdle(c) /\ (ReplayPending(c) => "persist" \in Upsets)
         /\ UNCHANGED <<written, tailStart, checkpoint>>
         /\ phase'[c] = phase[c] /\ known'[c] = known[c] /\ after'[c] = after[c]
         /\ WireKept(c) /\ ReceivedKept(c) /\ screen'[c] = screen[c]
         /\ snapshot'[c] = [through |-> parsedSeq[c], ansi |-> screen[c]]
         /\ \A d \in Client \ {c} : Untouched(d)
<1> DEFINE taken == [through |-> parsedSeq[c], ansi |-> screen[c]]
<1>1. TerminalTyped
  BY TypeParts
<1>2. /\ phase[c] # "new" /\ ParserIdle(c) /\ (ReplayPending(c) => "persist" \in Upsets)
      /\ UNCHANGED <<written, tailStart, checkpoint, subscribers, phase, known, after, channel, notice, nextSeq,
                     parsedSeq, unparsed, screen>>
      /\ snapshot' = [snapshot EXCEPT ![c] = taken]
  BY DEF Snapshot, sessionVars
<1> HIDE DEF taken
<1>3. snapshot'[c] = taken /\ \A d \in Client \ {c} : snapshot'[d] = snapshot[d]
  BY <1>1, <1>2 DEF TerminalTyped
<1> QED
  BY <1>2, <1>3 DEF Untouched, WireKept, ReceivedKept, taken

LEMMA SaveCheckpointEffect ==
  ASSUME TypeOK, NEW c \in Client, SaveCheckpoint(c)
  PROVE  /\ snapshot[c] # None /\ snapshot[c] \in Checkpoint /\ written' = written
         /\ \/ /\ Acceptable(snapshot[c].through) /\ checkpoint' = snapshot[c]
               /\ tailStart' = IF snapshot[c].through > tailStart THEN snapshot[c].through ELSE tailStart
            \/ UNCHANGED <<checkpoint, tailStart>>
         /\ phase'[c] = phase[c] /\ known'[c] = known[c] /\ after'[c] = after[c]
         /\ WireKept(c) /\ ReceivedKept(c) /\ screen'[c] = screen[c] /\ snapshot'[c] = None
         /\ \A d \in Client \ {c} : Untouched(d)
<1>1. TerminalTyped
  BY TypeParts
<1>2. /\ snapshot[c] # None
      /\ UNCHANGED <<written, subscribers, phase, known, after, channel, notice, nextSeq, parsedSeq, unparsed, screen>>
      /\ snapshot' = [snapshot EXCEPT ![c] = None]
  BY DEF SaveCheckpoint
<1>3. \/ /\ Acceptable(snapshot[c].through) /\ checkpoint' = snapshot[c]
         /\ tailStart' = IF snapshot[c].through > tailStart THEN snapshot[c].through ELSE tailStart
      \/ UNCHANGED <<checkpoint, tailStart>>
  BY DEF SaveCheckpoint
<1>4. snapshot'[c] = None /\ snapshot[c] \in Checkpoint /\ \A d \in Client \ {c} : snapshot'[d] = snapshot[d]
  BY <1>1, <1>2 DEF TerminalTyped
<1> QED
  BY <1>2, <1>3, <1>4 DEF Untouched, WireKept, ReceivedKept

\* Nothing that the invariants below speak of but the journal has changed.
LEMMA QuietEffect ==
  ASSUME EnqueueOutput \/ JournalWriter \/ (\E c \in Client : QueueCheckpoint(c)) \/ UNCHANGED vars
  PROVE  UNCHANGED <<written, tailStart, checkpoint>> /\ \A d \in Client : Untouched(d)
BY DEF EnqueueOutput, JournalWriter, QueueCheckpoint, vars, sessionVars, terminalVars, Untouched

LEMMA ProduceEffect ==
  ASSUME TypeOK, Produce, NEW c \in Client
  PROVE  /\ written' = written + 1 /\ checkpoint' = checkpoint
         /\ tailStart' = IF written' - tailStart > MemoryCap THEN written' - MemoryCap ELSE tailStart
         /\ phase'[c] = phase[c] /\ RestKept(c)
         /\ \/ c \in subscribers /\ c \in subscribers' /\ notice'[c] = notice[c]
               /\ channel'[c] = Append(channel[c], Output(written'))
            \/ c \in subscribers /\ c \notin subscribers' /\ notice'[c] /\ channel'[c] = channel[c]
            \/ c \notin subscribers /\ WireKept(c)
<1> DEFINE room == {d \in subscribers : Len(channel[d]) < ClientCap}
<1>1. TerminalTyped
  BY TypeParts
<1>2. /\ written' = written + 1
      /\ tailStart' = IF written' - tailStart > MemoryCap THEN written' - MemoryCap ELSE tailStart
      /\ UNCHANGED <<checkpoint, phase, known, after, nextSeq, parsedSeq, unparsed, screen, snapshot>>
      /\ channel' = [d \in Client |-> IF d \in room THEN Append(channel[d], Output(written')) ELSE channel[d]]
      /\ subscribers' = room
      /\ notice' = [d \in Client |-> notice[d] \/ d \in subscribers \ room]
  BY DEF Produce, terminalVars
<1>3. \A d \in room : d \in subscribers
  OBVIOUS
<1> HIDE DEF room
<1>4. notice'[c] = (notice[c] \/ c \in subscribers \ room) /\ notice[c] \in BOOLEAN
  BY <1>1, <1>2 DEF TerminalTyped
<1>5. channel'[c] = IF c \in room THEN Append(channel[c], Output(written')) ELSE channel[c]
  BY <1>2
<1>6. phase'[c] = phase[c] /\ RestKept(c)
  BY <1>2 DEF RestKept, ReceivedKept
<1>7. CASE c \in room
  BY <1>2, <1>3, <1>4, <1>5, <1>6, <1>7
<1>8. CASE c \notin room /\ c \in subscribers
  BY <1>2, <1>3, <1>4, <1>5, <1>6, <1>8
<1>9. CASE c \notin subscribers
  BY <1>2, <1>3, <1>4, <1>5, <1>6, <1>9 DEF WireKept
<1> QED
  BY <1>7, <1>8, <1>9

-----------------------------------------------------------------------------
(* The events join.                                                        *)

LEMMA EmptyChain == ASSUME NEW p PROVE Chained(<<>>, p) /\ Len(<<>>) = 0 /\ After(<<>>, p, 0) = p
<1>1. Len(<<>>) = 0
  BY EmptySeq
<1> QED
  BY <1>1 DEF Chained, After

LEMMA InitStream == Init => StreamInv
<1> SUFFICES ASSUME Init, NEW c \in Client PROVE StreamOf(c)
  BY DEF StreamInv
<1>1. channel[c] = <<>> /\ c \notin subscribers /\ notice[c] = FALSE
  BY DEF Init
<1> QED
  BY <1>1, EmptyChain DEF StreamOf

\* What StreamOf speaks of is the same.
LEMMA StreamKept ==
  ASSUME NEW c \in Client, StreamOf(c), WireKept(c), nextSeq'[c] = nextSeq[c],
         c \in subscribers => written' = written,
         \/ phase'[c] = phase[c]
         \/ phase'[c] \in {"replayed", "up"} /\ phase[c] \in {"replayed", "up"}
  PROVE  StreamOf(c)'
BY DEF StreamOf, WireKept, HasSlow

LEMMA UntouchedStream ==
  ASSUME NEW d \in Client, StreamOf(d), Untouched(d), written' = written
  PROVE  StreamOf(d)'
BY StreamKept DEF Untouched, WireKept

\* Nothing is on its way.
LEMMA SilentStream ==
  ASSUME NEW c \in Client, channel'[c] = <<>>, c \notin subscribers', ~notice'[c]
  PROVE  StreamOf(c)'
BY EmptyChain DEF StreamOf

LEMMA ConnectedStream ==
  ASSUME NEW c \in Client, StreamOf(c), phase[c] \in {"new", "down"}, WireKept(c)
  PROVE  StreamOf(c)'
<1>1. channel[c] = <<>> /\ c \notin subscribers /\ ~notice[c]
  BY DEF StreamOf
<1> QED
  BY <1>1, SilentStream DEF WireKept

LEMMA AttachStream ==
  ASSUME TypeOK, NEW c \in Client, StreamOf(c), Attach(c)
  PROVE  StreamOf(c)'
<1> DEFINE r == Replay(c)
<1>1. /\ phase[c] \in {"reattaching", "attaching"} /\ written' = written
      /\ phase'[c] = "replayed" /\ c \in subscribers' /\ notice'[c] = notice[c]
      /\ channel'[c] = channel[c] \o r /\ nextSeq'[c] = nextSeq[c]
  BY AttachEffect DEF RestKept, ReceivedKept
<1>2. channel[c] = <<>> /\ ~notice[c]
  BY <1>1 DEF StreamOf
<1>3. r \in Seq(Events)
  BY ReplayEvents
<1>4. \A p : /\ Chained(r, p) /\ (\A i \in 1..Len(r) : r[i].kind # "slow")
             /\ After(r, p, Len(r)) = written
  BY ReplayChained
<1> HIDE DEF r
<1>5. channel'[c] = r
  BY <1>1, <1>2, <1>3
<1>6. ~HasSlow(c)'
  BY <1>4, <1>5 DEF HasSlow
<1> QED
  BY <1>1, <1>2, <1>4, <1>5, <1>6 DEF StreamOf

LEMMA AttachTooSlowStream ==
  ASSUME TypeOK, NEW c \in Client, StreamOf(c), AttachTooSlow(c)
  PROVE  StreamOf(c)'
<1>1. /\ phase[c] \in {"reattaching", "attaching"}
      /\ phase'[c] \in {"failed", "unattached"} /\ (c \in subscribers' <=> c \in subscribers)
      /\ notice'[c] = notice[c]
  BY AttachTooSlowEffect
<1>2. channel[c] = <<>> /\ ~notice[c] /\ c \notin subscribers
  BY <1>1 DEF StreamOf
<1>3. PICK n \in 0..(Len(Replay(c)) - 1) : channel'[c] = channel[c] \o SubSeq(Replay(c), 1, n)
  BY AttachTooSlowEffect
<1>4. Replay(c) \in Seq(Events)
  BY ReplayEvents
<1>5. n \in 0..Len(Replay(c))
  BY <1>3, <1>4
<1>6. \A p : Chained(Replay(c), p)
  BY ReplayChained
<1>7. \A i \in 1..Len(Replay(c)) : Replay(c)[i].kind # "slow"
  BY ReplayChained
<1> DEFINE r == SubSeq(Replay(c), 1, n)
<1>8. Chained(r, nextSeq'[c]) /\ r \in Seq(Events)
  BY <1>4, <1>5, <1>6, <1>7, ChainPrefix
<1>9. channel'[c] = channel[c] \o r
  BY <1>3
<1> HIDE DEF r
<1>10. channel'[c] = r
  BY <1>2, <1>8, <1>9
<1> QED
  BY <1>1, <1>2, <1>8, <1>10 DEF StreamOf

LEMMA SendSlowStream ==
  ASSUME TypeOK, NEW c \in Client, StreamOf(c), SendSlow(c)
  PROVE  StreamOf(c)'
<1> DEFINE s == channel[c]
           p == nextSeq[c]
<1>1. /\ notice[c] /\ phase'[c] = phase[c] /\ (c \in subscribers' <=> c \in subscribers)
      /\ channel'[c] = Append(s, Slow) /\ ~notice'[c] /\ nextSeq'[c] = p
  BY SendSlowEffect DEF RestKept, ReceivedKept
<1>2. /\ Chained(s, p) /\ phase[c] \in {"replayed", "up"} /\ c \notin subscribers
      /\ \A i \in 1..Len(s) : s[i].kind # "slow"
  BY <1>1 DEF StreamOf, HasSlow
<1>3. Slow \in Events /\ Slow.kind = "slow" /\ s \in Seq(Events)
  BY DEF Slow, Events, TypeOK
<1> HIDE DEF s, p
<1>4. Chained(Append(s, Slow), p)
  BY <1>2, <1>3, ChainAppend
<1> QED
  BY <1>1, <1>2, <1>4 DEF StreamOf

\* The event received leads to the position the next one expects.
LEMMA ReceivedAfter ==
  ASSUME TypeOK, NEW c \in Client, StreamOf(c), ReceiveEvent(c)
  PROVE  /\ channel[c] \in Seq(Events) /\ channel[c] # <<>> /\ channel'[c] = Tail(channel[c])
         /\ channel[c][1] = Head(channel[c]) /\ channel[c][1] \in Events /\ channel[c][1].kind # "slow"
         /\ nextSeq'[c] = After(channel[c], nextSeq[c], 1)
<1> DEFINE s == channel[c]
           e == Head(channel[c])
<1>1. s \in Seq(Events) /\ s # <<>> /\ channel'[c] = Tail(s)
  BY ReceiveEventEffect DEF TypeOK
<1>2. e = s[1] /\ 1 \in 1..Len(s) /\ s[1] \in Events
  BY <1>1
<1>3. \/ e.kind = "begin" /\ nextSeq'[c] = e.base
      \/ e.kind = "checkpoint" /\ nextSeq'[c] = nextSeq[c]
      \/ e.kind = "output" /\ nextSeq'[c] = e.byte
      \/ e.kind = "end" /\ nextSeq'[c] = e.next
  BY ReceiveEventEffect
<1> HIDE DEF s, e
<1>4. nextSeq'[c] = After(s, nextSeq[c], 1)
  BY <1>1, <1>2, <1>3, AfterEvent
<1>5. s[1].kind # "slow"
  BY <1>2, <1>3
<1> QED
  BY <1>1, <1>2, <1>4, <1>5 DEF s, e

LEMMA ReceiveEventStream ==
  ASSUME TypeOK, NEW c \in Client, StreamOf(c), ReceiveEvent(c)
  PROVE  StreamOf(c)'
<1> DEFINE s == channel[c]
           p == nextSeq[c]
           q == After(s, p, 1)
<1>1. s \in Seq(Events) /\ s # <<>> /\ channel'[c] = Tail(s) /\ nextSeq'[c] = q
  BY ReceivedAfter
<1>2. /\ Listening(c) /\ phase'[c] = phase[c] /\ written' = written
      /\ notice'[c] = notice[c] /\ (c \in subscribers' <=> c \in subscribers)
  BY ReceiveEventEffect
<1>3. Chained(s, p)
  BY DEF StreamOf
<1>4. /\ Chained(Tail(s), q) /\ Len(Tail(s)) = Len(s) - 1 /\ Len(s) \in Nat \ {0}
      /\ \A i \in 1..(Len(s) - 1) : Tail(s)[i] = s[i + 1]
      /\ \A i \in 0..(Len(s) - 1) : After(Tail(s), q, i) = After(s, p, i + 1)
  BY <1>1, <1>3, ChainTail
<1>5. After(Tail(s), q, Len(Tail(s))) = After(s, p, Len(s))
  BY <1>4
<1> HIDE DEF q
<1>6. HasSlow(c)' => HasSlow(c)
  <2>1. SUFFICES ASSUME NEW i \in 1..(Len(s) - 1), Tail(s)[i].kind = "slow" PROVE HasSlow(c)
    BY <1>1, <1>4 DEF HasSlow
  <2>2. i + 1 \in 1..Len(s) /\ s[i + 1].kind = "slow"
    BY <1>4, <2>1
  <2> QED
    BY <2>2 DEF HasSlow
<1>7. phase[c] \notin {"new", "down", "reattaching", "attaching"}
  BY <1>1 DEF StreamOf
<1> QED
  BY <1>1, <1>2, <1>4, <1>5, <1>6, <1>7 DEF StreamOf

LEMMA ProduceStream ==
  ASSUME TypeOK, NEW c \in Client, StreamOf(c), Produce
  PROVE  StreamOf(c)'
<1> DEFINE s == channel[c]
           p == nextSeq[c]
<1>1. /\ written' = written + 1 /\ phase'[c] = phase[c] /\ nextSeq'[c] = p
      /\ \/ c \in subscribers /\ c \in subscribers' /\ notice'[c] = notice[c]
            /\ channel'[c] = Append(s, Output(written'))
         \/ c \in subscribers /\ c \notin subscribers' /\ notice'[c] /\ channel'[c] = s
         \/ c \notin subscribers /\ WireKept(c)
  BY ProduceEffect DEF RestKept, ReceivedKept
<1>2. CASE /\ c \in subscribers /\ c \in subscribers' /\ notice'[c] = notice[c]
           /\ channel'[c] = Append(s, Output(written'))
  <2> DEFINE e == Output(written')
  <2>1. e \in Events /\ e.kind = "output" /\ e.byte = written'
    BY ConstantsAssumption DEF Output, Events, Byte, TypeOK, Produce
  <2>2. /\ phase[c] \in {"replayed", "up"} /\ ~notice[c] /\ Chained(s, p)
        /\ \A i \in 1..Len(s) : s[i].kind # "slow"
        /\ After(s, p, Len(s)) = written /\ s \in Seq(Events)
    BY <1>2 DEF StreamOf, HasSlow, TypeOK
  <2> HIDE DEF s, p, e
  <2>3. e.byte = After(s, p, Len(s)) + 1
    BY <1>1, <2>1, <2>2
  <2>4. /\ Len(Append(s, e)) = Len(s) + 1 /\ Len(s) \in Nat
        /\ \A i \in 1..Len(s) : Append(s, e)[i] = s[i]
        /\ Append(s, e)[Len(s) + 1] = e
        /\ Chained(Append(s, e), p)
        /\ After(Append(s, e), p, Len(s) + 1) = e.byte
    BY <2>1, <2>2, <2>3, ChainAppend
  <2>5. channel'[c] = Append(s, e)
    BY <1>2 DEF s, e
  <2>6. ~HasSlow(c)'
    <3>1. SUFFICES ASSUME NEW i \in 1..(Len(s) + 1) PROVE Append(s, e)[i].kind # "slow"
      BY <2>4, <2>5 DEF HasSlow
    <3>2. i \in 1..Len(s) \/ i = Len(s) + 1
      BY <2>4
    <3> QED
      BY <2>1, <2>2, <2>4, <3>2
  <2> QED
    BY <1>1, <1>2, <2>1, <2>2, <2>4, <2>5, <2>6 DEF StreamOf
<1>3. CASE c \in subscribers /\ c \notin subscribers' /\ notice'[c] /\ channel'[c] = s
  <2>1. phase[c] \in {"replayed", "up"} /\ ~HasSlow(c) /\ Chained(s, p)
    BY <1>3 DEF StreamOf
  <2>2. ~HasSlow(c)'
    BY <1>3, <2>1 DEF HasSlow
  <2> QED
    BY <1>1, <1>3, <2>1, <2>2 DEF StreamOf
<1>4. CASE c \notin subscribers /\ WireKept(c)
  BY <1>1, <1>4, StreamKept
<1> QED
  BY <1>1, <1>2, <1>3, <1>4

\* A step of terminal c keeps what StreamInv says of it.
LEMMA TerminalStream ==
  ASSUME TypeOK, StreamInv, NEW c \in Client, Terminal(c)
  PROVE  StreamOf(c)'
<1>1. StreamOf(c)
  BY DEF StreamInv
<1>2. CASE Open(c)
  BY <1>1, <1>2, OpenEffect, ConnectedStream DEF Connected
<1>3. CASE Reconnect(c)
  BY <1>1, <1>3, ReconnectEffect, ConnectedStream DEF Connected
<1>4. CASE Attached(c)
  BY <1>1, <1>4, AttachedEffect, StreamKept DEF ReceivedKept
<1>5. CASE Fallback(c)
  <2>1. phase[c] = "failed" /\ channel[c] = <<>> /\ WireKept(c)
    BY <1>5, FallbackEffect
  <2>2. c \notin subscribers /\ ~notice[c]
    BY <1>1, <2>1 DEF StreamOf
  <2> QED
    BY <2>1, <2>2, SilentStream DEF WireKept
<1>6. CASE GiveUp(c)
  <2>1. /\ phase[c] = "failed" /\ channel'[c] = <<>> /\ notice'[c] = notice[c]
        /\ (c \in subscribers' <=> c \in subscribers)
    BY <1>6, GiveUpEffect
  <2>2. c \notin subscribers /\ ~notice[c]
    BY <1>1, <2>1 DEF StreamOf
  <2> QED
    BY <2>1, <2>2, SilentStream
<1>7. CASE Disconnect(c)
  BY <1>7, DisconnectEffect, SilentStream DEF WentOffline
<1>8. CASE Attach(c)
  BY <1>1, <1>8, AttachStream
<1>9. CASE AttachTooSlow(c)
  BY <1>1, <1>9, AttachTooSlowStream
<1>10. CASE SendSlow(c)
  BY <1>1, <1>10, SendSlowStream
<1>11. CASE DropSlow(c)
  <2>1. /\ notice[c] /\ phase'[c] = phase[c] /\ (c \in subscribers' <=> c \in subscribers)
        /\ channel'[c] = channel[c] /\ ~notice'[c] /\ nextSeq'[c] = nextSeq[c] /\ written' = written
    BY <1>11, DropSlowEffect DEF RestKept, ReceivedKept
  <2> QED
    BY <1>1, <2>1 DEF StreamOf, HasSlow
<1>12. CASE ReceiveEvent(c)
  BY <1>1, <1>12, ReceiveEventStream
<1>13. CASE ReceiveSlow(c)
  BY <1>13, ReceiveSlowEffect, SilentStream DEF WentOffline
<1>14. CASE Parse(c)
  BY <1>1, <1>14, ParseEffect, StreamKept
<1>15. CASE Snapshot(c)
  BY <1>1, <1>15, SnapshotEffect, StreamKept DEF ReceivedKept
<1>16. CASE SaveCheckpoint(c)
  BY <1>1, <1>16, SaveCheckpointEffect, StreamKept DEF ReceivedKept
<1>17. CASE QueueCheckpoint(c)
  BY <1>1, <1>17, QuietEffect, UntouchedStream
<1> QED
  BY <1>2, <1>3, <1>4, <1>5, <1>6, <1>7, <1>8, <1>9, <1>10, <1>11, <1>12, <1>13, <1>14, <1>15, <1>16, <1>17
     DEF Terminal

\* A step of terminal c leaves the others, and what is written, alone.
LEMMA OthersUntouched ==
  ASSUME TypeOK, NEW c \in Client, Terminal(c)
  PROVE  written' = written /\ \A d \in Client \ {c} : Untouched(d)
BY OpenEffect, ReconnectEffect, AttachedEffect, FallbackEffect, GiveUpEffect, DisconnectEffect, AttachEffect,
   AttachTooSlowEffect, SendSlowEffect, DropSlowEffect, ReceiveEventEffect, ReceiveSlowEffect, ParseEffect,
   SnapshotEffect, SaveCheckpointEffect, QuietEffect DEF Terminal

LEMMA StepStream ==
  ASSUME TypeOK, StreamInv, [Next]_vars
  PROVE  StreamInv'
<1> SUFFICES ASSUME NEW d \in Client PROVE StreamOf(d)'
  BY DEF StreamInv
<1>1. StreamOf(d)
  BY DEF StreamInv
<1>2. CASE EnqueueOutput \/ JournalWriter \/ UNCHANGED vars
  BY <1>1, <1>2, QuietEffect, UntouchedStream
<1>3. CASE Produce
  BY <1>1, <1>3, ProduceStream
<1>4. ASSUME NEW c \in Client, Terminal(c)
      PROVE  StreamOf(d)'
  <2>1. CASE d = c
    BY <1>4, <2>1, TerminalStream
  <2>2. CASE d # c
    BY <1>1, <1>4, <2>2, OthersUntouched, UntouchedStream
  <2> QED
    BY <2>1, <2>2
<1> QED
  BY <1>2, <1>3, <1>4 DEF Next

\* The replay and the live stream join without gap or overlap, whatever is
\* written, forgotten, dropped or stored meanwhile, whichever connections are
\* cut and whichever attaches fail: acceptOutputSequence is always handed the
\* byte it expects.
THEOREM StreamsJoin == Spec => []InSequence
<1>1. Init => TypeOK /\ StreamInv
  BY InitType, InitStream
<1>2. TypeOK /\ StreamInv /\ [Next]_vars => TypeOK' /\ StreamInv'
  BY StepType, StepStream
<1>3. TypeOK /\ StreamInv => InSequence
  <2>1. SUFFICES ASSUME TypeOK, StreamInv, NEW c \in Client, channel[c] # <<>>, Head(channel[c]).kind = "output"
                 PROVE  Head(channel[c]).byte = nextSeq[c] + 1
    BY DEF InSequence
  <2>2. /\ channel[c] \in Seq(Events) /\ Head(channel[c]) = channel[c][1] /\ 1 \in 1..Len(channel[c])
        /\ Chained(channel[c], nextSeq[c])
    BY <2>1 DEF TypeOK, StreamInv, StreamOf
  <2>3. channel[c][1].byte = After(channel[c], nextSeq[c], 1 - 1) + 1
    BY <2>1, <2>2 DEF Chained
  <2> QED
    BY <2>2, <2>3 DEF After
<1> QED
  BY <1>1, <1>2, <1>3, PTL DEF Spec

-----------------------------------------------------------------------------
(* Pieces of the output.                                                   *)

\* A piece counts up.
LEMMA PieceCounts ==
  ASSUME NEW s \in Seq(Byte), s # <<>>
  PROVE  /\ Len(s) \in Nat \ {0} /\ s[1] \in Nat \ {0} /\ s[Len(s)] \in Byte
         /\ View!IsWindow(s) <=> \A i \in 1..Len(s) : s[i] = s[1] + i - 1
<1>1. Len(s) \in Nat \ {0}
  BY EmptySeq
<1>2. \A i \in 1..Len(s) : s[i] \in Byte
  OBVIOUS
<1>3. 1 \in 1..Len(s) /\ Len(s) \in 1..Len(s)
  BY <1>1
<1>4. s[1] \in Byte /\ s[Len(s)] \in Byte
  BY <1>2, <1>3
<1>5. \A b \in Byte : b \in Nat \ {0}
  BY ConstantsAssumption DEF Byte
<1>6. s[1] \in Nat \ {0} /\ s[Len(s)] \in Nat \ {0}
  BY <1>4, <1>5
<1>7. View!IsWindow(s) <=> s = [i \in 1..(s[Len(s)] + 1 - s[1]) |-> s[1] + i - 1]
  BY DEF View!IsWindow, View!Window
<1>8. s = [i \in 1..Len(s) |-> s[i]]
  OBVIOUS
<1>9. ASSUME View!IsWindow(s)
      PROVE  \A i \in 1..Len(s) : s[i] = s[1] + i - 1
  <2> DEFINE a == s[1]
             l == s[Len(s)] + 1 - a
  <2>1. s = [i \in 1..l |-> a + i - 1]
    BY <1>7, <1>9
  <2>2. DOMAIN s = 1..l /\ DOMAIN s = 1..Len(s)
    BY <2>1, <1>8
  <2> HIDE DEF a, l
  <2>3. \A i \in 1..l : s[i] = a + i - 1
    BY <2>1
  <2> QED
    BY <2>2, <2>3 DEF a
<1>10. ASSUME \A i \in 1..Len(s) : s[i] = s[1] + i - 1
       PROVE  View!IsWindow(s)
  <2>1. s[Len(s)] = s[1] + Len(s) - 1
    BY <1>3, <1>10
  <2>2. s[Len(s)] + 1 - s[1] = Len(s)
    BY <1>1, <1>6, <2>1
  <2>3. s = [i \in 1..Len(s) |-> s[1] + i - 1]
    BY <1>8, <1>10
  <2> QED
    BY <1>7, <2>2, <2>3
<1> QED
  BY <1>1, <1>4, <1>6, <1>9, <1>10

LEMMA EmptyPiece == ASSUME NEW n PROVE IsPiece(<<>>, n)
BY DEF IsPiece, View!IsWindow

\* A piece followed by the next byte is a piece.
LEMMA PieceGrows ==
  ASSUME NEW s \in Seq(Byte), NEW n \in Nat, n + 1 \in Byte, IsPiece(s, n)
  PROVE  IsPiece(s \o <<n + 1>>, n + 1)
<1> DEFINE t == s \o <<n + 1>>
           k == Len(s)
<1>1. <<n + 1>> \in Seq(Byte)
  OBVIOUS
<1>2. k \in Nat /\ t \in Seq(Byte) /\ Len(t) = k + 1 /\ t[k + 1] = n + 1 /\ \A i \in 1..k : t[i] = s[i]
  BY <1>1
<1> HIDE DEF t
<1>3. t # <<>>
  BY <1>2, EmptySeq
<1>4. \A i \in 1..(k + 1) : t[i] = t[1] + i - 1
  <2>1. CASE s = <<>>
    <3>1. k = 0
      BY <2>1, EmptySeq
    <3>2. t[1] = n + 1
      BY <1>2, <3>1
    <3> QED
      BY <3>1, <3>2
  <2>2. CASE s # <<>>
    <3>1. /\ k \in Nat \ {0} /\ s[1] \in Nat
          /\ \A i \in 1..k : s[i] = s[1] + i - 1
          /\ s[k] = n
      BY <2>2, PieceCounts DEF IsPiece, Last
    <3>2. n = s[1] + k - 1
      BY <3>1
    <3>3. t[1] = s[1]
      BY <1>2, <3>1
    <3>4. SUFFICES ASSUME NEW i \in 1..(k + 1) PROVE t[i] = t[1] + i - 1
      OBVIOUS
    <3>5. CASE i = k + 1
      BY <1>2, <3>1, <3>2, <3>3, <3>5
    <3>6. CASE i # k + 1
      <4>1. i \in 1..k
        BY <1>2, <3>6
      <4> QED
        BY <1>2, <3>1, <3>3, <4>1
    <3> QED
      BY <3>5, <3>6
  <2> QED
    BY <2>1, <2>2
<1>5. View!IsWindow(t)
  BY <1>2, <1>3, <1>4, PieceCounts
<1>6. Last(t) = n + 1
  BY <1>2 DEF Last
<1> QED
  BY <1>5, <1>6 DEF IsPiece, t

-----------------------------------------------------------------------------
(* Screens, where every terminal attaches and no read stalls.              *)

Undisturbed == Spawner = {} /\ Restorer = {} /\ "stall" \notin Upsets

LEMMA InitExact == Undisturbed /\ Init => ExactInv
<1> SUFFICES ASSUME Undisturbed, Init PROVE ExactInv
  OBVIOUS
<1>1. CheckpointExact
  BY DEF Init, CheckpointExact
<1>2. ASSUME NEW c \in Client
      PROVE  ExactOf(c)
  <2>1. /\ written = 0 /\ phase[c] = "new" /\ known[c] /\ nextSeq[c] = 0 /\ parsedSeq[c] = 0
        /\ unparsed[c] = <<>> /\ screen[c] = <<>> /\ channel[c] = <<>> /\ snapshot[c] = None
    BY DEF Init, Undisturbed
  <2>2. Len(<<>>) = 0
    BY EmptySeq
  <2>3. IsPiece(screen[c], parsedSeq[c])
    BY <2>1, EmptyPiece
  <2> QED
    BY <2>1, <2>2, <2>3 DEF ExactOf, Parsed
<1> QED
  BY <1>1, <1>2 DEF ExactInv

\* What ExactOf speaks of is the same, or it is nothing.
LEMMA ExactKept ==
  ASSUME TypeOK, NEW c \in Client, ExactOf(c), ReceivedKept(c), screen'[c] = screen[c], known'[c],
         written \in Nat, written' \in Nat, written <= written',
         channel'[c] = channel[c] \/ channel'[c] = <<>> \/ (\A i \in 1..Len(channel'[c]) : Fits(c, i)'),
         \/ snapshot'[c] = snapshot[c] \/ snapshot'[c] = None
         \/ snapshot'[c] = [through |-> parsedSeq[c], ansi |-> screen[c]],
         \/ phase'[c] \in {"replayed", "up", "down"}
         \/ phase'[c] = phase[c] /\ after'[c] = after[c]
  PROVE  ExactOf(c)'
<1>1. /\ nextSeq[c] \in Nat /\ parsedSeq[c] \in Nat
      /\ snapshot[c] # None => snapshot[c].through \in Nat
  BY ConstantsAssumption DEF TypeOK, Checkpoint
<1>2. /\ nextSeq'[c] = nextSeq[c] /\ parsedSeq'[c] = parsedSeq[c] /\ unparsed'[c] = unparsed[c]
  BY DEF ReceivedKept
<1>3. \A i \in 1..Len(unparsed[c]) : Renders(c, i)'
  <2>1. SUFFICES ASSUME NEW i \in 1..Len(unparsed[c]) PROVE Renders(c, i)'
    OBVIOUS
  <2>2. Renders(c, i)
    BY DEF ExactOf
  <2>3. unparsed[c][i].end \in Nat /\ unparsed[c][i].end <= written'
    BY <2>2 DEF Renders
  <2> QED
    BY <1>2, <2>2, <2>3 DEF Renders, Parsed
<1>4. \A i \in 1..Len(channel'[c]) : Fits(c, i)'
  <2>1. CASE channel'[c] = <<>>
    BY <2>1, EmptySeq
  <2>2. CASE channel'[c] = channel[c]
    <3>1. SUFFICES ASSUME NEW i \in 1..Len(channel[c]) PROVE Fits(c, i)'
      BY <2>2
    <3>2. Fits(c, i)
      BY DEF ExactOf
    <3>3. After(channel[c], nextSeq[c], i) \in 0..written'
      BY <3>2 DEF Fits
    <3> QED
      BY <1>2, <2>2, <3>2, <3>3 DEF Fits
  <2> QED
    BY <2>1, <2>2
<1>5. /\ known'[c] /\ phase'[c] \in {"new", "reattaching", "replayed", "up", "down"}
      /\ phase'[c] \in {"new", "reattaching"} => unparsed'[c] = <<>>
      /\ phase'[c] = "reattaching" => after'[c] \in {None, parsedSeq'[c]}
  BY <1>2 DEF ExactOf
<1>6. snapshot'[c] # None => IsPiece(snapshot'[c].ansi, snapshot'[c].through) /\ snapshot'[c].through <= written'
  BY <1>1 DEF ExactOf
<1>7. nextSeq'[c] = Parsed(c, Len(unparsed[c]))' /\ nextSeq'[c] <= written' /\ parsedSeq'[c] <= written'
  BY <1>1, <1>2 DEF ExactOf, Parsed
<1>8. IsPiece(screen'[c], parsedSeq'[c])
  BY <1>2 DEF ExactOf
<1> QED
  BY <1>2, <1>3, <1>4, <1>5, <1>6, <1>7, <1>8 DEF ExactOf

LEMMA UntouchedExact ==
  ASSUME TypeOK, NEW d \in Client, ExactOf(d), Untouched(d), written \in Nat, written' \in Nat, written <= written'
  PROVE  ExactOf(d)'
<1>1. known'[d]
  BY DEF ExactOf, Untouched
<1> QED
  BY <1>1, ExactKept DEF Untouched, ReceivedKept

LEMMA ConnectedExact ==
  ASSUME TypeOK, Undisturbed, NEW c \in Client, ExactOf(c), StreamOf(c), written' = written,
         NEW seq, Connected(c, seq), seq \in {None, parsedSeq[c]},
         phase[c] \in {"new", "down"}, unparsed[c] = <<>>,
         screen'[c] \in {<<>>, screen[c]}
  PROVE  ExactOf(c)'
<1>1. /\ known'[c] /\ phase'[c] = "reattaching" /\ after'[c] = seq /\ ReceivedKept(c)
      /\ channel'[c] = channel[c] /\ snapshot'[c] = snapshot[c]
  BY DEF Connected, ExactOf, Undisturbed, WireKept
<1>2. channel[c] = <<>>
  BY DEF StreamOf
<1>3. /\ nextSeq'[c] = nextSeq[c] /\ parsedSeq'[c] = parsedSeq[c] /\ unparsed'[c] = unparsed[c]
  BY <1>1 DEF ReceivedKept
<1>4. Len(<<>>) = 0
  BY EmptySeq
<1>5. IsPiece(screen'[c], parsedSeq'[c])
  BY <1>3, EmptyPiece DEF ExactOf
<1> QED
  BY <1>1, <1>2, <1>3, <1>4, <1>5 DEF ExactOf, Parsed

LEMMA OpenExact ==
  ASSUME TypeOK, Undisturbed, NEW c \in Client, ExactOf(c), StreamOf(c), Open(c)
  PROVE  ExactOf(c)'
<1>1. phase[c] = "new" /\ written' = written /\ Connected(c, None) /\ screen'[c] \in Restorable(c)
  BY OpenEffect
<1>2. screen'[c] \in {<<>>, screen[c]}
  BY <1>1 DEF Restorable, Undisturbed
<1>3. unparsed[c] = <<>>
  BY <1>1 DEF ExactOf
<1> QED
  BY <1>1, <1>2, <1>3, ConnectedExact

\* Nothing is left to parse when all writes have been acknowledged.
LEMMA IdleEmpty ==
  ASSUME TypeOK, NEW c \in Client, ExactOf(c), ParserIdle(c)
  PROVE  unparsed[c] = <<>> /\ nextSeq[c] = parsedSeq[c]
<1>1. \A i \in 1..Len(unparsed[c]) : unparsed[c][i].end \in Nat
  BY DEF ExactOf, Renders
<1>2. None \notin Nat
  BY ConstantsAssumption
<1>3. unparsed[c] \in Seq(Chunk)
  BY DEF TypeOK
<1>4. DOMAIN unparsed[c] = 1..Len(unparsed[c]) /\ Len(unparsed[c]) \in Nat
  BY <1>3
<1>5. \A i \in 1..Len(unparsed[c]) : FALSE
  BY <1>1, <1>2, <1>4 DEF ParserIdle, Tracked
<1>6. Len(unparsed[c]) = 0
  BY <1>4, <1>5
<1>7. unparsed[c] = <<>>
  BY <1>3, <1>6, EmptySeq
<1>8. nextSeq[c] = parsedSeq[c]
  BY <1>6 DEF ExactOf, Parsed
<1> QED
  BY <1>7, <1>8

LEMMA ReconnectExact ==
  ASSUME TypeOK, Undisturbed, NEW c \in Client, ExactOf(c), StreamOf(c), Reconnect(c)
  PROVE  ExactOf(c)'
<1>1. /\ phase[c] = "down" /\ written' = written /\ Connected(c, parsedSeq[c]) /\ screen'[c] = screen[c]
      /\ known[c] => ParserIdle(c)
  BY ReconnectEffect
<1>2. unparsed[c] = <<>>
  BY <1>1, IdleEmpty DEF ExactOf
<1> QED
  BY <1>1, <1>2, ConnectedExact

\* The kinds of the events of a replay.
LEMMA ReplayKinds ==
  ASSUME TypeOK, NEW c \in Client, NEW i \in 1..Len(Replay(c))
  PROVE  /\ Replay(c)[i].kind = "begin" => i = 1
         /\ Replay(c)[i].kind = "checkpoint" => i = 2 /\ Lead(c) = 2
<1> DEFINE r == Replay(c)
           n == written - Plan(c).base
           l == Lead(c)
<1>1. written \in Nat /\ Plan(c).base \in Nat /\ Plan(c).base <= written
  BY PlanBounds
<1>2. l \in {1, 2} /\ n \in Nat /\ Len(r) = l + n + 1
  BY <1>1, ReplayEvents DEF Lead
<1>3. \A j \in 1..n : r[l + j].kind = "output"
  <2>1. \A j \in 1..n : r[l + j] = Output(Plan(c).base + j)
    BY ReplayEvents
  <2> HIDE DEF r, n, l
  <2>2. SUFFICES ASSUME NEW j \in 1..n PROVE r[l + j].kind = "output"
    OBVIOUS
  <2>3. r[l + j] = Output(Plan(c).base + j)
    BY <2>1
  <2> QED
    BY <2>3 DEF Output
<1>4. r[Len(r)].kind = "end" /\ r[1].kind = "begin"
  <2>1. r[Len(r)] = End(written) /\ r[1] = Begin(Plan(c).reset, Plan(c).base)
    BY ReplayEvents
  <2> HIDE DEF r
  <2> QED
    BY <2>1 DEF End, Begin
<1> HIDE DEF r, n, l
<1>5. i = 1 \/ (i = 2 /\ l = 2) \/ i - l \in 1..n \/ i = Len(r)
  BY <1>2 DEF r
<1>6. CASE i = 1
  BY <1>4, <1>6 DEF r
<1>7. CASE i = 2 /\ l = 2
  <2>1. r[2] = CheckpointChunk(checkpoint.ansi)
    BY <1>7, ReplayEvents DEF r, l
  <2> QED
    BY <1>7, <2>1 DEF r, l, CheckpointChunk
<1>8. CASE i - l \in 1..n
  <2>1. l + (i - l) = i
    BY <1>2
  <2>2. r[i].kind = "output"
    BY <1>3, <1>8, <2>1
  <2> QED
    BY <2>2 DEF r
<1>9. CASE i = Len(r)
  BY <1>4, <1>9 DEF r
<1> QED
  BY <1>5, <1>6, <1>7, <1>8, <1>9

LEMMA AttachExact ==
  ASSUME TypeOK, CheckpointExact, NEW c \in Client, ExactOf(c), StreamOf(c), Attach(c)
  PROVE  ExactOf(c)'
<1> DEFINE r == Replay(c)
           p == nextSeq[c]
           base == Plan(c).base
           reset == Plan(c).reset
<1>1. /\ phase[c] \in {"reattaching", "attaching"} /\ written' = written
      /\ phase'[c] = "replayed" /\ channel'[c] = channel[c] \o r /\ RestKept(c)
  BY AttachEffect
<1>2. phase[c] = "reattaching" /\ unparsed[c] = <<>> /\ after[c] \in {None, parsedSeq[c]}
  BY <1>1 DEF ExactOf
<1>3. /\ channel'[c] = r /\ r \in Seq(Events) /\ Len(r) \in Nat \ {0}
  <2>1. channel[c] = <<>> /\ r \in Seq(Events)
    BY <1>1, ReplayEvents DEF StreamOf
  <2> HIDE DEF r
  <2>2. channel'[c] = r
    BY <1>1, <2>1
  <2>3. Len(r) \in Nat \ {0}
    <3>1. Len(r) = Lead(c) + (written - base) + 1
      BY ReplayEvents DEF r
    <3>2. Lead(c) \in {1, 2}
      BY DEF Lead
    <3>3. written \in Nat /\ base \in Nat /\ base <= written
      BY PlanBounds
    <3> HIDE DEF base
    <3> QED
      BY <3>1, <3>2, <3>3
  <2> QED
    BY <2>1, <2>2, <2>3
<1>4. r[1] = Begin(reset, base) /\ (Lead(c) = 2 => r[2] = CheckpointChunk(checkpoint.ansi))
  BY ReplayEvents
<1>5. \A i \in 1..Len(r) : After(r, p, i) \in 0..written
  <2>1. \A i \in 1..Len(r) : After(r, p, i) \in Nat /\ After(r, p, i) <= written
    BY ReplayChained
  <2>2. written \in Nat
    BY ConstantsAssumption DEF TypeOK
  <2> QED
    BY <2>1, <2>2
<1>6. \A i \in 1..Len(r) : /\ r[i].kind = "begin" => i = 1
                           /\ r[i].kind = "checkpoint" => i = 2 /\ Lead(c) = 2
  BY ReplayKinds
<1>7. ~reset => base = parsedSeq[c]
  BY <1>2, PlanBase
<1>8. Lead(c) = 2 => reset /\ checkpoint # None /\ base = checkpoint.through
  BY PlanBase DEF Lead
<1> HIDE DEF r, p, base, reset
<1>9. r[1].kind = "begin" /\ r[1].reset = reset /\ r[1].base = base
  BY <1>4 DEF Begin
<1>10. After(r, p, 1) = base
  BY <1>3, <1>9, AfterEvent
<1>11. Lead(c) = 2 => r[2].ansi = checkpoint.ansi /\ IsPiece(checkpoint.ansi, base)
  BY <1>4, <1>8 DEF CheckpointChunk, CheckpointExact
<1>12. /\ nextSeq'[c] = p /\ parsedSeq'[c] = parsedSeq[c] /\ unparsed'[c] = unparsed[c] /\ screen'[c] = screen[c]
       /\ known'[c] = known[c] /\ snapshot'[c] = snapshot[c]
  BY <1>1 DEF RestKept, ReceivedKept, p
<1>13. \A i \in 1..Len(r) : Fits(c, i)'
  <2>1. SUFFICES ASSUME NEW i \in 1..Len(r)
                 PROVE  /\ After(r, p, i) \in 0..written
                        /\ r[i].kind = "begin" => /\ i = 1 /\ unparsed[c] = <<>>
                                                  /\ ~r[i].reset => r[i].base = parsedSeq[c]
                        /\ r[i].kind = "checkpoint" =>
                             /\ IsPiece(r[i].ansi, After(r, p, i - 1))
                             /\ i = 1 => unparsed[c] = <<>> /\ screen[c] = <<>>
                             /\ i # 1 => i = 2 /\ r[1].reset
    BY <1>1, <1>3, <1>12 DEF Fits
  <2>2. r[i].kind = "begin" => /\ i = 1 /\ unparsed[c] = <<>>
                               /\ ~r[i].reset => r[i].base = parsedSeq[c]
    BY <1>2, <1>6, <1>7, <1>9
  <2>3. r[i].kind = "checkpoint" =>
          /\ IsPiece(r[i].ansi, After(r, p, i - 1))
          /\ i = 2 /\ r[1].reset
    <3>1. SUFFICES ASSUME r[i].kind = "checkpoint"
                   PROVE  IsPiece(r[i].ansi, After(r, p, i - 1)) /\ i = 2 /\ r[1].reset
      OBVIOUS
    <3>2. i = 2 /\ Lead(c) = 2 /\ i - 1 = 1
      BY <1>6, <3>1
    <3> QED
      BY <1>8, <1>9, <1>10, <1>11, <3>2
  <2> QED
    BY <1>5, <2>2, <2>3
<1>14. Len(<<>>) = 0
  BY EmptySeq
<1> QED
  BY <1>1, <1>2, <1>3, <1>12, <1>13, <1>14 DEF ExactOf, Parsed, p

\* A begin received at once with what a cleared screen needs.
LEMMA ReceiveExact ==
  ASSUME TypeOK, NEW c \in Client, ExactOf(c), StreamOf(c), ReceiveEvent(c)
  PROVE  ExactOf(c)'
<1> DEFINE s == channel[c]
           p == nextSeq[c]
           q == After(s, p, 1)
           e == s[1]
           u == unparsed[c]
<1>1. /\ s \in Seq(Events) /\ s # <<>> /\ channel'[c] = Tail(s) /\ nextSeq'[c] = q
      /\ e = Head(s) /\ e \in Events /\ e.kind # "slow"
  BY ReceivedAfter
<1>2. /\ phase'[c] = phase[c] /\ known'[c] = known[c] /\ after'[c] = after[c] /\ snapshot'[c] = snapshot[c]
      /\ written' = written
  BY ReceiveEventEffect
<1>3. Chained(s, p)
  BY DEF StreamOf
<1>4. /\ Len(Tail(s)) = Len(s) - 1 /\ Len(s) \in Nat \ {0} /\ 1 \in 1..Len(s)
      /\ \A i \in 1..(Len(s) - 1) : Tail(s)[i] = s[i + 1]
      /\ \A i \in 0..(Len(s) - 1) : After(Tail(s), q, i) = After(s, p, i + 1)
  BY <1>1, <1>3, ChainTail
<1>5. \A i \in 1..Len(s) : Fits(c, i)
  BY DEF ExactOf
<1>6. written \in Nat /\ q \in 0..written /\ p \in Nat /\ u \in Seq(Chunk) /\ Len(u) \in Nat /\ parsedSeq[c] \in Nat
  BY <1>4, <1>5, ConstantsAssumption DEF Fits, TypeOK
\* What comes after e: no begin, and a checkpoint only after a begin.
<1>7. \A i \in 1..(Len(s) - 1) :
        /\ s[i + 1].kind # "begin"
        /\ s[i + 1].kind = "checkpoint" =>
             i = 1 /\ e.kind = "begin" /\ e.reset /\ IsPiece(s[i + 1].ansi, q)
  <2>1. SUFFICES ASSUME NEW i \in 1..(Len(s) - 1)
                 PROVE  /\ s[i + 1].kind # "begin"
                        /\ s[i + 1].kind = "checkpoint" =>
                             i = 1 /\ e.kind = "begin" /\ e.reset /\ IsPiece(s[i + 1].ansi, q)
    OBVIOUS
  <2>2. i + 1 \in 1..Len(s) /\ i + 1 # 1 /\ i + 1 - 1 = i
    BY <1>4
  <2>3. Fits(c, i + 1)
    BY <1>5, <2>2
  <2>4. s[i + 1].kind # "begin"
    BY <2>2, <2>3 DEF Fits
  <2>5. CASE s[i + 1].kind = "checkpoint"
    <3>1. IsPiece(s[i + 1].ansi, After(s, p, i)) /\ i + 1 = 2 /\ e.reset
      BY <2>2, <2>3, <2>5 DEF Fits
    <3>2. i = 1
      BY <3>1
    <3>3. s[i].kind = "begin"
      BY <1>3, <2>2, <2>5 DEF Chained
    <3> QED
      BY <2>4, <3>1, <3>2, <3>3
  <2> QED
    BY <2>4, <2>5
<1>8. e.kind = "begin" => u = <<>> /\ (~e.reset => e.base = parsedSeq[c])
  BY <1>4, <1>5 DEF Fits
<1>9. e.kind = "checkpoint" => u = <<>> /\ screen[c] = <<>> /\ IsPiece(e.ansi, p)
  <2>1. Fits(c, 1) /\ After(s, p, 1 - 1) = p
    BY <1>4, <1>5 DEF After
  <2> QED
    BY <2>1 DEF Fits
<1>10. phase'[c] \in {"replayed", "up", "down"}
  BY <1>1, <1>2 DEF ExactOf, StreamOf
\* The events left still fit.
<1>11. ASSUME e.kind = "begin" /\ e.reset => unparsed'[c] = <<>> /\ screen'[c] = <<>>
       PROVE  \A i \in 1..Len(channel'[c]) : Fits(c, i)'
  <2>1. SUFFICES ASSUME NEW i \in 1..(Len(s) - 1)
                 PROVE  Fits(c, i)'
    BY <1>1, <1>4
  <2>2. After(Tail(s), q, i) \in 0..written
    <3>1. i + 1 \in 1..Len(s) /\ i \in 0..(Len(s) - 1)
      BY <1>4
    <3>2. After(s, p, i + 1) \in 0..written
      BY <1>5, <3>1 DEF Fits
    <3> QED
      BY <1>4, <3>1, <3>2
  <2>3. Tail(s)[i] = s[i + 1]
    BY <1>4
  <2>4. Tail(s)[i].kind # "begin"
    BY <1>7, <2>3
  <2>5. CASE Tail(s)[i].kind = "checkpoint"
    <3>1. i = 1 /\ e.kind = "begin" /\ e.reset /\ IsPiece(Tail(s)[i].ansi, q)
      BY <1>7, <2>3, <2>5
    <3>2. After(Tail(s), q, i - 1) = q
      BY <3>1 DEF After
    <3> HIDE DEF q
    <3> QED
      BY <1>1, <1>2, <1>11, <2>2, <2>4, <3>1, <3>2 DEF Fits
  <2>6. CASE Tail(s)[i].kind # "checkpoint"
    <3> HIDE DEF q
    <3> QED
      BY <1>1, <1>2, <2>2, <2>4, <2>6 DEF Fits
  <2> QED
    BY <2>5, <2>6
\* The position and the writes in the buffer still agree.
<1>12. ASSUME /\ parsedSeq'[c] \in Nat /\ parsedSeq'[c] <= written
              /\ IsPiece(screen'[c], parsedSeq'[c])
              /\ nextSeq'[c] = Parsed(c, Len(unparsed[c]))'
              /\ \A i \in 1..Len(unparsed'[c]) : Renders(c, i)'
              /\ e.kind = "begin" /\ e.reset => unparsed'[c] = <<>> /\ screen'[c] = <<>>
       PROVE  ExactOf(c)'
  <2>1. \A i \in 1..Len(channel'[c]) : Fits(c, i)'
    BY <1>11, <1>12
  <2>2. nextSeq'[c] <= written'
    BY <1>1, <1>2, <1>6
  <2>3. /\ known'[c] /\ phase'[c] \in {"new", "reattaching", "replayed", "up", "down"}
        /\ snapshot'[c] # None => IsPiece(snapshot'[c].ansi, snapshot'[c].through) /\ snapshot'[c].through <= written'
    BY <1>2 DEF ExactOf
  <2>4. phase'[c] \notin {"new", "reattaching"}
    BY <1>10
  <2> HIDE DEF q
  <2> QED
    BY <1>2, <1>12, <2>1, <2>2, <2>3, <2>4 DEF ExactOf
<1>13. Len(<<>>) = 0
  BY EmptySeq
<1>14. /\ IsPiece(screen[c], parsedSeq[c]) /\ parsedSeq[c] <= written
       /\ p = Parsed(c, Len(u)) /\ \A i \in 1..Len(u) : Renders(c, i)
  BY DEF ExactOf
<1>15. CASE e.kind = "begin" /\ e.reset
  <2>1. nextSeq'[c] = e.base /\ parsedSeq'[c] = e.base /\ unparsed'[c] = Untrack(u) /\ screen'[c] = <<>>
    BY <1>1, <1>15, ReceiveEventEffect
  <2>2. unparsed'[c] = <<>>
    BY <1>6, <1>8, <1>15, <2>1, UntrackType
  <2>3. IsPiece(screen'[c], parsedSeq'[c])
    BY <2>1, EmptyPiece
  <2>4. parsedSeq'[c] \in Nat /\ parsedSeq'[c] <= written
    BY <1>1, <1>6, <2>1
  <2>5. nextSeq'[c] = Parsed(c, Len(unparsed[c]))'
    BY <1>13, <2>1, <2>2 DEF Parsed
  <2> HIDE DEF q, e, u
  <2>6. \A i \in 1..Len(unparsed'[c]) : Renders(c, i)'
    BY <1>13, <2>2
  <2> QED
    BY <1>12, <2>1, <2>2, <2>3, <2>4, <2>5, <2>6
<1>16. CASE e.kind = "begin" /\ ~e.reset
  <2>1. nextSeq'[c] = e.base /\ parsedSeq'[c] = parsedSeq[c] /\ unparsed'[c] = u /\ screen'[c] = screen[c]
    BY <1>1, <1>16, ReceiveEventEffect
  <2>2. u = <<>> /\ e.base = parsedSeq[c]
    BY <1>8, <1>16
  <2>3. nextSeq'[c] = Parsed(c, Len(unparsed[c]))'
    BY <1>13, <2>1, <2>2 DEF Parsed
  <2>4. \A i \in 1..Len(unparsed'[c]) : Renders(c, i)'
    BY <1>13, <2>1, <2>2
  <2> QED
    BY <1>6, <1>12, <1>14, <1>16, <2>1, <2>3, <2>4
<1>17. CASE e.kind = "checkpoint"
  <2> DEFINE w == [bytes |-> e.ansi, end |-> p]
  <2>1. nextSeq'[c] = p /\ parsedSeq'[c] = parsedSeq[c] /\ unparsed'[c] = Append(u, w) /\ screen'[c] = screen[c]
    BY <1>1, <1>17, ReceiveEventEffect
  <2>2. u = <<>> /\ screen[c] = <<>> /\ IsPiece(e.ansi, p) /\ p = parsedSeq[c]
    BY <1>9, <1>13, <1>14, <1>17 DEF Parsed
  <2>3. w.end = p /\ w.bytes = e.ansi
    OBVIOUS
  <2> HIDE DEF w
  <2>4. Len(unparsed'[c]) = 1 /\ unparsed'[c][1] = w
    BY <2>1, <2>2, <1>13
  <2>5. nextSeq'[c] = Parsed(c, Len(unparsed[c]))'
    BY <2>1, <2>3, <2>4 DEF Parsed
  <2>6. \A i \in 1..Len(unparsed'[c]) : Renders(c, i)'
    <3>1. Renders(c, 1)'
      BY <1>2, <1>6, <1>14, <2>1, <2>2, <2>3, <2>4 DEF Renders
    <3> QED
      BY <2>4, <3>1
  <2> QED
    BY <1>6, <1>12, <1>14, <1>17, <2>1, <2>5, <2>6
<1>18. CASE e.kind = "output"
  <2> DEFINE w == [bytes |-> <<e.byte>>, end |-> e.byte]
             n == Len(u)
  <2>1. nextSeq'[c] = e.byte /\ parsedSeq'[c] = parsedSeq[c] /\ unparsed'[c] = Append(u, w) /\ screen'[c] = screen[c]
    BY <1>1, <1>18, ReceiveEventEffect
  <2>2. e.byte = p + 1
    <3>1. e.byte = After(s, p, 1 - 1) + 1
      BY <1>3, <1>4, <1>18 DEF Chained
    <3> QED
      BY <3>1 DEF After
  <2>3. w.end = e.byte /\ w.bytes = <<e.byte>>
    OBVIOUS
  <2> HIDE DEF w
  <2>4. /\ Len(unparsed'[c]) = n + 1 /\ unparsed'[c][n + 1] = w /\ \A i \in 1..n : unparsed'[c][i] = u[i]
    BY <1>6, <2>1
  <2>5. nextSeq'[c] = Parsed(c, Len(unparsed[c]))'
    BY <1>6, <2>1, <2>3, <2>4 DEF Parsed
  <2>6. \A i \in 0..n : Parsed(c, i)' = Parsed(c, i)
    BY <1>6, <2>1, <2>4 DEF Parsed
  <2>7. \A i \in 1..Len(unparsed'[c]) : Renders(c, i)'
    <3>1. SUFFICES ASSUME NEW i \in 1..(n + 1) PROVE Renders(c, i)'
      BY <2>4
    <3>2. CASE i \in 1..n
      <4>1. Renders(c, i) /\ unparsed'[c][i] = u[i]
        BY <1>14, <2>4, <3>2
      <4>2. Parsed(c, i - 1)' = Parsed(c, i - 1)
        BY <1>6, <2>6, <3>2
      <4> QED
        BY <1>2, <2>1, <4>1, <4>2 DEF Renders
    <3>3. CASE i = n + 1
      <4>1. Parsed(c, i - 1)' = p
        BY <1>6, <1>14, <2>6, <3>3
      <4>2. e.byte \in Nat /\ e.byte <= written
        BY <1>1, <1>6, <2>1
      <4> HIDE DEF q, e
      <4> QED
        BY <1>2, <2>2, <2>3, <2>4, <3>3, <4>1, <4>2 DEF Renders
    <3> QED
      BY <1>6, <3>2, <3>3
  <2> QED
    BY <1>6, <1>12, <1>14, <1>18, <2>1, <2>5, <2>7
<1>19. CASE e.kind = "end"
  <2>1. nextSeq'[c] = e.next /\ parsedSeq'[c] = parsedSeq[c] /\ unparsed'[c] = u /\ screen'[c] = screen[c]
    BY <1>1, <1>19, ReceiveEventEffect
  <2>2. e.next = p
    <3>1. e.next = After(s, p, 1 - 1)
      BY <1>3, <1>4, <1>19 DEF Chained
    <3> QED
      BY <3>1 DEF After
  <2>3. nextSeq'[c] = Parsed(c, Len(unparsed[c]))'
    BY <1>14, <2>1, <2>2 DEF Parsed
  <2>4. \A i \in 1..Len(unparsed'[c]) : Renders(c, i)'
    BY <1>2, <1>14, <2>1 DEF Renders, Parsed
  <2> QED
    BY <1>6, <1>12, <1>14, <1>19, <2>1, <2>3, <2>4
<1>20. e.kind \in {"begin", "checkpoint", "output", "end"}
  BY <1>1, EventKinds
<1> QED
  BY <1>15, <1>16, <1>17, <1>18, <1>19, <1>20

\* One more event, of output or a warning.
LEMMA AppendFits ==
  ASSUME TypeOK, NEW c \in Client, ExactOf(c), Chained(channel[c], nextSeq[c]), ~HasSlow(c),
         ReceivedKept(c), screen'[c] = screen[c], written \in Nat, written' \in Nat, written <= written',
         NEW e \in Events, channel'[c] = Append(channel[c], e),
         \/ e.kind = "output" /\ e.byte = After(channel[c], nextSeq[c], Len(channel[c])) + 1 /\ e.byte \in 0..written'
         \/ e.kind = "slow"
  PROVE  \A i \in 1..Len(channel'[c]) : Fits(c, i)'
<1> DEFINE s == channel[c]
           p == nextSeq[c]
           t == Append(s, e)
<1>1. s \in Seq(Events) /\ Chained(s, p) /\ \A i \in 1..Len(s) : s[i].kind # "slow"
  BY DEF TypeOK, HasSlow
<1>2. /\ nextSeq'[c] = p /\ parsedSeq'[c] = parsedSeq[c] /\ unparsed'[c] = unparsed[c] /\ channel'[c] = t
  BY DEF ReceivedKept
<1>3. \A i \in 1..Len(s) : Fits(c, i)
  BY DEF ExactOf
<1> HIDE DEF s, p
<1>4. /\ e.kind = "output" => e.byte = After(s, p, Len(s)) + 1
      /\ e.kind \in {"output", "slow"}
  BY DEF s, p
<1>5. /\ t \in Seq(Events) /\ Len(t) = Len(s) + 1 /\ Len(s) \in Nat
      /\ \A i \in 1..Len(s) : t[i] = s[i]
      /\ t[Len(s) + 1] = e
      /\ \A i \in 0..Len(s) : After(t, p, i) = After(s, p, i)
      /\ e.kind = "output" => After(t, p, Len(s) + 1) = e.byte
  BY <1>1, <1>4, ChainAppend
<1> HIDE DEF t
<1>6. SUFFICES ASSUME NEW i \in 1..(Len(s) + 1) PROVE Fits(c, i)'
  BY <1>2, <1>5
<1>7. CASE i = Len(s) + 1
  <2>1. After(t, p, i) \in 0..written'
    <3>1. CASE e.kind = "output"
      BY <1>5, <1>7, <3>1
    <3>2. CASE e.kind = "slow"
      <4>1. i \in 1..Len(t) /\ t[i].kind = "slow"
        BY <1>5, <1>7, <3>2
      <4>2. After(t, p, i) = 0
        BY <1>5, <4>1, AfterEvent
      <4> QED
        BY <4>2
    <3> QED
      BY <1>4, <3>1, <3>2
  <2>2. t[i].kind # "begin" /\ t[i].kind # "checkpoint"
    BY <1>4, <1>5, <1>7
  <2> QED
    BY <1>2, <2>1, <2>2 DEF Fits
<1>8. CASE i # Len(s) + 1
  <2>1. i \in 1..Len(s) /\ i - 1 \in 0..Len(s) /\ i \in 0..Len(s) /\ t[i] = s[i] /\ t[1] = s[1]
    BY <1>5, <1>8
  <2>2. Fits(c, i) /\ After(t, p, i) = After(s, p, i) /\ After(t, p, i - 1) = After(s, p, i - 1)
    BY <1>3, <1>5, <2>1
  <2>3. After(s, p, i) \in 0..written'
    BY <2>2 DEF Fits, s, p
  <2> QED
    BY <1>2, <2>1, <2>2, <2>3 DEF Fits, s, p
<1> QED
  BY <1>7, <1>8

LEMMA SendSlowExact ==
  ASSUME TypeOK, NEW c \in Client, ExactOf(c), StreamOf(c), SendSlow(c)
  PROVE  ExactOf(c)'
<1>1. /\ notice[c] /\ written' = written /\ phase'[c] = phase[c] /\ channel'[c] = Append(channel[c], Slow)
      /\ known'[c] = known[c] /\ after'[c] = after[c]
      /\ ReceivedKept(c) /\ screen'[c] = screen[c] /\ snapshot'[c] = snapshot[c]
  BY SendSlowEffect DEF RestKept
<1>2. ~HasSlow(c) /\ Chained(channel[c], nextSeq[c]) /\ known[c]
  BY <1>1 DEF StreamOf, ExactOf
<1>3. Slow \in Events /\ Slow.kind = "slow"
  BY DEF Slow, Events
<1>4. written \in Nat
  BY ConstantsAssumption DEF TypeOK
<1>5. \A i \in 1..Len(channel'[c]) : Fits(c, i)'
  BY <1>1, <1>2, <1>3, <1>4, AppendFits
<1>6. written' \in Nat /\ written <= written' /\ known'[c]
  BY <1>1, <1>2, <1>4
<1> QED
  BY <1>1, <1>4, <1>5, <1>6, ExactKept

LEMMA ProduceExact ==
  ASSUME TypeOK, NEW c \in Client, ExactOf(c), StreamOf(c), Produce
  PROVE  ExactOf(c)'
<1>1. /\ written' = written + 1 /\ phase'[c] = phase[c]
      /\ known'[c] = known[c] /\ after'[c] = after[c]
      /\ ReceivedKept(c) /\ screen'[c] = screen[c] /\ snapshot'[c] = snapshot[c]
      /\ \/ c \in subscribers /\ channel'[c] = Append(channel[c], Output(written'))
         \/ channel'[c] = channel[c]
  BY ProduceEffect DEF RestKept, WireKept
<1>2. written \in Nat /\ known[c]
  BY ConstantsAssumption DEF TypeOK, ExactOf
<1>3. written' \in Nat /\ written <= written'
  BY <1>1, <1>2
<1>4. CASE c \in subscribers /\ channel'[c] = Append(channel[c], Output(written'))
  <2> DEFINE e == Output(written')
  <2>1. e \in Events /\ e.kind = "output" /\ e.byte = written'
    BY ConstantsAssumption DEF Output, Events, Byte, TypeOK, Produce
  <2>2. ~HasSlow(c) /\ Chained(channel[c], nextSeq[c]) /\ After(channel[c], nextSeq[c], Len(channel[c])) = written
    BY <1>4 DEF StreamOf
  <2>3. channel'[c] = Append(channel[c], e)
    BY <1>4
  <2> HIDE DEF e
  <2>4. e.byte = After(channel[c], nextSeq[c], Len(channel[c])) + 1 /\ e.byte \in 0..written'
    BY <1>1, <1>2, <2>1, <2>2
  <2>5. \A i \in 1..Len(channel'[c]) : Fits(c, i)'
    BY <1>1, <1>2, <1>3, <2>1, <2>2, <2>3, <2>4, AppendFits
  <2> QED
    BY <1>1, <1>2, <1>3, <2>5, ExactKept
<1>5. CASE channel'[c] = channel[c]
  BY <1>1, <1>2, <1>3, <1>5, ExactKept
<1> QED
  BY <1>1, <1>4, <1>5

\* xterm renders what is first in its buffer.
LEMMA ParseExact ==
  ASSUME TypeOK, NEW c \in Client, ExactOf(c), StreamOf(c), Parse(c)
  PROVE  /\ ExactOf(c)'
         /\ LET w == unparsed[c][1] IN
            \/ w.bytes = <<w.end>> /\ w.end = parsedSeq[c] + 1 /\ w.end \in Nat /\ w.end <= written
            \/ screen[c] = <<>> /\ w.end = parsedSeq[c] /\ IsPiece(w.bytes, w.end) /\ w.end <= written
<1> DEFINE u == unparsed[c]
           w == u[1]
           s == channel[c]
           p == nextSeq[c]
<1>1. /\ u # <<>> /\ written' = written /\ phase'[c] = phase[c] /\ known'[c] = known[c] /\ after'[c] = after[c]
      /\ channel'[c] = s /\ snapshot'[c] = snapshot[c] /\ nextSeq'[c] = p /\ unparsed'[c] = Tail(u)
      /\ screen'[c] = screen[c] \o w.bytes
      /\ parsedSeq'[c] = IF w.end # None /\ w.end > parsedSeq[c] THEN w.end ELSE parsedSeq[c]
  BY ParseEffect DEF WireKept
<1>2. u \in Seq(Chunk) /\ parsedSeq[c] \in Nat /\ screen[c] \in Seq(Byte) /\ written \in Nat /\ written <= MaxWritten
  BY ConstantsAssumption DEF TypeOK
<1>3. /\ Len(u) \in Nat \ {0} /\ 1 \in 1..Len(u) /\ Len(Tail(u)) = Len(u) - 1
      /\ \A i \in 1..(Len(u) - 1) : Tail(u)[i] = u[i + 1]
  BY <1>1, <1>2, EmptySeq
<1>4. w \in Chunk
  BY <1>2, <1>3
<1>5. w.bytes \in Seq(Byte)
  BY <1>4 DEF Chunk
<1>6. \A i \in 1..Len(u) : Renders(c, i)
  BY DEF ExactOf
<1>7. /\ w.end \in Nat /\ w.end <= written
      /\ \/ w.end = parsedSeq[c] + 1 /\ w.bytes = <<w.end>>
         \/ screen[c] = <<>> /\ w.end = parsedSeq[c] /\ IsPiece(w.bytes, w.end)
  <2>1. Renders(c, 1) /\ Parsed(c, 1 - 1) = parsedSeq[c]
    BY <1>3, <1>6 DEF Parsed
  <2> QED
    BY <2>1 DEF Renders
<1>8. parsedSeq'[c] = w.end
  <2>1. None \notin Nat
    BY ConstantsAssumption
  <2> HIDE DEF w
  <2> QED
    BY <1>1, <1>2, <1>7, <2>1
<1>9. IsPiece(screen'[c], parsedSeq'[c])
  <2>1. CASE w.end = parsedSeq[c] + 1 /\ w.bytes = <<w.end>>
    <3>1. parsedSeq[c] + 1 \in Byte
      BY <1>2, <1>7, <2>1, ConstantsAssumption DEF Byte
    <3>2. IsPiece(screen[c], parsedSeq[c])
      BY DEF ExactOf
    <3>3. IsPiece(screen[c] \o <<parsedSeq[c] + 1>>, parsedSeq[c] + 1)
      BY <1>2, <3>1, <3>2, PieceGrows
    <3> HIDE DEF w
    <3> QED
      BY <1>1, <1>8, <2>1, <3>3
  <2>2. CASE screen[c] = <<>> /\ w.end = parsedSeq[c] /\ IsPiece(w.bytes, w.end)
    <3>1. <<>> \o w.bytes = w.bytes
      BY <1>5
    <3> HIDE DEF w
    <3> QED
      BY <1>1, <1>8, <2>2, <3>1
  <2> QED
    BY <1>7, <2>1, <2>2
<1>10. \A i \in 0..(Len(u) - 1) : Parsed(c, i)' = Parsed(c, i + 1)
  <2>1. SUFFICES ASSUME NEW i \in 0..(Len(u) - 1) PROVE Parsed(c, i)' = Parsed(c, i + 1)
    OBVIOUS
  <2>2. CASE i = 0
    BY <1>8, <2>2 DEF Parsed
  <2>3. CASE i # 0
    <3>1. i \in 1..(Len(u) - 1) /\ i + 1 # 0
      BY <1>3, <2>3
    <3>2. unparsed'[c][i] = u[i + 1]
      BY <1>1, <1>3, <3>1
    <3> QED
      BY <2>3, <3>1, <3>2 DEF Parsed
  <2> QED
    BY <2>2, <2>3
<1>11. \A i \in 1..Len(unparsed'[c]) : Renders(c, i)'
  <2>1. SUFFICES ASSUME NEW i \in 1..(Len(u) - 1) PROVE Renders(c, i)'
    BY <1>1, <1>3
  <2>2. i + 1 \in 1..Len(u) /\ i + 1 # 1 /\ i + 1 - 1 = i /\ i - 1 \in 0..(Len(u) - 1) /\ i - 1 + 1 = i
    BY <1>3
  <2>3. Renders(c, i + 1) /\ unparsed'[c][i] = u[i + 1] /\ Parsed(c, i - 1)' = Parsed(c, i)
    BY <1>1, <1>3, <1>6, <1>10, <2>2
  <2>4. /\ u[i + 1].end \in Nat /\ u[i + 1].end <= written
        /\ u[i + 1].end = Parsed(c, i) + 1 /\ u[i + 1].bytes = <<u[i + 1].end>>
    BY <2>2, <2>3 DEF Renders
  <2> QED
    BY <1>1, <2>3, <2>4 DEF Renders
<1>12. \A i \in 1..Len(s) : Fits(c, i) /\ s[i].kind # "begin" /\ s[i].kind # "checkpoint"
  <2>1. SUFFICES ASSUME NEW i \in 1..Len(s) PROVE Fits(c, i) /\ s[i].kind # "begin" /\ s[i].kind # "checkpoint"
    OBVIOUS
  <2>2. \A j \in 1..Len(s) : Fits(c, j) /\ s[j].kind # "begin"
    BY <1>1 DEF ExactOf, Fits
  <2>3. CASE s[i].kind = "checkpoint"
    <3>1. i # 1
      BY <1>1, <2>2, <2>3 DEF Fits
    <3>2. i - 1 \in 1..Len(s) /\ s[i - 1].kind = "begin"
      <4>1. i = 1 \/ s[i - 1].kind = "begin"
        BY <2>3 DEF StreamOf, Chained
      <4> QED
        BY <3>1, <4>1
    <3> QED
      BY <2>2, <3>2
  <2> QED
    BY <2>2, <2>3
<1>13. \A i \in 1..Len(channel'[c]) : Fits(c, i)'
  <2>1. SUFFICES ASSUME NEW i \in 1..Len(s) PROVE Fits(c, i)'
    BY <1>1
  <2>2. After(s, p, i) \in 0..written /\ s[i].kind # "begin" /\ s[i].kind # "checkpoint"
    BY <1>12 DEF Fits
  <2> QED
    BY <1>1, <2>2 DEF Fits
<1>14. nextSeq'[c] = Parsed(c, Len(unparsed[c]))'
  <2>1. p = Parsed(c, Len(u))
    BY DEF ExactOf
  <2>2. PICK n \in Nat : n = Len(u) - 1
    BY <1>3
  <2>3. n \in 0..(Len(u) - 1) /\ n + 1 = Len(u) /\ n = Len(unparsed'[c])
    BY <1>1, <1>3, <2>2
  <2>4. Parsed(c, n)' = Parsed(c, n + 1)
    BY <1>10, <2>3
  <2>5. Parsed(c, Len(unparsed[c]))' = Parsed(c, n)'
    BY <2>3 DEF Parsed
  <2> QED
    BY <1>1, <2>1, <2>3, <2>4, <2>5
<1>15. phase[c] \notin {"new", "reattaching"}
  BY <1>1 DEF ExactOf
<1>16. ExactOf(c)'
  <2>1. /\ known'[c] /\ phase'[c] \in {"new", "reattaching", "replayed", "up", "down"}
        /\ snapshot'[c] # None => IsPiece(snapshot'[c].ansi, snapshot'[c].through) /\ snapshot'[c].through <= written'
        /\ nextSeq'[c] <= written'
    BY <1>1 DEF ExactOf
  <2>2. parsedSeq'[c] <= written'
    BY <1>1, <1>7, <1>8
  <2>3. phase'[c] \notin {"new", "reattaching"}
    BY <1>1, <1>15
  <2> QED
    BY <1>9, <1>11, <1>13, <1>14, <2>1, <2>2, <2>3 DEF ExactOf
<1> QED
  BY <1>7, <1>16

\* A step of terminal c keeps what ExactInv says of it.
LEMMA TerminalExact ==
  ASSUME TypeOK, Undisturbed, CheckpointExact, NEW c \in Client, ExactOf(c), StreamOf(c), Terminal(c)
  PROVE  ExactOf(c)'
<1>1. written \in Nat /\ written' \in Nat /\ written <= written'
  <2>1. written' = written
    BY OthersUntouched
  <2>2. written \in Nat
    BY ConstantsAssumption DEF TypeOK
  <2> QED
    BY <2>1, <2>2
<1>2. known[c] /\ phase[c] \in {"new", "reattaching", "replayed", "up", "down"}
  BY DEF ExactOf
<1>3. CASE Open(c)
  BY <1>3, OpenExact
<1>4. CASE Reconnect(c)
  BY <1>4, ReconnectExact
<1>5. CASE Attached(c)
  <2>1. /\ phase'[c] = "up" /\ known'[c] /\ ReceivedKept(c) /\ WireKept(c)
        /\ screen'[c] = screen[c] /\ snapshot'[c] = snapshot[c]
    BY <1>5, AttachedEffect
  <2> QED
    BY <1>1, <2>1, ExactKept DEF WireKept
<1>6. CASE Fallback(c)
  BY <1>2, <1>6, FallbackEffect
<1>7. CASE GiveUp(c)
  BY <1>2, <1>7, GiveUpEffect
<1>8. CASE Disconnect(c)
  <2>1. WentOffline(c) /\ known'[c]
    BY <1>2, <1>8, DisconnectEffect
  <2> QED
    BY <1>1, <2>1, ExactKept DEF WentOffline
<1>9. CASE Attach(c)
  BY <1>9, AttachExact
<1>10. CASE AttachTooSlow(c)
  BY <1>10, AttachTooSlowEffect DEF Undisturbed
<1>11. CASE SendSlow(c)
  BY <1>11, SendSlowExact
<1>12. CASE DropSlow(c)
  <2>1. phase'[c] = phase[c] /\ channel'[c] = channel[c] /\ RestKept(c)
    BY <1>12, DropSlowEffect
  <2> QED
    BY <1>1, <1>2, <2>1, ExactKept DEF RestKept
<1>13. CASE ReceiveEvent(c)
  BY <1>13, ReceiveExact
<1>14. CASE ReceiveSlow(c)
  <2>1. WentOffline(c) /\ known'[c]
    BY <1>14, ReceiveSlowEffect
  <2> QED
    BY <1>1, <2>1, ExactKept DEF WentOffline
<1>15. CASE Parse(c)
  BY <1>15, ParseExact
<1>16. CASE Snapshot(c)
  <2>1. /\ phase'[c] = phase[c] /\ known'[c] = known[c] /\ after'[c] = after[c]
        /\ WireKept(c) /\ ReceivedKept(c) /\ screen'[c] = screen[c]
        /\ snapshot'[c] = [through |-> parsedSeq[c], ansi |-> screen[c]]
    BY <1>16, SnapshotEffect
  <2> QED
    BY <1>1, <1>2, <2>1, ExactKept DEF WireKept
<1>17. CASE SaveCheckpoint(c)
  <2>1. /\ phase'[c] = phase[c] /\ known'[c] = known[c] /\ after'[c] = after[c]
        /\ WireKept(c) /\ ReceivedKept(c) /\ screen'[c] = screen[c] /\ snapshot'[c] = None
    BY <1>17, SaveCheckpointEffect
  <2> QED
    BY <1>1, <1>2, <2>1, ExactKept DEF WireKept
<1>18. CASE QueueCheckpoint(c)
  BY <1>1, <1>18, QuietEffect, UntouchedExact
<1> QED
  BY <1>3, <1>4, <1>5, <1>6, <1>7, <1>8, <1>9, <1>10, <1>11, <1>12, <1>13, <1>14, <1>15, <1>16, <1>17, <1>18
     DEF Terminal

\* A terminal's step changes the checkpoint only to a snapshot of its own.
LEMMA CheckpointFrom ==
  ASSUME TypeOK, NEW c \in Client, Terminal(c)
  PROVE  \/ checkpoint' = checkpoint /\ tailStart' = tailStart
         \/ /\ SaveCheckpoint(c) /\ snapshot[c] # None /\ snapshot[c] \in Checkpoint
            /\ Acceptable(snapshot[c].through) /\ checkpoint' = snapshot[c]
            /\ tailStart' = IF snapshot[c].through > tailStart THEN snapshot[c].through ELSE tailStart
<1>1. CASE SaveCheckpoint(c)
  BY <1>1, SaveCheckpointEffect
<1>2. CASE ~SaveCheckpoint(c)
  BY <1>2, OpenEffect, ReconnectEffect, AttachedEffect, FallbackEffect, GiveUpEffect, DisconnectEffect, AttachEffect,
     AttachTooSlowEffect, SendSlowEffect, DropSlowEffect, ReceiveEventEffect, ReceiveSlowEffect, ParseEffect,
     SnapshotEffect, QuietEffect DEF Terminal
<1> QED
  BY <1>1, <1>2

LEMMA StepExact ==
  ASSUME TypeOK, Undisturbed, StreamInv, ExactInv, [Next]_vars
  PROVE  ExactInv'
<1>1. CheckpointExact /\ \A c \in Client : ExactOf(c) /\ StreamOf(c)
  BY DEF ExactInv, StreamInv
<1>2. written \in Nat
  BY ConstantsAssumption DEF TypeOK
<1>3. CASE EnqueueOutput \/ JournalWriter \/ UNCHANGED vars
  <2>1. written' = written /\ checkpoint' = checkpoint /\ \A d \in Client : Untouched(d)
    BY <1>3, QuietEffect
  <2>2. ASSUME NEW d \in Client PROVE ExactOf(d)'
    BY <1>1, <1>2, <2>1, UntouchedExact
  <2> QED
    BY <1>1, <2>1, <2>2 DEF ExactInv, CheckpointExact
<1>4. CASE Produce
  <2>1. ASSUME NEW d \in Client PROVE ExactOf(d)'
    BY <1>1, <1>4, ProduceExact
  <2>2. checkpoint' = checkpoint
    BY <1>4 DEF Produce
  <2> QED
    BY <1>1, <2>1, <2>2 DEF ExactInv, CheckpointExact
<1>5. ASSUME NEW c \in Client, Terminal(c)
      PROVE  ExactInv'
  <2>1. ASSUME NEW d \in Client PROVE ExactOf(d)'
    <3>1. CASE d = c
      BY <1>1, <1>5, <3>1, TerminalExact
    <3>2. CASE d # c
      <4>1. written' = written /\ Untouched(d)
        BY <1>5, <3>2, OthersUntouched
      <4> QED
        BY <1>1, <1>2, <4>1, UntouchedExact
    <3> QED
      BY <3>1, <3>2
  <2>2. checkpoint' = checkpoint \/ (snapshot[c] # None /\ checkpoint' = snapshot[c])
    BY <1>5, CheckpointFrom
  <2>3. CheckpointExact'
    BY <1>1, <2>2 DEF CheckpointExact, ExactOf
  <2> QED
    BY <2>1, <2>3 DEF ExactInv
<1> QED
  BY <1>3, <1>4, <1>5 DEF Next

LEMMA ExactCorrect == ASSUME Undisturbed PROVE Spec => [](TypeOK /\ StreamInv /\ ExactInv)
<1>1. Init => TypeOK /\ StreamInv /\ ExactInv
  BY InitType, InitStream, InitExact
<1>2. TypeOK /\ StreamInv /\ ExactInv /\ [Next]_vars => (TypeOK /\ StreamInv /\ ExactInv)'
  BY StepType, StepStream, StepExact
<1> QED
  BY <1>1, <1>2, PTL DEF Spec

\* A screen shows a contiguous piece of the output that ends where AgentPty
\* says the parser is, through any number of attaches, resumed and reset,
\* truncated histories, lost connections, dropped streams and checkpoints of
\* other terminals.  Undisturbed leaves out the three ways a terminal comes to
\* start with a screen that is not empty or to keep it when it starts counting
\* anew: a spawn that finds the session running, a restored snapshot, and a
\* replay given up.
THEOREM ScreensExact == ASSUME Undisturbed PROVE Spec => []ScreenExact
<1>1. ExactInv => ScreenExact
  BY DEF ExactInv, ExactOf, IsPiece, ScreenExact
<1> QED
  BY <1>1, ExactCorrect, PTL

-----------------------------------------------------------------------------
(* The stream implements TerminalView.                                     *)

\* A terminal's screen changes only by being cleared or by what xterm parses.
LEMMA ScreenStep ==
  ASSUME TypeOK, Undisturbed, NEW c \in Client, ExactOf(c), Terminal(c)
  PROVE  Parse(c) \/ screen'[c] = screen[c] \/ screen'[c] = <<>>
<1>1. phase[c] # "failed" /\ "stall" \notin Upsets
  BY DEF ExactOf, Undisturbed
<1>2. CASE Open(c)
  BY <1>2, OpenEffect DEF Restorable, Undisturbed
<1>3. CASE Fallback(c) \/ GiveUp(c) \/ AttachTooSlow(c)
  BY <1>1, <1>3, FallbackEffect, GiveUpEffect, AttachTooSlowEffect
<1>4. CASE Reconnect(c) \/ Attached(c) \/ Snapshot(c) \/ SaveCheckpoint(c)
  BY <1>4, ReconnectEffect, AttachedEffect, SnapshotEffect, SaveCheckpointEffect
<1>5. CASE Disconnect(c) \/ ReceiveSlow(c)
  BY <1>5, DisconnectEffect, ReceiveSlowEffect DEF WentOffline
<1>6. CASE Attach(c) \/ SendSlow(c) \/ DropSlow(c)
  BY <1>6, AttachEffect, SendSlowEffect, DropSlowEffect DEF RestKept
<1>7. CASE QueueCheckpoint(c)
  BY <1>7, QuietEffect DEF Untouched
<1>8. CASE ReceiveEvent(c)
  BY <1>8, ReceiveEventEffect
<1> QED
  BY <1>2, <1>3, <1>4, <1>5, <1>6, <1>7, <1>8 DEF Terminal

\* What xterm parses is nothing, or output that has been written.
LEMMA ParsedShown ==
  ASSUME TypeOK, NEW c \in Client, ExactOf(c), StreamOf(c), Parse(c)
  PROVE  \/ screen'[c] = screen[c]
         \/ /\ View!IsWindow(screen'[c])
            /\ \E last \in 1..written : \E first \in 1..last :
                 screen'[c] = screen[c] \o View!Window(first, last)
<1> DEFINE w == unparsed[c][1]
           b == w.bytes
<1>1. /\ ExactOf(c)'
      /\ \/ b = <<w.end>> /\ w.end = parsedSeq[c] + 1 /\ w.end \in Nat /\ w.end <= written
         \/ screen[c] = <<>> /\ w.end = parsedSeq[c] /\ IsPiece(b, w.end) /\ w.end <= written
  BY ParseExact
<1>2. screen'[c] = screen[c] \o b /\ unparsed[c] # <<>>
  BY ParseEffect
<1>3. w \in Chunk
  <2>1. unparsed[c] \in Seq(Chunk)
    BY DEF TypeOK
  <2>2. 1 \in 1..Len(unparsed[c])
    BY <1>2, <2>1, EmptySeq
  <2> QED
    BY <2>1, <2>2
<1>4. b \in Seq(Byte) /\ screen[c] \in Seq(Byte) /\ written \in Nat /\ parsedSeq[c] \in Nat
  BY <1>3, ConstantsAssumption DEF TypeOK, Chunk
<1>5. View!IsWindow(screen'[c])
  BY <1>1 DEF ExactOf, IsPiece
<1> HIDE DEF w, b
<1>6. CASE b = <<w.end>> /\ w.end = parsedSeq[c] + 1 /\ w.end \in Nat /\ w.end <= written
  <2> DEFINE n == w.end
  <2>1. n \in 1..written /\ b = <<n>>
    BY <1>4, <1>6
  <2> HIDE DEF n
  <2>2. View!Window(n, n) = [i \in 1..1 |-> n]
    BY <1>4, <2>1 DEF View!Window
  <2>3. b = View!Window(n, n)
    BY <2>1, <2>2
  <2>4. n \in 1..n
    BY <1>4, <2>1
  <2> QED
    BY <1>2, <1>5, <2>1, <2>3, <2>4
<1>7. CASE screen[c] = <<>> /\ w.end = parsedSeq[c] /\ IsPiece(b, w.end) /\ w.end <= written
  <2>1. CASE b = <<>>
    BY <1>2, <1>4, <1>7, <2>1
  <2>2. CASE b # <<>>
    <3> DEFINE first == b[1]
               last == b[Len(b)]
    <3>1. Len(b) \in Nat \ {0} /\ first \in Nat \ {0} /\ \A i \in 1..Len(b) : b[i] = first + i - 1
      BY <1>4, <1>7, <2>2, PieceCounts DEF IsPiece
    <3>2. last = w.end
      BY <1>7, <2>2 DEF IsPiece, Last
    <3>3. b = View!Window(first, last)
      BY <1>7, <2>2 DEF IsPiece, View!IsWindow
    <3>4. last = first + Len(b) - 1
      <4>1. Len(b) \in 1..Len(b)
        BY <3>1
      <4> QED
        BY <3>1, <4>1
    <3> HIDE DEF first, last
    <3>5. last \in 1..written /\ first \in 1..last
      BY <1>4, <1>7, <3>1, <3>2, <3>4
    <3> QED
      BY <1>2, <1>5, <3>3, <3>5
  <2> QED
    BY <2>1, <2>2
<1> QED
  BY <1>1, <1>6, <1>7

\* A screen alone has changed.
LEMMA OneScreen ==
  ASSUME TypeOK, TypeOK', NEW c \in Client, \A d \in Client \ {c} : screen'[d] = screen[d]
  PROVE  screen' = [screen EXCEPT ![c] = screen'[c]]
BY DEF TypeOK

LEMMA StepView ==
  ASSUME TypeOK, Undisturbed, StreamInv, ExactInv, [Next]_vars
  PROVE  [View!Next]_<<written, screen>>
<1>1. TypeOK'
  BY StepType
<1>2. CASE EnqueueOutput \/ JournalWriter \/ UNCHANGED vars
  BY <1>2 DEF EnqueueOutput, JournalWriter, vars, sessionVars, terminalVars
<1>3. CASE Produce
  BY <1>3 DEF Produce, terminalVars, View!Next, View!Write
<1>4. ASSUME NEW c \in Client, Terminal(c)
      PROVE  [View!Next]_<<written, screen>>
  <2>1. ExactOf(c) /\ StreamOf(c)
    BY DEF ExactInv, StreamInv
  <2>2. written' = written /\ \A d \in Client \ {c} : screen'[d] = screen[d]
    BY <1>4, OthersUntouched DEF Untouched
  <2>3. screen' = [screen EXCEPT ![c] = screen'[c]]
    BY <1>1, <2>2, OneScreen
  <2>4. CASE screen'[c] = screen[c]
    <3>1. screen' = screen
      BY <2>3, <2>4 DEF TypeOK
    <3> QED
      BY <2>2, <3>1
  <2>5. CASE screen'[c] = <<>>
    <3>1. screen' = [screen EXCEPT ![c] = <<>>]
      BY <2>3, <2>5
    <3>2. View!Clear(c)
      BY <2>2, <3>1 DEF View!Clear
    <3> QED
      BY <3>2 DEF View!Next
  <2>6. CASE Parse(c) /\ screen'[c] # screen[c]
    <3> DEFINE shown == screen'[c]
    <3>1. View!IsWindow(shown)
      BY <2>1, <2>6, ParsedShown
    <3>2. \E last \in 1..written : \E first \in 1..last : shown = screen[c] \o View!Window(first, last)
      BY <2>1, <2>6, ParsedShown
    <3>3. screen' = [screen EXCEPT ![c] = shown]
      BY <2>3
    <3> HIDE DEF shown
    <3>4. View!Show(c)
      BY <2>2, <3>1, <3>2, <3>3 DEF View!Show
    <3> QED
      BY <3>4 DEF View!Next
  <2> QED
    BY <1>4, <2>1, <2>4, <2>5, <2>6, ScreenStep
<1> QED
  BY <1>2, <1>3, <1>4 DEF Next

\* Under the same hypothesis the whole machinery of journal, replay, queue and
\* parser implements TerminalView: a screen grows only by the bytes that follow
\* what it shows, or is cleared.
THEOREM ImplementsView == ASSUME Undisturbed PROVE Spec => ViewSpec
<1>1. Init => View!Init
  BY DEF Init, View!Init
<1>2. TypeOK /\ StreamInv /\ ExactInv /\ [Next]_vars => [View!Next]_<<written, screen>>
  BY StepView
<1> QED
  BY <1>1, <1>2, ExactCorrect, PTL DEF Spec, ViewSpec, View!Spec

-----------------------------------------------------------------------------
(* What a screen and a checkpoint contain, when moreover no connection is  *)
(* cut and no checkpoint taken in the middle of a replay.                  *)

Uninterrupted == Undisturbed /\ Upsets = {}

LEMMA InitWhole == Undisturbed /\ Init => WholeInv
<1> SUFFICES ASSUME Undisturbed, Init PROVE WholeInv
  OBVIOUS
<1>1. CheckpointWhole /\ TailKept
  BY DEF Init, CheckpointWhole, TailKept
<1>2. ASSUME NEW c \in Client
      PROVE  WholeOf(c)
  <2>1. nextSeq[c] = 0 /\ screen[c] = <<>> /\ channel[c] = <<>> /\ snapshot[c] = None
    BY DEF Init
  <2>2. Len(channel[c]) = 0 /\ Retained(nextSeq[c]) = {}
    BY <2>1, EmptySeq DEF Retained
  <2> QED
    BY <2>1, <2>2 DEF WholeOf
<1> QED
  BY <1>1, <1>2 DEF WholeInv

\* What WholeOf speaks of is the same, as far as it goes.
LEMMA WholeKept ==
  ASSUME TypeOK, NEW c \in Client, WholeOf(c), ReceivedKept(c), screen'[c] = screen[c],
         written \in Nat, written' \in Nat, written <= written',
         \/ channel'[c] = channel[c]
         \/ /\ Awaiting(c) => Awaiting(c)'
            /\ \A i \in 1..Len(channel'[c]) : Completes(c, i)',
         \/ snapshot'[c] = snapshot[c] \/ snapshot'[c] = None
         \/ /\ snapshot'[c] = [through |-> parsedSeq[c], ansi |-> screen[c]]
            /\ Retained(parsedSeq[c]) \subseteq Range(screen[c]),
         phase'[c] = "new" => phase[c] = "new"
  PROVE  WholeOf(c)'
<1>1. /\ nextSeq'[c] = nextSeq[c] /\ parsedSeq'[c] = parsedSeq[c] /\ unparsed'[c] = unparsed[c]
      /\ nextSeq[c] \in Nat /\ parsedSeq[c] \in Nat /\ MemoryCap \in Nat
      /\ snapshot[c] # None => snapshot[c].through \in Nat
  BY ConstantsAssumption DEF ReceivedKept, TypeOK, Checkpoint
<1>2. phase'[c] = "new" => screen'[c] = <<>>
  BY DEF WholeOf
<1>3. snapshot'[c] # None => Retained(snapshot[c].through)' \subseteq Range(snapshot'[c].ansi)
  <2>1. SUFFICES ASSUME snapshot'[c] # None, NEW m \in 1..snapshot'[c].through, m + MemoryCap > written'
                 PROVE  m \in Range(snapshot'[c].ansi)
    BY DEF Retained
  <2>2. CASE snapshot'[c] = snapshot[c]
    <3>1. m \in Retained(snapshot[c].through)
      BY <1>1, <2>1, <2>2 DEF Retained
    <3> QED
      BY <2>1, <2>2, <3>1 DEF WholeOf
  <2>3. CASE /\ snapshot'[c] = [through |-> parsedSeq[c], ansi |-> screen[c]]
             /\ Retained(parsedSeq[c]) \subseteq Range(screen[c])
    <3>1. m \in Retained(parsedSeq[c])
      BY <1>1, <2>1, <2>3 DEF Retained
    <3> QED
      BY <2>3, <3>1
  <2> QED
    BY <2>1, <2>2, <2>3
<1>4. ~Awaiting(c)' => \A m \in Retained(nextSeq[c])' : Covered(c, m)'
  <2>1. SUFFICES ASSUME ~Awaiting(c)', NEW m \in 1..nextSeq'[c], m + MemoryCap > written'
                 PROVE  Covered(c, m)'
    BY DEF Retained
  <2>2. ~Awaiting(c)
    BY <2>1 DEF Awaiting
  <2>3. m \in Retained(nextSeq[c])
    BY <1>1, <2>1 DEF Retained
  <2>4. Covered(c, m)
    BY <2>2, <2>3 DEF WholeOf
  <2> QED
    BY <1>1, <2>4 DEF Covered
<1>5. \A i \in 1..Len(channel'[c]) : Completes(c, i)'
  <2>1. CASE channel'[c] = channel[c]
    <3>1. SUFFICES ASSUME NEW i \in 1..Len(channel[c]) PROVE Completes(c, i)'
      BY <2>1
    <3>2. Completes(c, i)
      BY DEF WholeOf
    <3>3. \A n : {m \in 1..n : m + MemoryCap > written'} \subseteq {m \in 1..n : m + MemoryCap > written}
      BY <1>1
    <3> QED
      BY <1>1, <2>1, <3>2, <3>3 DEF Completes, Retained
  <2> QED
    BY <2>1
<1> QED
  BY <1>2, <1>3, <1>4, <1>5 DEF WholeOf

LEMMA UntouchedWhole ==
  ASSUME TypeOK, NEW d \in Client, WholeOf(d), Untouched(d), written \in Nat, written' \in Nat, written <= written'
  PROVE  WholeOf(d)'
BY WholeKept DEF Untouched, ReceivedKept

\* A checkpoint on its way has the end of its replay behind it.
LEMMA NotAwaiting ==
  ASSUME TypeOK, NEW c \in Client, WholeOf(c), ~ReplayPending(c)
  PROVE  ~Awaiting(c)
<1>1. channel[c] \in Seq(Events) /\ DOMAIN channel[c] = 1..Len(channel[c])
  BY DEF TypeOK
<1>2. \A j \in 1..Len(channel[c]) : channel[c][j].kind # "end"
  BY <1>1 DEF ReplayPending
<1>3. SUFFICES ASSUME Awaiting(c) PROVE FALSE
  OBVIOUS
<1>4. 1 \in 1..Len(channel[c]) /\ channel[c][1].kind = "checkpoint"
  BY <1>1, <1>3, EmptySeq DEF Awaiting
<1>5. Completes(c, 1)
  BY <1>4 DEF WholeOf
<1> QED
  BY <1>2, <1>4, <1>5 DEF Completes

\* A terminal that has rendered its replay shows what the agent retains.
LEMMA RenderedWhole ==
  ASSUME TypeOK, NEW c \in Client, ExactOf(c), WholeOf(c), ParserIdle(c), ~ReplayPending(c)
  PROVE  Retained(parsedSeq[c]) \subseteq Range(screen[c])
<1>1. unparsed[c] = <<>> /\ nextSeq[c] = parsedSeq[c] /\ ~Awaiting(c)
  BY IdleEmpty, NotAwaiting
<1>2. SUFFICES ASSUME NEW m \in Retained(nextSeq[c]) PROVE m \in Range(screen[c])
  BY <1>1
<1>3. Covered(c, m)
  BY <1>1, <1>2 DEF WholeOf
<1> QED
  BY <1>1, <1>3, EmptySeq DEF Covered

\* One more event, of output or a warning.
LEMMA AppendWhole ==
  ASSUME TypeOK, NEW c \in Client, WholeOf(c), Chained(channel[c], nextSeq[c]), ~HasSlow(c),
         ReceivedKept(c), written \in Nat, written' \in Nat, written <= written',
         NEW e \in Events, channel'[c] = Append(channel[c], e),
         \/ e.kind = "output" /\ e.byte = After(channel[c], nextSeq[c], Len(channel[c])) + 1
         \/ e.kind = "slow"
  PROVE  /\ Awaiting(c) => Awaiting(c)'
         /\ \A i \in 1..Len(channel'[c]) : Completes(c, i)'
<1> DEFINE s == channel[c]
           p == nextSeq[c]
           t == Append(s, e)
<1>1. s \in Seq(Events) /\ Chained(s, p) /\ \A i \in 1..Len(s) : s[i].kind # "slow"
  BY DEF TypeOK, HasSlow
<1>2. nextSeq'[c] = p /\ channel'[c] = t /\ MemoryCap \in Nat
  BY ConstantsAssumption DEF ReceivedKept
<1>3. \A i \in 1..Len(s) : Completes(c, i)
  BY DEF WholeOf
<1> HIDE DEF s, p
<1>4. /\ e.kind = "output" => e.byte = After(s, p, Len(s)) + 1
      /\ e.kind \in {"output", "slow"}
  BY DEF s, p
<1>5. /\ t \in Seq(Events) /\ Len(t) = Len(s) + 1 /\ Len(s) \in Nat
      /\ \A i \in 1..Len(s) : t[i] = s[i]
      /\ t[Len(s) + 1] = e
      /\ \A i \in 0..Len(s) : After(t, p, i) = After(s, p, i)
  BY <1>1, <1>4, ChainAppend
<1> HIDE DEF t
<1>6. Awaiting(c) => Awaiting(c)'
  <2>1. SUFFICES ASSUME s # <<>>, s[1].kind = "checkpoint" PROVE t # <<>> /\ t[1].kind = "checkpoint"
    BY <1>2 DEF Awaiting, s
  <2>2. 1 \in 1..Len(s)
    BY <1>1, <2>1, EmptySeq
  <2>3. t[1] = s[1] /\ Len(t) # 0
    BY <1>5, <2>2
  <2> QED
    BY <2>1, <2>3, EmptySeq
<1>7. ASSUME NEW i \in 1..(Len(s) + 1)
      PROVE  Completes(c, i)'
  <2>1. CASE i = Len(s) + 1
    <3>1. t[i].kind # "begin" /\ t[i].kind # "checkpoint"
      BY <1>4, <1>5, <2>1
    <3> QED
      BY <1>2, <3>1 DEF Completes
  <2>2. CASE i # Len(s) + 1
    <3>1. i \in 1..Len(s) /\ i - 1 \in 0..Len(s) /\ t[i] = s[i] /\ After(t, p, i - 1) = After(s, p, i - 1)
      BY <1>5, <2>2
    <3>2. Completes(c, i)
      BY <1>3, <3>1
    <3>3. \A n : {m \in 1..n : m + MemoryCap > written'} \subseteq {m \in 1..n : m + MemoryCap > written}
      BY <1>2
    <3>4. s[i].kind = "begin" /\ s[i].reset =>
            Retained(s[i].base) = {} \/ (i < Len(s) /\ s[i + 1].kind = "checkpoint")
      BY <3>2 DEF Completes, s
    <3>5. t[i].kind = "begin" /\ t[i].reset =>
            {m \in 1..t[i].base : m + MemoryCap > written'} = {} \/ (i < Len(t) /\ t[i + 1].kind = "checkpoint")
      <4>1. SUFFICES ASSUME t[i].kind = "begin", t[i].reset, i < Len(s), s[i + 1].kind = "checkpoint"
                     PROVE  i < Len(t) /\ t[i + 1].kind = "checkpoint"
        BY <3>1, <3>3, <3>4, <1>5 DEF Retained
      <4>2. i + 1 \in 1..Len(s)
        BY <1>5, <4>1
      <4> QED
        BY <1>5, <4>1, <4>2
    <3>6. s[i].kind = "checkpoint" => Retained(After(s, p, i - 1)) \subseteq Range(s[i].ansi)
      BY <3>2 DEF Completes, s, p
    <3>7. t[i].kind = "checkpoint" => {m \in 1..After(t, p, i - 1) : m + MemoryCap > written'} \subseteq Range(t[i].ansi)
      BY <3>1, <3>3, <3>6 DEF Retained
    <3>8. s[i].kind \in {"begin", "checkpoint"} => \E j \in 1..Len(s) : j > i /\ s[j].kind = "end"
      BY <3>2 DEF Completes, s
    <3>9. t[i].kind \in {"begin", "checkpoint"} => \E j \in 1..Len(t) : j > i /\ t[j].kind = "end"
      <4>1. SUFFICES ASSUME t[i].kind \in {"begin", "checkpoint"}
                     PROVE  \E j \in 1..Len(t) : j > i /\ t[j].kind = "end"
        OBVIOUS
      <4>2. PICK j \in 1..Len(s) : j > i /\ s[j].kind = "end"
        BY <3>1, <3>8, <4>1
      <4>3. j \in 1..Len(t) /\ t[j].kind = "end"
        BY <1>5, <4>2
      <4> QED
        BY <4>2, <4>3
    <3> QED
      BY <1>2, <3>5, <3>7, <3>9 DEF Completes, Retained
  <2> QED
    BY <2>1, <2>2
<1> QED
  BY <1>2, <1>5, <1>6, <1>7

LEMMA SendSlowWhole ==
  ASSUME TypeOK, NEW c \in Client, WholeOf(c), StreamOf(c), SendSlow(c)
  PROVE  WholeOf(c)'
<1>1. /\ notice[c] /\ written' = written /\ phase'[c] = phase[c] /\ channel'[c] = Append(channel[c], Slow)
      /\ ReceivedKept(c) /\ screen'[c] = screen[c] /\ snapshot'[c] = snapshot[c]
  BY SendSlowEffect DEF RestKept
<1>2. ~HasSlow(c) /\ Chained(channel[c], nextSeq[c])
  BY <1>1 DEF StreamOf
<1>3. Slow \in Events /\ Slow.kind = "slow"
  BY DEF Slow, Events
<1>4. written \in Nat
  BY ConstantsAssumption DEF TypeOK
<1>5. written' \in Nat /\ written <= written'
  BY <1>1, <1>4
<1>6. (Awaiting(c) => Awaiting(c)') /\ \A i \in 1..Len(channel'[c]) : Completes(c, i)'
  BY <1>1, <1>2, <1>3, <1>4, <1>5, AppendWhole
<1> QED
  BY <1>1, <1>4, <1>5, <1>6, WholeKept

LEMMA ProduceWhole ==
  ASSUME TypeOK, NEW c \in Client, WholeOf(c), StreamOf(c), Produce
  PROVE  WholeOf(c)'
<1>1. /\ written' = written + 1 /\ phase'[c] = phase[c]
      /\ ReceivedKept(c) /\ screen'[c] = screen[c] /\ snapshot'[c] = snapshot[c]
      /\ \/ c \in subscribers /\ channel'[c] = Append(channel[c], Output(written'))
         \/ channel'[c] = channel[c]
  BY ProduceEffect DEF RestKept, WireKept
<1>2. written \in Nat
  BY ConstantsAssumption DEF TypeOK
<1>3. written' \in Nat /\ written <= written'
  BY <1>1, <1>2
<1>4. CASE c \in subscribers /\ channel'[c] = Append(channel[c], Output(written'))
  <2> DEFINE e == Output(written')
  <2>1. e \in Events /\ e.kind = "output" /\ e.byte = written'
    BY ConstantsAssumption DEF Output, Events, Byte, TypeOK, Produce
  <2>2. ~HasSlow(c) /\ Chained(channel[c], nextSeq[c]) /\ After(channel[c], nextSeq[c], Len(channel[c])) = written
    BY <1>4 DEF StreamOf
  <2>3. channel'[c] = Append(channel[c], e)
    BY <1>4
  <2> HIDE DEF e
  <2>4. e.byte = After(channel[c], nextSeq[c], Len(channel[c])) + 1
    BY <1>1, <2>1, <2>2
  <2>5. (Awaiting(c) => Awaiting(c)') /\ \A i \in 1..Len(channel'[c]) : Completes(c, i)'
    BY <1>1, <1>2, <1>3, <2>1, <2>2, <2>3, <2>4, AppendWhole
  <2> QED
    BY <1>1, <1>2, <1>3, <2>5, WholeKept
<1>5. CASE channel'[c] = channel[c]
  BY <1>1, <1>2, <1>3, <1>5, WholeKept
<1> QED
  BY <1>1, <1>4, <1>5

\* The begin of a replay that clears the screen leaves out nothing retained,
\* unless a checkpoint follows that contains it.
LEMMA BaseForgotten ==
  ASSUME TypeOK, TailKept, NEW c \in Client, Plan(c).reset, ~Plan(c).withCheckpoint
  PROVE  Retained(Plan(c).base) = {}
<1> DEFINE base == Plan(c).base
<1>1. /\ written \in Nat /\ tailStart \in Nat /\ MemoryCap \in Nat
      /\ checkpoint # None => checkpoint.through \in Nat
  BY ConstantsAssumption DEF TypeOK, Checkpoint
<1>2. base \in Nat /\ base <= tailStart /\ (checkpoint = None \/ checkpoint.through < base)
  <2>1. base = StartOf(Held(c)) /\ base \in Nat /\ (checkpoint = None \/ checkpoint.through < base)
    BY PlanBase
  <2>2. StartOf(Held(c)) \in 0..tailStart
    BY HeldIsTail
  <2> HIDE DEF base
  <2> QED
    BY <1>1, <2>1, <2>2
<1> HIDE DEF base
<1>3. base = 0 \/ base + MemoryCap <= written
  BY <1>1, <1>2 DEF TailKept
<1>4. \A m \in 1..base : ~(m + MemoryCap > written)
  BY <1>1, <1>2, <1>3
<1> QED
  BY <1>4 DEF Retained, base

LEMMA AttachWhole ==
  ASSUME TypeOK, TailKept, CheckpointWhole, NEW c \in Client, WholeOf(c), StreamOf(c), Attach(c)
  PROVE  WholeOf(c)'
<1> DEFINE r == Replay(c)
           p == nextSeq[c]
           base == Plan(c).base
           reset == Plan(c).reset
           l == Lead(c)
<1>1. /\ phase[c] \in {"reattaching", "attaching"} /\ written' = written /\ checkpoint' = checkpoint
      /\ phase'[c] = "replayed" /\ channel'[c] = channel[c] \o r /\ RestKept(c)
  BY AttachEffect
<1>2. r \in Seq(Events) /\ Len(r) = l + (written - base) + 1
  BY ReplayEvents
<1>3. r[1] = Begin(reset, base) /\ (l = 2 => r[2] = CheckpointChunk(checkpoint.ansi)) /\ r[Len(r)] = End(written)
  BY ReplayEvents
<1>4. written \in Nat /\ base \in Nat /\ base <= written /\ l \in {1, 2}
  BY PlanBounds DEF Lead
<1>5. \A i \in 1..Len(r) : /\ r[i].kind = "begin" => i = 1
                           /\ r[i].kind = "checkpoint" => i = 2 /\ l = 2
  BY ReplayKinds
<1>6. l = 2 => checkpoint # None /\ base = checkpoint.through
  BY PlanBase DEF Lead
<1>7. l # 2 /\ reset => Retained(base) = {}
  BY BaseForgotten DEF Lead
<1>8. channel[c] = <<>>
  BY <1>1 DEF StreamOf
<1> HIDE DEF r, p, base, reset, l
<1>9. channel'[c] = r
  BY <1>1, <1>2, <1>8
<1>10. /\ r[1].kind = "begin" /\ r[1].reset = reset /\ r[1].base = base
       /\ l = 2 => r[2].kind = "checkpoint" /\ r[2].ansi = checkpoint.ansi
       /\ r[Len(r)].kind = "end"
  BY <1>3 DEF Begin, CheckpointChunk, End
<1>11. Len(r) \in Nat /\ Len(r) > l /\ Len(r) \in 1..Len(r) /\ 1 \in 1..Len(r)
  BY <1>2, <1>4
<1>12. After(r, p, 1) = base
  BY <1>2, <1>10, <1>11, AfterEvent
<1>13. l = 2 => Retained(base) \subseteq Range(checkpoint.ansi)
  BY <1>6 DEF CheckpointWhole
<1>14. nextSeq'[c] = p /\ ReceivedKept(c) /\ screen'[c] = screen[c] /\ snapshot'[c] = snapshot[c]
  BY <1>1 DEF RestKept, ReceivedKept, p
<1>15. \A i \in 1..Len(r) : Completes(c, i)'
  <2>1. SUFFICES ASSUME NEW i \in 1..Len(r)
                 PROVE  /\ r[i].kind = "begin" /\ r[i].reset =>
                             \/ Retained(r[i].base) = {}
                             \/ i < Len(r) /\ r[i + 1].kind = "checkpoint"
                        /\ r[i].kind = "checkpoint" => Retained(After(r, p, i - 1)) \subseteq Range(r[i].ansi)
                        /\ r[i].kind \in {"begin", "checkpoint"} => \E j \in 1..Len(r) : j > i /\ r[j].kind = "end"
    BY <1>1, <1>9, <1>14 DEF Completes, Retained
  <2>2. CASE r[i].kind = "begin"
    <3>1. i = 1 /\ i < Len(r) /\ i + 1 = 2
      BY <1>4, <1>5, <1>11, <2>2
    <3>2. reset => Retained(base) = {} \/ l = 2
      BY <1>7
    <3> QED
      BY <1>10, <1>11, <2>2, <3>1, <3>2
  <2>3. CASE r[i].kind = "checkpoint"
    <3>1. i = 2 /\ l = 2 /\ i < Len(r) /\ i - 1 = 1
      BY <1>5, <1>11, <2>3
    <3>2. Retained(After(r, p, i - 1)) \subseteq Range(r[i].ansi)
      BY <1>10, <1>12, <1>13, <3>1
    <3> QED
      BY <1>10, <1>11, <2>3, <3>1, <3>2
  <2> QED
    BY <2>2, <2>3
<1>16. ~Awaiting(c)
  BY <1>8 DEF Awaiting
<1>17. written' \in Nat /\ written <= written'
  BY <1>1, <1>4
<1> QED
  BY <1>1, <1>4, <1>9, <1>14, <1>15, <1>16, <1>17, WholeKept

\* What is appended to xterm's buffer is covered, and what was is.
LEMMA AppendCovers ==
  ASSUME NEW c \in Client, unparsed[c] \in Seq(Chunk), NEW w, unparsed'[c] = Append(unparsed[c], w),
         screen'[c] = screen[c], NEW m, Covered(c, m) \/ m \in Range(w.bytes)
  PROVE  Covered(c, m)'
<1> DEFINE u == unparsed[c]
           n == Len(u)
<1>1. /\ n \in Nat /\ Len(unparsed'[c]) = n + 1 /\ unparsed'[c][n + 1] = w
      /\ \A i \in 1..n : unparsed'[c][i] = u[i]
  OBVIOUS
<1>2. CASE m \in Range(screen[c])
  BY <1>2 DEF Covered
<1>3. ASSUME NEW i \in 1..n, m \in Range(u[i].bytes)
      PROVE  Covered(c, m)'
  <2>1. i \in 1..Len(unparsed'[c]) /\ m \in Range(unparsed'[c][i].bytes)
    BY <1>1, <1>3
  <2> QED
    BY <2>1 DEF Covered
<1>4. CASE m \in Range(w.bytes)
  <2>1. n + 1 \in 1..Len(unparsed'[c]) /\ m \in Range(unparsed'[c][n + 1].bytes)
    BY <1>1, <1>4
  <2> QED
    BY <2>1 DEF Covered
<1> QED
  BY <1>2, <1>3, <1>4 DEF Covered

LEMMA ReceiveWhole ==
  ASSUME TypeOK, NEW c \in Client, ExactOf(c), WholeOf(c), StreamOf(c), ReceiveEvent(c)
  PROVE  WholeOf(c)'
<1> DEFINE s == channel[c]
           p == nextSeq[c]
           q == After(s, p, 1)
           e == s[1]
           u == unparsed[c]
<1>1. /\ s \in Seq(Events) /\ s # <<>> /\ channel'[c] = Tail(s) /\ nextSeq'[c] = q
      /\ e = Head(s) /\ e \in Events /\ e.kind # "slow"
  BY ReceivedAfter
<1>2. phase'[c] = phase[c] /\ Listening(c) /\ snapshot'[c] = snapshot[c] /\ written' = written
  BY ReceiveEventEffect
<1>3. Chained(s, p) /\ u \in Seq(Chunk) /\ p \in Nat /\ MemoryCap \in Nat /\ written \in Nat
  BY ConstantsAssumption DEF StreamOf, TypeOK
<1>4. /\ Len(Tail(s)) = Len(s) - 1 /\ Len(s) \in Nat \ {0} /\ 1 \in 1..Len(s)
      /\ Tail(s) \in Seq(Events)
      /\ \A i \in 1..(Len(s) - 1) : Tail(s)[i] = s[i + 1]
      /\ \A i \in 0..(Len(s) - 1) : After(Tail(s), q, i) = After(s, p, i + 1)
  BY <1>1, <1>3, ChainTail
<1>5. \A i \in 1..Len(s) : Fits(c, i) /\ Completes(c, i)
  BY DEF ExactOf, WholeOf
<1>6. \A i \in 1..Len(channel'[c]) : Completes(c, i)'
  <2>1. SUFFICES ASSUME NEW i \in 1..(Len(s) - 1) PROVE Completes(c, i)'
    BY <1>1, <1>4
  <2>2. /\ i + 1 \in 1..Len(s) /\ i + 1 # 1 /\ i + 1 - 1 = i /\ i - 1 \in 0..(Len(s) - 1) /\ i - 1 + 1 = i
        /\ Tail(s)[i] = s[i + 1] /\ i \in Nat
    BY <1>4
  <2>3. s[i + 1].kind # "begin"
    BY <1>5, <2>2 DEF Fits
  <2>4. Completes(c, i + 1)
    BY <1>5, <2>2
  <2>5. s[i + 1].kind = "checkpoint" => Retained(After(s, p, i)) \subseteq Range(s[i + 1].ansi)
    BY <2>2, <2>4 DEF Completes
  <2>6. After(Tail(s), q, i - 1) = After(s, p, i)
    BY <1>4, <2>2
  <2>7. s[i + 1].kind = "checkpoint" => \E j \in 1..Len(Tail(s)) : j > i /\ Tail(s)[j].kind = "end"
    <3>1. SUFFICES ASSUME s[i + 1].kind = "checkpoint"
                   PROVE  \E j \in 1..Len(Tail(s)) : j > i /\ Tail(s)[j].kind = "end"
      OBVIOUS
    <3>2. PICK j \in 1..Len(s) : j > i + 1 /\ s[j].kind = "end"
      BY <2>4, <3>1 DEF Completes
    <3>3. j - 1 \in 1..(Len(s) - 1) /\ j - 1 > i /\ j - 1 + 1 = j
      BY <1>4, <2>2, <3>2
    <3>4. Tail(s)[j - 1].kind = "end"
      BY <1>4, <3>2, <3>3
    <3> QED
      BY <1>4, <3>3, <3>4
  <2> HIDE DEF q
  <2>8. Tail(s)[i].kind = "checkpoint" => Retained(After(Tail(s), q, i - 1)) \subseteq Range(Tail(s)[i].ansi)
    BY <2>2, <2>5, <2>6
  <2> QED
    BY <1>1, <1>2, <2>2, <2>3, <2>7, <2>8 DEF Completes, Retained
<1>7. e.kind \in {"begin", "checkpoint", "output", "end"}
  BY <1>1, EventKinds
<1>8. ASSUME ~Awaiting(c)', NEW m \in Retained(q)
      PROVE  Covered(c, m)'
  <2>1. e.kind # "checkpoint" /\ m \in Retained(p) => Covered(c, m)
    BY <1>1 DEF WholeOf, Awaiting
  <2>2. CASE e.kind = "begin" /\ e.reset
    <3>1. Retained(e.base) = {} \/ (1 < Len(s) /\ s[1 + 1].kind = "checkpoint")
      BY <1>4, <1>5, <2>2 DEF Completes
    <3>2. q = e.base
      BY <1>1, <1>4, <2>2, AfterEvent
    <3>3. ~(1 < Len(s) /\ s[1 + 1].kind = "checkpoint")
      <4>1. SUFFICES ASSUME 1 < Len(s), s[1 + 1].kind = "checkpoint" PROVE Awaiting(c)'
        BY <1>8
      <4>2. 1 \in 1..(Len(s) - 1) /\ Len(Tail(s)) # 0
        BY <1>4, <4>1
      <4>3. Tail(s)[1].kind = "checkpoint" /\ Tail(s) # <<>>
        BY <1>4, <4>1, <4>2, EmptySeq
      <4> QED
        BY <1>1, <4>3 DEF Awaiting
    <3> QED
      BY <1>8, <3>1, <3>2, <3>3
  <2>3. CASE e.kind = "begin" /\ ~e.reset
    <3>1. unparsed'[c] = u /\ screen'[c] = screen[c]
      BY <1>1, <2>3, ReceiveEventEffect
    <3>2. u = <<>> /\ e.base = parsedSeq[c]
      BY <1>4, <1>5, <2>3 DEF Fits
    <3>3. p = parsedSeq[c]
      BY <3>2, EmptySeq DEF ExactOf, Parsed
    <3>4. q = e.base
      BY <1>1, <1>4, <2>3, AfterEvent
    <3>5. Covered(c, m)
      BY <1>8, <2>1, <2>3, <3>2, <3>3, <3>4
    <3> QED
      BY <3>1, <3>5 DEF Covered
  <2>4. CASE e.kind = "checkpoint"
    <3> DEFINE w == [bytes |-> e.ansi, end |-> p]
    <3>1. unparsed'[c] = Append(u, w) /\ screen'[c] = screen[c]
      BY <1>1, <2>4, ReceiveEventEffect
    <3>2. q = p
      BY <1>1, <1>4, <2>4, AfterEvent
    <3>3. After(s, p, 1 - 1) = p
      BY DEF After
    <3>4. m \in Range(e.ansi)
      BY <1>4, <1>5, <1>8, <2>4, <3>2, <3>3 DEF Completes
    <3>5. w.bytes = e.ansi
      OBVIOUS
    <3> HIDE DEF w
    <3> QED
      BY <1>3, <3>1, <3>4, <3>5, AppendCovers
  <2>5. CASE e.kind = "output"
    <3> DEFINE w == [bytes |-> <<e.byte>>, end |-> e.byte]
    <3>1. unparsed'[c] = Append(u, w) /\ screen'[c] = screen[c]
      BY <1>1, <2>5, ReceiveEventEffect
    <3>2. q = e.byte
      BY <1>1, <1>4, <2>5, AfterEvent
    <3>3. e.byte = p + 1
      <4>1. e.byte = After(s, p, 1 - 1) + 1
        BY <1>3, <1>4, <2>5 DEF Chained
      <4> QED
        BY <4>1 DEF After
    <3>4. w.bytes = <<e.byte>>
      OBVIOUS
    <3> HIDE DEF w, q
    <3>5. m \in Retained(p) \/ m = e.byte
      BY <1>3, <1>8, <3>2, <3>3 DEF Retained
    <3>6. e.byte \in Range(<<e.byte>>)
      <4>1. 1 \in DOMAIN <<e.byte>> /\ <<e.byte>>[1] = e.byte
        OBVIOUS
      <4> QED
        BY <4>1 DEF Range
    <3>7. Covered(c, m) \/ m \in Range(w.bytes)
      BY <2>1, <2>5, <3>4, <3>5, <3>6
    <3> QED
      BY <1>3, <3>1, <3>7, AppendCovers
  <2>6. CASE e.kind = "end"
    <3>1. unparsed'[c] = u /\ screen'[c] = screen[c]
      BY <1>1, <2>6, ReceiveEventEffect
    <3>2. e.next = After(s, p, 1 - 1)
      BY <1>3, <1>4, <2>6 DEF Chained
    <3>3. q = e.next
      BY <1>1, <1>4, <2>6, AfterEvent
    <3>4. After(s, p, 1 - 1) = p
      BY DEF After
    <3>5. Covered(c, m)
      BY <1>8, <2>1, <2>6, <3>2, <3>3, <3>4
    <3> QED
      BY <3>1, <3>5 DEF Covered
  <2> QED
    BY <1>7, <2>2, <2>3, <2>4, <2>5, <2>6
<1>9. phase'[c] # "new"
  BY <1>2 DEF Listening
<1>10. ~Awaiting(c)' => \A m \in Retained(nextSeq[c])' : Covered(c, m)'
  <2>1. Retained(nextSeq[c])' = Retained(q)
    <3> HIDE DEF q
    <3> QED
      BY <1>1, <1>2 DEF Retained
  <2> QED
    BY <1>8, <2>1
<1>11. snapshot'[c] # None => Retained(snapshot[c].through)' \subseteq Range(snapshot'[c].ansi)
  BY <1>2 DEF WholeOf, Retained
<1> QED
  BY <1>6, <1>9, <1>10, <1>11 DEF WholeOf

LEMMA RangeJoined ==
  ASSUME NEW s \in Seq(Byte), NEW t \in Seq(Byte), NEW m, m \in Range(s) \/ m \in Range(t)
  PROVE  m \in Range(s \o t)
<1>1. /\ Len(s) \in Nat /\ Len(t) \in Nat /\ DOMAIN s = 1..Len(s) /\ DOMAIN t = 1..Len(t)
      /\ DOMAIN (s \o t) = 1..(Len(s) + Len(t))
      /\ \A i \in 1..Len(s) : (s \o t)[i] = s[i]
      /\ \A i \in 1..Len(t) : (s \o t)[Len(s) + i] = t[i]
  OBVIOUS
<1>2. ASSUME NEW i \in 1..Len(s), m = s[i]
      PROVE  m \in Range(s \o t)
  <2>1. i \in DOMAIN (s \o t) /\ (s \o t)[i] = m
    BY <1>1, <1>2
  <2> QED
    BY <2>1 DEF Range
<1>3. ASSUME NEW i \in 1..Len(t), m = t[i]
      PROVE  m \in Range(s \o t)
  <2>1. Len(s) + i \in DOMAIN (s \o t) /\ (s \o t)[Len(s) + i] = m
    BY <1>1, <1>3
  <2> QED
    BY <2>1 DEF Range
<1> QED
  BY <1>1, <1>2, <1>3 DEF Range

LEMMA ParseWhole ==
  ASSUME TypeOK, NEW c \in Client, ExactOf(c), WholeOf(c), Parse(c)
  PROVE  WholeOf(c)'
<1> DEFINE u == unparsed[c]
           w == u[1]
<1>1. /\ u # <<>> /\ written' = written /\ phase'[c] = phase[c] /\ nextSeq'[c] = nextSeq[c]
      /\ channel'[c] = channel[c] /\ snapshot'[c] = snapshot[c] /\ unparsed'[c] = Tail(u)
      /\ screen'[c] = screen[c] \o w.bytes
  BY ParseEffect DEF WireKept
<1>2. u \in Seq(Chunk) /\ screen[c] \in Seq(Byte)
  BY DEF TypeOK
<1>3. /\ Len(u) \in Nat \ {0} /\ 1 \in 1..Len(u) /\ Len(Tail(u)) = Len(u) - 1
      /\ \A i \in 1..(Len(u) - 1) : Tail(u)[i] = u[i + 1]
  BY <1>1, <1>2, EmptySeq
<1>4. w.bytes \in Seq(Byte)
  <2>1. w \in Chunk
    BY <1>2, <1>3
  <2> QED
    BY <2>1 DEF Chunk
<1>5. ASSUME NEW m, Covered(c, m)
      PROVE  Covered(c, m)'
  <2>1. CASE m \in Range(screen[c]) \/ m \in Range(w.bytes)
    <3>1. m \in Range(screen'[c])
      BY <1>1, <1>2, <1>4, <2>1, RangeJoined
    <3> QED
      BY <3>1 DEF Covered
  <2>2. ASSUME NEW i \in 1..Len(u), i # 1, m \in Range(u[i].bytes)
        PROVE  Covered(c, m)'
    <3>1. i - 1 \in 1..(Len(u) - 1) /\ i - 1 + 1 = i
      BY <1>3, <2>2
    <3>2. m \in Range(unparsed'[c][i - 1].bytes) /\ i - 1 \in 1..Len(unparsed'[c])
      BY <1>1, <1>3, <2>2, <3>1
    <3> QED
      BY <3>2 DEF Covered
  <2> QED
    BY <1>5, <2>1, <2>2 DEF Covered
<1>6. phase'[c] # "new"
  BY <1>1 DEF ExactOf
<1>7. snapshot'[c] # None => Retained(snapshot[c].through)' \subseteq Range(snapshot'[c].ansi)
  BY <1>1 DEF WholeOf, Retained
<1>8. ~Awaiting(c)' => \A m \in Retained(nextSeq[c])' : Covered(c, m)'
  <2>1. Retained(nextSeq[c])' = Retained(nextSeq[c]) /\ (Awaiting(c)' <=> Awaiting(c))
    BY <1>1 DEF Retained, Awaiting
  <2> QED
    BY <1>5, <2>1 DEF WholeOf
<1>9. \A i \in 1..Len(channel'[c]) : Completes(c, i)'
  BY <1>1 DEF WholeOf, Completes, Retained
<1> QED
  BY <1>6, <1>7, <1>8, <1>9 DEF WholeOf

\* A step of terminal c keeps what WholeInv says of it.
LEMMA TerminalWhole ==
  ASSUME TypeOK, Uninterrupted, TailKept, CheckpointWhole, NEW c \in Client, ExactOf(c), WholeOf(c), StreamOf(c),
         Terminal(c)
  PROVE  WholeOf(c)'
<1>1. written \in Nat /\ written' \in Nat /\ written <= written'
  <2>1. written' = written
    BY OthersUntouched
  <2>2. written \in Nat
    BY ConstantsAssumption DEF TypeOK
  <2> QED
    BY <2>1, <2>2
<1>2. known[c] /\ phase[c] \in {"new", "reattaching", "replayed", "up", "down"}
  BY DEF ExactOf
<1>3. Spawner = {} /\ Restorer = {} /\ Upsets = {}
  BY DEF Uninterrupted, Undisturbed
\* A connect, which finds nothing on its way.
<1>4. ASSUME NEW seq, Connected(c, seq), screen'[c] = screen[c]
      PROVE  WholeOf(c)'
  <2>1. ReceivedKept(c) /\ channel'[c] = channel[c] /\ snapshot'[c] = snapshot[c] /\ phase'[c] # "new"
    BY <1>2, <1>4 DEF Connected, WireKept
  <2> QED
    BY <1>1, <1>4, <2>1, WholeKept
\* A connection that ends with no checkpoint on its way.
<1>5. ASSUME WentOffline(c), ~Awaiting(c)
      PROVE  WholeOf(c)'
  <2>1. /\ channel'[c] = <<>> /\ ReceivedKept(c) /\ screen'[c] = screen[c] /\ phase'[c] # "new"
        /\ snapshot'[c] = snapshot[c] \/ snapshot'[c] = None
    BY <1>5 DEF WentOffline
  <2>2. \A i \in 1..Len(channel'[c]) : Completes(c, i)'
    BY <2>1, EmptySeq
  <2> QED
    BY <1>1, <1>5, <2>1, <2>2, WholeKept
<1>6. CASE Open(c)
  <2>1. phase[c] = "new" /\ Connected(c, None) /\ screen'[c] \in Restorable(c)
    BY <1>6, OpenEffect
  <2>2. screen'[c] = screen[c]
    BY <1>3, <2>1 DEF Restorable, WholeOf
  <2> QED
    BY <1>4, <2>1, <2>2
<1>7. CASE Reconnect(c)
  BY <1>4, <1>7, ReconnectEffect
<1>8. CASE Attached(c)
  <2>1. /\ phase'[c] = "up" /\ ReceivedKept(c) /\ WireKept(c)
        /\ screen'[c] = screen[c] /\ snapshot'[c] = snapshot[c]
    BY <1>8, AttachedEffect
  <2> QED
    BY <1>1, <2>1, WholeKept DEF WireKept
<1>9. CASE Fallback(c) \/ GiveUp(c)
  BY <1>2, <1>9, FallbackEffect, GiveUpEffect
<1>10. CASE Disconnect(c)
  <2>1. WentOffline(c) /\ ~ReplayPending(c)
    BY <1>3, <1>10, DisconnectEffect
  <2> QED
    BY <1>5, <2>1, NotAwaiting
<1>11. CASE Attach(c)
  BY <1>11, AttachWhole
<1>12. CASE AttachTooSlow(c)
  BY <1>3, <1>12, AttachTooSlowEffect
<1>13. CASE SendSlow(c)
  BY <1>13, SendSlowWhole
<1>14. CASE DropSlow(c)
  <2>1. phase'[c] = phase[c] /\ channel'[c] = channel[c] /\ RestKept(c)
    BY <1>14, DropSlowEffect
  <2> QED
    BY <1>1, <2>1, WholeKept DEF RestKept
<1>15. CASE ReceiveEvent(c)
  BY <1>15, ReceiveWhole
<1>16. CASE ReceiveSlow(c)
  <2>1. WentOffline(c) /\ channel[c] # <<>> /\ Head(channel[c]).kind = "slow"
    BY <1>16, ReceiveSlowEffect
  <2>2. Head(channel[c]) = channel[c][1]
    BY DEF TypeOK
  <2> QED
    BY <1>5, <2>1, <2>2 DEF Awaiting
<1>17. CASE Parse(c)
  BY <1>17, ParseWhole
<1>18. CASE Snapshot(c)
  <2>1. /\ ParserIdle(c) /\ ~ReplayPending(c)
        /\ phase'[c] = phase[c] /\ WireKept(c) /\ ReceivedKept(c) /\ screen'[c] = screen[c]
        /\ snapshot'[c] = [through |-> parsedSeq[c], ansi |-> screen[c]]
    BY <1>3, <1>18, SnapshotEffect
  <2>2. Retained(parsedSeq[c]) \subseteq Range(screen[c])
    BY <2>1, RenderedWhole
  <2> QED
    BY <1>1, <2>1, <2>2, WholeKept DEF WireKept
<1>19. CASE SaveCheckpoint(c)
  <2>1. /\ phase'[c] = phase[c] /\ WireKept(c) /\ ReceivedKept(c) /\ screen'[c] = screen[c] /\ snapshot'[c] = None
    BY <1>19, SaveCheckpointEffect
  <2> QED
    BY <1>1, <2>1, WholeKept DEF WireKept
<1>20. CASE QueueCheckpoint(c)
  BY <1>1, <1>20, QuietEffect, UntouchedWhole
<1> QED
  BY <1>6, <1>7, <1>8, <1>9, <1>10, <1>11, <1>12, <1>13, <1>14, <1>15, <1>16, <1>17, <1>18, <1>19, <1>20 DEF Terminal

\* What is written makes room for itself by forgetting what need not be kept.
LEMMA ProduceTail ==
  ASSUME TypeOK, TailKept, CheckpointWhole, Produce
  PROVE  TailKept' /\ CheckpointWhole'
<1>1. /\ written \in Nat /\ tailStart \in Nat /\ MemoryCap \in Nat
      /\ checkpoint # None => checkpoint.through \in Nat
  BY ConstantsAssumption DEF TypeOK, Checkpoint
<1>2. /\ written' = written + 1 /\ checkpoint' = checkpoint
      /\ tailStart' = IF written' - tailStart > MemoryCap THEN written' - MemoryCap ELSE tailStart
  BY DEF Produce
<1>3. TailKept'
  <2>1. CASE written' - tailStart > MemoryCap
    <3>1. tailStart' + MemoryCap <= written'
      BY <1>1, <1>2, <2>1
    <3> QED
      BY <3>1 DEF TailKept
  <2>2. CASE ~(written' - tailStart > MemoryCap)
    <3>1. tailStart' = tailStart
      BY <1>2, <2>2
    <3>2. tailStart + MemoryCap <= written => tailStart + MemoryCap <= written'
      BY <1>1, <1>2
    <3> QED
      BY <1>2, <3>1, <3>2 DEF TailKept
  <2> QED
    BY <2>1, <2>2
<1>4. CheckpointWhole'
  <2>1. SUFFICES ASSUME checkpoint # None, NEW m \in 1..checkpoint.through, m + MemoryCap > written'
                 PROVE  m \in Range(checkpoint.ansi)
    BY <1>2 DEF CheckpointWhole, Retained
  <2>2. m \in Retained(checkpoint.through)
    BY <1>1, <1>2, <2>1 DEF Retained
  <2> QED
    BY <2>1, <2>2 DEF CheckpointWhole
<1> QED
  BY <1>3, <1>4

\* What is forgotten for a checkpoint, the checkpoint contains.
LEMMA CheckpointTail ==
  ASSUME TypeOK, TailKept, CheckpointWhole, NEW c \in Client, WholeOf(c), Terminal(c)
  PROVE  TailKept' /\ CheckpointWhole'
<1>1. written' = written
  BY OthersUntouched
<1>2. CASE checkpoint' = checkpoint /\ tailStart' = tailStart
  BY <1>1, <1>2 DEF TailKept, CheckpointWhole, Retained
<1>3. CASE /\ snapshot[c] # None /\ snapshot[c] \in Checkpoint
           /\ Acceptable(snapshot[c].through) /\ checkpoint' = snapshot[c]
           /\ tailStart' = IF snapshot[c].through > tailStart THEN snapshot[c].through ELSE tailStart
  <2> DEFINE n == snapshot[c].through
  <2>1. /\ n \in Nat /\ tailStart \in Nat
        /\ checkpoint # None => checkpoint.through \in Nat /\ checkpoint.through <= n
    BY <1>3, ConstantsAssumption DEF TypeOK, Checkpoint, Acceptable
  <2>2. CheckpointWhole'
    BY <1>1, <1>3 DEF WholeOf, CheckpointWhole, Retained
  <2>3. checkpoint' # None /\ checkpoint'.through = n
    BY <1>3
  <2>4. tailStart' = IF n > tailStart THEN n ELSE tailStart
    BY <1>3
  <2> HIDE DEF n
  <2>5. TailKept'
    BY <1>1, <2>1, <2>3, <2>4 DEF TailKept
  <2> QED
    BY <2>2, <2>5
<1> QED
  BY <1>2, <1>3, CheckpointFrom

LEMMA StepWhole ==
  ASSUME TypeOK, Uninterrupted, StreamInv, ExactInv, WholeInv, [Next]_vars
  PROVE  WholeInv'
<1>1. CheckpointWhole /\ TailKept /\ \A c \in Client : ExactOf(c) /\ StreamOf(c) /\ WholeOf(c)
  BY DEF ExactInv, StreamInv, WholeInv
<1>2. written \in Nat
  BY ConstantsAssumption DEF TypeOK
<1>3. CASE EnqueueOutput \/ JournalWriter \/ UNCHANGED vars
  <2>1. UNCHANGED <<written, tailStart, checkpoint>> /\ \A d \in Client : Untouched(d)
    BY <1>3, QuietEffect
  <2>2. ASSUME NEW d \in Client PROVE WholeOf(d)'
    BY <1>1, <1>2, <2>1, UntouchedWhole
  <2>3. CheckpointWhole' /\ TailKept'
    BY <1>1, <2>1 DEF CheckpointWhole, TailKept, Retained
  <2> QED
    BY <2>2, <2>3 DEF WholeInv
<1>4. CASE Produce
  <2>1. ASSUME NEW d \in Client PROVE WholeOf(d)'
    BY <1>1, <1>4, ProduceWhole
  <2> QED
    BY <1>1, <1>4, <2>1, ProduceTail DEF WholeInv
<1>5. ASSUME NEW c \in Client, Terminal(c)
      PROVE  WholeInv'
  <2>1. ASSUME NEW d \in Client PROVE WholeOf(d)'
    <3>1. CASE d = c
      BY <1>1, <1>5, <3>1, TerminalWhole
    <3>2. CASE d # c
      <4>1. written' = written /\ Untouched(d)
        BY <1>5, <3>2, OthersUntouched
      <4> QED
        BY <1>1, <1>2, <4>1, UntouchedWhole
    <3> QED
      BY <3>1, <3>2
  <2> QED
    BY <1>1, <1>5, <2>1, CheckpointTail DEF WholeInv
<1> QED
  BY <1>3, <1>4, <1>5 DEF Next

LEMMA WholeCorrect == ASSUME Uninterrupted PROVE Spec => [](TypeOK /\ StreamInv /\ ExactInv /\ WholeInv)
<1>1. Undisturbed
  BY DEF Uninterrupted
<1>2. Init => WholeInv
  BY <1>1, InitWhole
<1>3. TypeOK /\ StreamInv /\ ExactInv /\ WholeInv /\ [Next]_vars => WholeInv'
  BY StepWhole
<1>4. Spec => [](TypeOK /\ StreamInv /\ ExactInv)
  BY <1>1, ExactCorrect
<1> QED
  BY <1>2, <1>3, <1>4, PTL DEF Spec

\* A terminal that has rendered its replay shows all the output the agent
\* retains, up to where its parser is: whether it comes from its own screen,
\* from the checkpoint of another terminal, the memory journal or the rows on
\* disk, nothing falls between them, however the journal is trimmed.
THEOREM HistoryComplete == ASSUME Uninterrupted PROVE Spec => []HistoryShown
<1>1. TypeOK /\ ExactInv /\ WholeInv => HistoryShown
  <2>1. SUFFICES ASSUME TypeOK, ExactInv, WholeInv, NEW c \in Client, Settled(c)
                 PROVE  Retained(parsedSeq[c]) \subseteq Range(screen[c])
    BY DEF HistoryShown
  <2>2. ParserIdle(c) /\ ~ReplayPending(c) /\ ExactOf(c) /\ WholeOf(c)
    BY <2>1 DEF Settled, ParserIdle, ExactInv, WholeInv
  <2> QED
    BY <2>1, <2>2, RenderedWhole
<1> QED
  BY <1>1, WholeCorrect, PTL

\* A checkpoint the agent has accepted contains the retained output up to where
\* it claims to reach, so what is trimmed from the journals for it is not lost.
THEOREM CheckpointsComplete == ASSUME Uninterrupted PROVE Spec => []CheckpointWhole
<1>1. WholeInv => CheckpointWhole
  BY DEF WholeInv
<1> QED
  BY <1>1, WholeCorrect, PTL
=============================================================================
