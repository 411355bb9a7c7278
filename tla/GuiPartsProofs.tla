--------------------------- MODULE GuiPartsProofs ---------------------------
(***************************************************************************)
(* For each part in GuiParts an inductive invariant, and that it holds at  *)
(* the start, is kept by every step and gives the part's properties; what  *)
(* that says of MCGui is in GuiProofs.                                     *)
(***************************************************************************)
EXTENDS GuiParts, FiniteSetTheorems, SequenceTheorems, TLAPS

-----------------------------------------------------------------------------
(* AI sidebar                                                              *)

TurnRecord == [id : Nat, role : {"user", "assistant", "tool"}, pending : BOOLEAN, error : BOOLEAN]

\* The state of the sidebar.
Chats ==
  [turns : Seq(TurnRecord), sending : BOOLEAN, agentMode : BOOLEAN, autoApprove : BOOLEAN,
   approval : BOOLEAN, streaming : BOOLEAN, at : Chat!Waits, step : 0 .. MaxSteps,
   calls : Seq(Chat!Kinds), asked : Nat, answered : Nat, first : Nat, reuse : BOOLEAN,
   pane : {"none", "open", "watched"}, agreed : BOOLEAN, minted : Nat]

\* Of the calls the model asked for, those that are not answered yet are those left.
Tallied(g) ==
  g \in Chats /\ Len(g.calls) <= MaxCalls /\ g.answered + Len(g.calls) = g.asked

\* Where the loop stands, and what it may not have left behind there.
Placed(g) ==
  /\ g.at \in {"idle", "stream", "model"} <=> g.calls = <<>>
  /\ g.at \in {"command", "control"} => g.agreed
  /\ g.approval <=> g.at = "user"
  /\ g.sending <=> g.at # "idle"

\* A stream at the backend is one that the sidebar waits for.
ChatInv ==
  /\ Tallied(ai) /\ Placed(ai)
  /\ stream \in [phase : Chat!Phases, flag : BOOLEAN, cancel : BOOLEAN]
  /\ stream.phase # "off" => ai.at = "stream"
  /\ sends \in 0 .. MaxSends

LEMMA ChatHolds ==
  Chat!ChatAssumption /\ ChatInv => Chat!TypeOK /\ Chat!CallsAnswered
<1> SUFFICES ASSUME Chat!ChatAssumption, ChatInv PROVE Chat!TypeOK /\ Chat!CallsAnswered
  OBVIOUS
<1>1. /\ ai.answered \in Nat /\ ai.asked \in Nat /\ Len(ai.calls) \in Nat
      /\ ai.answered + Len(ai.calls) = ai.asked /\ ai.calls \in Seq(Chat!Kinds)
  BY DEF ChatInv, Tallied, Chats
<1>2. Chat!TypeOK
  <2>1. ai.answered <= ai.asked
    BY <1>1
  <2> QED  BY <2>1 DEF ChatInv, Tallied, Chats, TurnRecord, Chat!TypeOK
<1>3. ai.at \in {"model", "idle"} => ai.answered = ai.asked
  <2>1. ai.at \in {"model", "idle"} => Len(ai.calls) = 0
    BY <1>1 DEF ChatInv, Placed
  <2> QED  BY <1>1, <2>1
<1> QED  BY <1>2, <1>3 DEF ChatInv, Placed, Chat!CallsAnswered

LEMMA InitChat ==
  ASSUME Chat!ChatAssumption, Chat!Init
  PROVE  ChatInv
<1>1. PICK auto \in BOOLEAN :
        ai = [turns |-> <<>>, sending |-> FALSE, agentMode |-> FALSE, autoApprove |-> auto,
              approval |-> FALSE, streaming |-> FALSE, at |-> "idle", step |-> 0,
              calls |-> <<>>, asked |-> 0, answered |-> 0, first |-> 0, reuse |-> FALSE,
              pane |-> "none", agreed |-> FALSE, minted |-> 0]
  BY DEF Chat!Init
<1>2. <<>> \in Seq(TurnRecord) /\ <<>> \in Seq(Chat!Kinds) /\ Len(<<>>) = 0 /\ 0 \in 0 .. MaxSteps
  BY DEF Chat!ChatAssumption
<1>3. Tallied(ai)
  BY <1>1, <1>2 DEF Tallied, Chats, Chat!Waits, Chat!ChatAssumption
<1>4. Placed(ai)
  BY <1>1 DEF Placed
<1> QED  BY <1>3, <1>4 DEF Chat!Init, ChatInv, Chat!ChatAssumption, Chat!Phases

-----------------------------------------------------------------------------
(* The transcript.                                                         *)

\* What concerns the loop is the same in g and h.
SameLoop(g, h) ==
  /\ h \in Chats
  /\ h.calls = g.calls /\ h.answered = g.answered /\ h.asked = g.asked /\ h.at = g.at
  /\ h.approval = g.approval /\ h.sending = g.sending /\ h.agreed = g.agreed
  /\ h.step = g.step /\ h.pane = g.pane /\ h.autoApprove = g.autoApprove

LEMMA Lengthened ==
  ASSUME NEW S, NEW s \in Seq(S), NEW e \in S, NEW f \in S
  PROVE  Append(s, e) \in Seq(S) /\ s \o <<e, f>> \in Seq(S)
<1>1. <<e, f>> \in Seq(S)
  OBVIOUS
<1> QED  BY <1>1, AppendProperties, ConcatProperties

LEMMA FromFunction ==
  ASSUME NEW S, NEW n \in Nat, NEW f \in [1 .. n -> S]
  PROVE  f \in Seq(S)
  OBVIOUS

LEMMA TurnsKept ==
  ASSUME NEW g \in Chats, NEW id \in Nat, NEW p \in BOOLEAN, NEW e \in BOOLEAN,
         NEW role \in {"user", "assistant", "tool"}
  PROVE  SameLoop(g, Chat!AddTurn(g, role, e)) /\ SameLoop(g, Chat!SetTurn(g, id, p, e))
<1>1. g.turns \in Seq(TurnRecord) /\ g.minted + 1 \in Nat
  BY DEF Chats
<1>2. Chat!Turn(g.minted + 1, role, FALSE, e) \in TurnRecord
  BY <1>1 DEF Chat!Turn, TurnRecord
<1>3. Append(g.turns, Chat!Turn(g.minted + 1, role, FALSE, e)) \in Seq(TurnRecord)
  BY <1>1, <1>2, Lengthened
<1>4. SameLoop(g, Chat!AddTurn(g, role, e))
  BY <1>1, <1>3 DEF Chat!AddTurn, SameLoop, Chats
<1> DEFINE new == [i \in DOMAIN g.turns |->
     IF g.turns[i].id = id THEN [g.turns[i] EXCEPT !.pending = p, !.error = e] ELSE g.turns[i]]
<1>5. new \in Seq(TurnRecord)
  <2>1. ASSUME NEW i \in 1 .. Len(g.turns) PROVE new[i] \in TurnRecord
    <3>1. g.turns[i] \in TurnRecord /\ i \in DOMAIN g.turns
      BY <1>1
    <3>2. [g.turns[i] EXCEPT !.pending = p, !.error = e] \in TurnRecord
      BY <3>1 DEF TurnRecord
    <3> QED  BY <3>1, <3>2
  <2>2. DOMAIN new = 1 .. Len(g.turns) /\ Len(g.turns) \in Nat
    BY <1>1
  <2>3. new \in [1 .. Len(g.turns) -> TurnRecord]
    BY <2>1, <2>2
  <2> HIDE DEF new
  <2> QED  BY <2>2, <2>3, FromFunction
<1>6. Chat!SetTurn(g, id, p, e) = [g EXCEPT !.turns = new]
  BY DEF Chat!SetTurn
<1> HIDE DEF new
<1>7. SameLoop(g, Chat!SetTurn(g, id, p, e))
  BY <1>5, <1>6 DEF SameLoop, Chats
<1> QED  BY <1>4, <1>7

LEMMA SameTallies ==
  ASSUME NEW g, Tallied(g), NEW h, SameLoop(g, h)
  PROVE  Tallied(h)
  BY DEF Tallied, SameLoop

\* What no answer touches.
Around(g, h) ==
  /\ h.approval = g.approval /\ h.sending = g.sending /\ h.agreed = g.agreed /\ h.at = g.at
  /\ h.step = g.step /\ h.pane = g.pane /\ h.autoApprove = g.autoApprove

LEMMA AnswerTallies ==
  ASSUME Chat!ChatAssumption, NEW g, Tallied(g), g.calls # <<>>
  PROVE  LET h == Chat!AddTurn(Chat!Answer(g), "tool", FALSE) IN Tallied(h) /\ Around(g, h)
<1>1. g.calls \in Seq(Chat!Kinds) /\ g.answered \in Nat /\ g.asked \in Nat
  BY DEF Tallied, Chats
<1>2. /\ Tail(g.calls) \in Seq(Chat!Kinds) /\ Len(Tail(g.calls)) = Len(g.calls) - 1
      /\ Len(g.calls) \in Nat /\ MaxCalls \in Nat /\ g.answered + 1 \in Nat
  BY <1>1 DEF Chat!ChatAssumption
<1>3. Chat!Answer(g) \in Chats
  BY <1>1, <1>2 DEF Tallied, Chats, Chat!Answer
<1>4. /\ Chat!Answer(g).calls = Tail(g.calls) /\ Chat!Answer(g).answered = g.answered + 1
      /\ Chat!Answer(g).asked = g.asked /\ Around(g, Chat!Answer(g))
  BY DEF Tallied, Chats, Chat!Answer, Around
<1>5. Tallied(Chat!Answer(g))
  BY <1>1, <1>2, <1>3, <1>4 DEF Tallied
<1>6. SameLoop(Chat!Answer(g), Chat!AddTurn(Chat!Answer(g), "tool", FALSE))
  BY <1>3, TurnsKept
<1> QED  BY <1>4, <1>5, <1>6, SameTallies DEF SameLoop, Around

-----------------------------------------------------------------------------
(* The loop.                                                               *)

LEMMA CountIs ==
  ASSUME NEW S, IsFiniteSet(S)
  PROVE  Chat!Cardinality(S) \in Nat
<1>1. Chat!Cardinality(S) = Cardinality(S)
  BY DEF Chat!Cardinality, Cardinality
<1> QED  BY <1>1, FS_CardinalityType

LEMMA HandledTallies ==
  ASSUME Chat!ChatAssumption, NEW g, Tallied(g), NEW n \in 0 .. Len(g.calls)
  PROVE  /\ Tallied(Chat!Handled(g, n)) /\ Around(g, Chat!Handled(g, n))
         /\ Len(Chat!Handled(g, n).calls) = Len(g.calls) - n
<1> DEFINE noPane == Chat!Cardinality({i \in 1 .. n : g.calls[i] = "command"})
           said == [k \in 1 .. noPane |-> Chat!Turn(g.minted + k, "tool", FALSE, FALSE)]
           left == SubSeq(g.calls, n + 1, Len(g.calls))
<1>1. /\ g.calls \in Seq(Chat!Kinds) /\ g.answered \in Nat /\ g.asked \in Nat /\ g.minted \in Nat
      /\ g.turns \in Seq(TurnRecord) /\ Len(g.calls) \in Nat /\ MaxCalls \in Nat
  BY DEF Tallied, Chats, Chat!ChatAssumption
<1>2. noPane \in Nat
  <2>1. IsFiniteSet(1 .. n)
    BY FS_Interval
  <2>2. IsFiniteSet({i \in 1 .. n : g.calls[i] = "command"})
    BY <2>1, FS_Subset
  <2> QED  BY <2>2, CountIs
<1>3. said \in Seq(TurnRecord)
  <2>1. \A k \in 1 .. noPane : said[k] \in TurnRecord
    BY <1>1, <1>2 DEF Chat!Turn, TurnRecord
  <2>2. said \in [1 .. noPane -> TurnRecord]
    BY <2>1
  <2> HIDE DEF said, noPane
  <2> QED  BY <1>2, <2>2, FromFunction
<1>4. left \in Seq(Chat!Kinds) /\ Len(left) = Len(g.calls) - n
  BY <1>1
<1>5. g.turns \o said \in Seq(TurnRecord)
  BY <1>1, <1>3
<1>6. Chat!Handled(g, n) = [g EXCEPT !.calls = left, !.answered = @ + n, !.turns = @ \o said,
                                !.minted = @ + noPane]
  BY DEF Chat!Handled
<1> HIDE DEF noPane, said, left
<1>9. g.answered + n \in Nat /\ g.minted + noPane \in Nat
  BY <1>1, <1>2
<1>7. Chat!Handled(g, n) \in Chats
  BY <1>1, <1>9, <1>2, <1>4, <1>5, <1>6 DEF Tallied, Chats
<1>8. /\ Chat!Handled(g, n).calls = left /\ Chat!Handled(g, n).answered = g.answered + n
      /\ Chat!Handled(g, n).asked = g.asked /\ Around(g, Chat!Handled(g, n))
  BY <1>6 DEF Tallied, Chats, Around
<1> QED  BY <1>1, <1>4, <1>7, <1>8 DEF Tallied

\* There is a first call at which the loop waits.
LEMMA FirstWaits ==
  ASSUME NEW W \in SUBSET Nat, W # {}
  PROVE  (CHOOSE i \in W : \A j \in W : i <= j) \in W
<1>1. IsWellFoundedOn(OpToRel(<, Nat), Nat)
  BY NatLessThanWellFounded
<1>2. PICK m \in W : \A n \in W : ~ (<<n, m>> \in OpToRel(<, Nat))
  BY <1>1, WFMin
<1>3. \A n \in W : m <= n
  <2>1. SUFFICES ASSUME NEW n \in W PROVE m <= n
    OBVIOUS
  <2>2. <<n, m>> \notin OpToRel(<, Nat)
    BY <1>2
  <2>3. m \in Nat /\ n \in Nat
    OBVIOUS
  <2>4. ~ (n < m)
    BY <2>2, <2>3, Zenon DEF OpToRel
  <2> QED  BY <2>3, <2>4
<1> QED  BY <1>3

LEMMA RunPlaces ==
  ASSUME NEW g, Tallied(g), g.calls # <<>>, g.sending = TRUE, g.approval = FALSE
  PROVE  Tallied(Chat!Run(g)) /\ Placed(Chat!Run(g)) /\ Chat!Run(g).at # "stream"
<1>1. Chat!Run(g) \in Chats
  BY DEF Tallied, Chats, Chat!Waits, Chat!Run
<1>2. /\ Chat!Run(g).calls = g.calls /\ Chat!Run(g).answered = g.answered /\ Chat!Run(g).asked = g.asked
      /\ Chat!Run(g).at \in {"control", "command"} /\ Chat!Run(g).agreed = TRUE
      /\ Chat!Run(g).sending = TRUE /\ Chat!Run(g).approval = FALSE
  BY DEF Tallied, Chats, Chat!Run
<1> QED  BY <1>1, <1>2 DEF Tallied, Placed

LEMMA DonePlaces ==
  ASSUME NEW g, Tallied(g), g.calls = <<>>, g.approval = FALSE
  PROVE  Tallied(Chat!Done(g)) /\ Placed(Chat!Done(g)) /\ Chat!Done(g).at = "idle"
<1>1. Chat!Done(g) \in Chats
  BY DEF Tallied, Chats, Chat!Waits, Chat!Done
<1>2. /\ Chat!Done(g).calls = g.calls /\ Chat!Done(g).answered = g.answered /\ Chat!Done(g).asked = g.asked
      /\ Chat!Done(g).at = "idle" /\ Chat!Done(g).sending = FALSE /\ Chat!Done(g).approval = FALSE
  BY DEF Tallied, Chats, Chat!Done
<1> QED  BY <1>1, <1>2 DEF Tallied, Placed

LEMMA LoopPlaces ==
  ASSUME Chat!ChatAssumption, NEW g, Tallied(g), g.sending = TRUE, g.approval = FALSE
  PROVE  Tallied(Chat!Loop(g)) /\ Placed(Chat!Loop(g)) /\ Chat!Loop(g).at # "stream"
<1>1. g.calls \in Seq(Chat!Kinds) /\ Len(g.calls) \in Nat /\ g.step \in 0 .. MaxSteps /\ MaxSteps \in Nat
  BY DEF Tallied, Chats, Chat!ChatAssumption
<1>2. ASSUME Chat!Waiting(g) # {}
      PROVE  Tallied(Chat!Loop(g)) /\ Placed(Chat!Loop(g)) /\ Chat!Loop(g).at # "stream"
  <2> DEFINE first == CHOOSE i \in Chat!Waiting(g) : \A j \in Chat!Waiting(g) : i <= j
             next == Chat!Handled(g, first - 1)
             ask == [next EXCEPT !.at = "user", !.approval = TRUE]
  <2>1. Chat!Waiting(g) \in SUBSET Nat
    BY <1>1 DEF Chat!Waiting
  <2>2. first \in Chat!Waiting(g)
    BY <1>2, <2>1, FirstWaits
  <2>4. Chat!Loop(g) = IF g.autoApprove THEN Chat!Run(next) ELSE ask
    BY <1>2 DEF Chat!Loop
  <2> HIDE DEF first
  <2>3. first \in 1 .. Len(g.calls)
    BY <1>1, <2>2 DEF Chat!Waiting
  <2>5. first - 1 \in 0 .. Len(g.calls) /\ Len(g.calls) - (first - 1) > 0
    BY <1>1, <2>3
  <2>6. Tallied(next) /\ Around(g, next) /\ Len(next.calls) > 0
    BY <2>5, HandledTallies
  <2> HIDE DEF next
  <2>7. next.calls # <<>> /\ next.sending = TRUE /\ next.approval = FALSE
    BY <2>6 DEF Around
  <2>8. Tallied(Chat!Run(next)) /\ Placed(Chat!Run(next)) /\ Chat!Run(next).at # "stream"
    BY <2>6, <2>7, RunPlaces
  <2>9. Tallied(ask) /\ Placed(ask) /\ ask.at # "stream"
    <3>1. ask \in Chats
      BY <2>6 DEF Tallied, Chats, Chat!Waits
    <3>2. /\ ask.calls = next.calls /\ ask.answered = next.answered /\ ask.asked = next.asked
          /\ ask.at = "user" /\ ask.approval = TRUE /\ ask.sending = TRUE
      BY <2>6, <2>7 DEF Tallied, Chats
    <3> QED  BY <2>6, <2>7, <3>1, <3>2 DEF Tallied, Placed
  <2> HIDE DEF ask
  <2> QED  BY <2>4, <2>8, <2>9
<1>3. ASSUME Chat!Waiting(g) = {}
      PROVE  Tallied(Chat!Loop(g)) /\ Placed(Chat!Loop(g)) /\ Chat!Loop(g).at # "stream"
  <2> DEFINE next == Chat!Handled(g, Len(g.calls))
             ask == [next EXCEPT !.step = @ + 1, !.at = "model"]
  <2>1. Chat!Loop(g) = IF g.step + 1 >= MaxSteps THEN Chat!Done(next) ELSE ask
    BY <1>3 DEF Chat!Loop
  <2>2. Tallied(next) /\ Around(g, next) /\ Len(next.calls) = 0
    BY <1>1, HandledTallies
  <2> HIDE DEF next
  <2>3. next.calls = <<>> /\ next.sending = TRUE /\ next.approval = FALSE /\ next.step = g.step
    BY <2>2 DEF Around, Tallied, Chats
  <2>4. Tallied(Chat!Done(next)) /\ Placed(Chat!Done(next)) /\ Chat!Done(next).at = "idle"
    BY <2>2, <2>3, DonePlaces
  <2>5. ASSUME ~(g.step + 1 >= MaxSteps) PROVE Tallied(ask) /\ Placed(ask) /\ ask.at # "stream"
    <3>1. next.step + 1 \in 0 .. MaxSteps
      BY <1>1, <2>3, <2>5
    <3>2. ask \in Chats
      BY <2>2, <3>1 DEF Tallied, Chats, Chat!Waits
    <3>3. /\ ask.calls = next.calls /\ ask.answered = next.answered /\ ask.asked = next.asked
          /\ ask.at = "model" /\ ask.approval = FALSE /\ ask.sending = TRUE
      BY <2>2, <2>3 DEF Tallied, Chats
    <3> QED  BY <2>2, <2>3, <3>2, <3>3 DEF Tallied, Placed
  <2> HIDE DEF ask
  <2> QED  BY <2>1, <2>4, <2>5
<1> QED  BY <1>2, <1>3

-----------------------------------------------------------------------------
(* The steps.                                                              *)

Tried(g) == Tallied(g) /\ Placed(g)

Streams == [phase : Chat!Phases, flag : BOOLEAN, cancel : BOOLEAN]

\* What a step of the sidebar has to keep, apart from sends.
StaysTallied(g, s) == Tried(g) /\ s \in Streams /\ (s.phase # "off" => g.at = "stream")

LEMMA StepSend ==
  ASSUME Chat!ChatAssumption, ChatInv, Chat!Send
  PROVE  StaysTallied(ai', stream')
<1>1. ai \in Chats /\ ai.sending = FALSE /\ ai.at = "idle" /\ ai.approval = FALSE /\ stream.phase = "off"
  BY DEF ChatInv, Tallied, Placed, Chat!Send, Chats
<1>2. PICK provider \in BOOLEAN, pane \in {"none", "open", "watched"} :
       LET first == ai.minted + 2
           g == [ai EXCEPT !.turns = @ \o <<Chat!Turn(ai.minted + 1, "user", FALSE, FALSE),
                                            Chat!Turn(first, "assistant", TRUE, FALSE)>>,
                           !.minted = first, !.sending = TRUE, !.pane = pane,
                           !.first = first, !.reuse = TRUE, !.step = 0, !.calls = <<>>,
                           !.asked = 0, !.answered = 0]
       IN IF ~provider
          THEN ai' = Chat!Done(Chat!SetTurn(g, first, FALSE, TRUE)) /\ UNCHANGED stream
          ELSE IF g.agentMode
          THEN ai' = [g EXCEPT !.at = "model"] /\ UNCHANGED stream
          ELSE /\ ai' = [g EXCEPT !.at = "stream", !.streaming = TRUE]
               /\ stream' = [phase |-> "starting", flag |-> FALSE, cancel |-> FALSE]
  BY DEF Chat!Send
<1> DEFINE first == ai.minted + 2
           turns == ai.turns \o <<Chat!Turn(ai.minted + 1, "user", FALSE, FALSE),
                                  Chat!Turn(first, "assistant", TRUE, FALSE)>>
           g == [ai EXCEPT !.turns = turns,
                           !.minted = first, !.sending = TRUE, !.pane = pane,
                           !.first = first, !.reuse = TRUE, !.step = 0, !.calls = <<>>,
                           !.asked = 0, !.answered = 0]
<1>3. first \in Nat /\ ai.minted + 1 \in Nat /\ MaxSteps \in Nat /\ MaxCalls \in Nat
  BY <1>1 DEF Chats, Chat!ChatAssumption
<1>4. turns \in Seq(TurnRecord)
  <2>1. ai.turns \in Seq(TurnRecord)
    BY <1>1 DEF Chats
  <2>2. Chat!Turn(ai.minted + 1, "user", FALSE, FALSE) \in TurnRecord /\ Chat!Turn(first, "assistant", TRUE, FALSE) \in TurnRecord
    BY <1>3 DEF Chat!Turn, TurnRecord
  <2> QED  BY <2>1, <2>2, Lengthened
<1>5. \/ ai' = Chat!Done(Chat!SetTurn(g, first, FALSE, TRUE)) /\ stream' = stream
      \/ ai' = [g EXCEPT !.at = "model"] /\ stream' = stream
      \/ /\ ai' = [g EXCEPT !.at = "stream", !.streaming = TRUE]
         /\ stream' = [phase |-> "starting", flag |-> FALSE, cancel |-> FALSE]
  BY <1>2
<1> HIDE DEF turns, first
<1>6. g \in Chats
  <2>1. <<>> \in Seq(Chat!Kinds) /\ 0 \in 0 .. MaxSteps
    BY <1>3
  <2> QED  BY <1>1, <1>3, <1>4, <2>1 DEF Chats
<1>7. g.calls = <<>> /\ g.asked = 0 /\ g.answered = 0 /\ g.sending = TRUE /\ g.approval = FALSE
  BY <1>1 DEF Chats
<1> HIDE DEF g
<1>8. Tallied(g)
  <2>1. Len(<<>>) = 0
    OBVIOUS
  <2> QED  BY <1>3, <1>6, <1>7, <2>1 DEF Tallied
<1>9. ASSUME ai' = Chat!Done(Chat!SetTurn(g, first, FALSE, TRUE)), stream' = stream
      PROVE  Tried(ai') /\ stream'.phase = "off"
  <2>1. SameLoop(g, Chat!SetTurn(g, first, FALSE, TRUE))
    BY <1>3, <1>6, TurnsKept
  <2>2. Tallied(Chat!SetTurn(g, first, FALSE, TRUE))
    BY <1>8, <2>1, SameTallies
  <2> QED  BY <1>1, <1>7, <1>9, <2>1, <2>2, DonePlaces DEF SameLoop, Tried
<1>10. ASSUME NEW at \in {"model", "stream"}, NEW h, h = [g EXCEPT !.at = at] \/ h = [g EXCEPT !.at = at, !.streaming = TRUE]
       PROVE  Tried(h) /\ h.at = at
  <2>1. h \in Chats /\ h.at = at /\ h.calls = <<>> /\ h.asked = 0 /\ h.answered = 0 /\ h.sending = TRUE /\ h.approval = FALSE
    BY <1>6, <1>7, <1>10 DEF Chats, Chat!Waits
  <2>2. Placed(h)
    BY <2>1 DEF Placed
  <2>3. Tallied(h)
    BY <1>7, <1>8, <2>1 DEF Tallied
  <2> QED  BY <2>1, <2>2, <2>3 DEF Tried
<1>11. stream \in Streams
  BY DEF ChatInv, Streams
<1>12. CASE ai' = Chat!Done(Chat!SetTurn(g, first, FALSE, TRUE)) /\ stream' = stream
  BY <1>9, <1>11, <1>12 DEF StaysTallied
<1>13. CASE ai' = [g EXCEPT !.at = "model"] /\ stream' = stream
  <2>1. Tried(ai')
    BY <1>10, <1>13
  <2> QED  BY <1>1, <1>11, <1>13, <2>1 DEF StaysTallied
<1>14. CASE /\ ai' = [g EXCEPT !.at = "stream", !.streaming = TRUE]
            /\ stream' = [phase |-> "starting", flag |-> FALSE, cancel |-> FALSE]
  <2>1. Tried(ai') /\ ai'.at = "stream"
    BY <1>10, <1>14
  <2> QED  BY <1>14, <2>1 DEF StaysTallied, Streams, Chat!Phases
<1> QED  BY <1>5, <1>12, <1>13, <1>14

\* The user's settings and the stream's name play no part in it.
LEMMA SetupKept ==
  ASSUME ChatInv, NEW h \in Chats, SameLoop(ai, h)
  PROVE  Tried(h) /\ h.at = ai.at
  BY SameTallies DEF ChatInv, SameLoop, Placed, Tried

LEMMA StepUser ==
  ASSUME Chat!ChatAssumption, ChatInv, Chat!Clear \/ Chat!SetAgentMode \/ Chat!SetAutoApprove \/ Chat!Stop
  PROVE  StaysTallied(ai', stream')
<1>1. ai \in Chats /\ stream \in Streams /\ (stream.phase # "off" => ai.at = "stream")
  BY DEF ChatInv, Tallied, Streams
<1>2. \/ ai' = [ai EXCEPT !.turns = <<>>] \/ ai' = [ai EXCEPT !.agentMode = ~@]
      \/ ai' = [ai EXCEPT !.streaming = FALSE]
      \/ ai' = [ai EXCEPT !.autoApprove = ~@] /\ ~ai.sending
  BY DEF Chat!Clear, Chat!SetAgentMode, Chat!SetAutoApprove, Chat!Stop
<1>3. stream' \in Streams /\ stream'.phase = stream.phase
  BY <1>1 DEF Chat!Clear, Chat!SetAgentMode, Chat!SetAutoApprove, Chat!Stop, Streams
<1>4. ai' \in Chats
  <2>1. <<>> \in Seq(TurnRecord)
    OBVIOUS
  <2>2. [ai EXCEPT !.turns = <<>>] \in Chats
    BY <1>1, <2>1 DEF Chats
  <2>3. [ai EXCEPT !.agentMode = ~@] \in Chats
    BY <1>1 DEF Chats
  <2>4. [ai EXCEPT !.streaming = FALSE] \in Chats
    BY <1>1 DEF Chats
  <2>5. [ai EXCEPT !.autoApprove = ~@] \in Chats
    BY <1>1 DEF Chats
  <2> QED  BY <1>2, <2>2, <2>3, <2>4, <2>5
<1>5. /\ ai'.calls = ai.calls /\ ai'.answered = ai.answered /\ ai'.asked = ai.asked
      /\ ai'.at = ai.at /\ ai'.approval = ai.approval /\ ai'.sending = ai.sending
      /\ ai'.agreed = ai.agreed
  BY <1>1, <1>2 DEF Chats
<1>6. Tried(ai')
  BY <1>4, <1>5 DEF ChatInv, Tallied, Placed, Tried
<1> QED  BY <1>1, <1>3, <1>5, <1>6 DEF StaysTallied

LEMMA StepResolve ==
  ASSUME Chat!ChatAssumption, ChatInv, Chat!Resolve
  PROVE  StaysTallied(ai', stream')
<1> DEFINE g == [ai EXCEPT !.approval = FALSE]
<1>1. /\ ai \in Chats /\ ai.at = "user" /\ ai.calls # <<>> /\ ai.sending = TRUE
      /\ stream \in Streams /\ stream.phase = "off" /\ stream' = stream
  BY DEF ChatInv, Tallied, Placed, Chat!Resolve, Streams, Chats
<1>2. /\ g \in Chats /\ g.approval = FALSE /\ g.calls # <<>> /\ g.sending = TRUE
      /\ g.calls = ai.calls /\ g.answered = ai.answered /\ g.asked = ai.asked
  BY <1>1 DEF Chats
<1>3. \/ ai' = Chat!Loop(Chat!Deny(g)) \/ ai' = Chat!Loop(Chat!NoPane(g)) \/ ai' = Chat!Run(g)
  BY DEF Chat!Resolve
<1> HIDE DEF g
<1>4. Tallied(g)
  BY <1>2 DEF ChatInv, Tallied
<1>5. Tried(Chat!Run(g)) /\ Chat!Run(g).at # "stream"
  BY <1>2, <1>4, RunPlaces DEF Tried
<1> DEFINE h == Chat!AddTurn(Chat!Answer(g), "tool", FALSE)
<1>6. Tallied(h) /\ Around(g, h)
  BY <1>2, <1>4, AnswerTallies
<1>7. Chat!Deny(g) = h /\ Chat!NoPane(g) = h
  BY DEF Chat!Deny, Chat!NoPane
<1> HIDE DEF h
<1>8. Tried(Chat!Loop(h)) /\ Chat!Loop(h).at # "stream"
  BY <1>2, <1>6, LoopPlaces DEF Around, Tried
<1> QED  BY <1>1, <1>3, <1>5, <1>7, <1>8 DEF StaysTallied

LEMMA StepStream ==
  ASSUME Chat!ChatAssumption, ChatInv, Chat!CancelArrives \/ Chat!StreamOpens \/ Chat!Answers \/ Chat!Chunk \/ Chat!StreamEnds
  PROVE  StaysTallied(ai', stream')
<1>1. /\ ai \in Chats /\ stream \in Streams /\ (stream.phase # "off" => ai.at = "stream")
      /\ ai.first \in Nat /\ Tried(ai) /\ Tallied(ai)
  BY DEF ChatInv, Tallied, Streams, Chats, Tried
<1>2. CASE Chat!CancelArrives
  BY <1>1, <1>2 DEF Chat!CancelArrives, StaysTallied, Streams
<1>6. CASE Chat!Answers
  BY <1>1, <1>6 DEF Chat!Answers, StaysTallied, Streams, Chat!Phases
<1>3. CASE Chat!StreamOpens
  BY <1>1, <1>3 DEF Chat!StreamOpens, StaysTallied, Streams, Chat!Phases
<1>4. CASE Chat!Chunk
  <2>1. SameLoop(ai, ai') /\ stream' = stream
    BY <1>1, <1>4, TurnsKept DEF Chat!Chunk
  <2>2. Tried(ai') /\ ai'.at = ai.at
    BY <2>1, SetupKept DEF SameLoop
  <2> QED  BY <1>1, <2>1, <2>2 DEF StaysTallied
<1>5. CASE Chat!StreamEnds
  <2>1. PICK error \in BOOLEAN : ai' = Chat!Done([Chat!SetTurn(ai, ai.first, FALSE, error) EXCEPT !.streaming = FALSE])
    BY <1>5 DEF Chat!StreamEnds, Chat!Errors
  <2> DEFINE g == Chat!SetTurn(ai, ai.first, FALSE, error)
             h == [g EXCEPT !.streaming = FALSE]
  <2>2. SameLoop(ai, g)
    BY <1>1, TurnsKept
  <2> HIDE DEF g
  <2>3. SameLoop(ai, h)
    BY <2>2 DEF SameLoop, Chats
  <2>4. ai.calls = <<>> /\ ai.approval = FALSE
    BY <1>1, <1>5 DEF Chat!StreamEnds, ChatInv, Placed, Chats
  <2>5. h.calls = <<>> /\ h.approval = FALSE
    BY <2>3, <2>4 DEF SameLoop
  <2>6. Tallied(h)
    BY <1>1, <2>3, SameTallies
  <2>7. Tried(Chat!Done(h))
    BY <2>5, <2>6, DonePlaces DEF Tried
  <2>8. stream' \in Streams /\ stream'.phase = "off"
    BY <1>1, <1>5 DEF Chat!StreamEnds, Streams, Chat!Phases
  <2> QED  BY <2>1, <2>7, <2>8 DEF g, StaysTallied
<1> QED  BY <1>2, <1>3, <1>4, <1>5, <1>6

LEMMA StepReply ==
  ASSUME Chat!ChatAssumption, ChatInv, Chat!ModelReplies
  PROVE  StaysTallied(ai', stream')
<1>1. /\ ai \in Chats /\ stream' = stream /\ stream \in Streams /\ stream.phase = "off"
      /\ ai.at = "model" /\ ai.calls = <<>> /\ ai.sending = TRUE /\ ai.approval = FALSE
      /\ ai.first \in Nat /\ Tallied(ai)
  BY DEF ChatInv, Tallied, Placed, Chat!ModelReplies, Streams, Chats
<1>2. PICK text \in BOOLEAN, reply \in Chat!Replies :
       LET g == CASE text /\ ai.reuse -> Chat!SetTurn(ai, ai.first, FALSE, FALSE)
                  [] text /\ ~ai.reuse -> Chat!AddTurn(ai, "assistant", FALSE)
                  [] ~text /\ ai.reuse /\ reply = <<>> -> Chat!SetTurn(ai, ai.first, FALSE, FALSE)
                  [] OTHER -> ai
           next == [g EXCEPT !.reuse = FALSE, !.calls = reply, !.asked = @ + Len(reply)]
       IN ai' = IF reply = <<>> THEN Chat!Done(next) ELSE Chat!Loop(next)
  BY DEF Chat!ModelReplies
<1>3. PICK g : /\ g \in {Chat!SetTurn(ai, ai.first, FALSE, FALSE), Chat!AddTurn(ai, "assistant", FALSE), ai}
               /\ LET next == [g EXCEPT !.reuse = FALSE, !.calls = reply, !.asked = @ + Len(reply)]
                  IN ai' = IF reply = <<>> THEN Chat!Done(next) ELSE Chat!Loop(next)
  <2> DEFINE g == CASE text /\ ai.reuse -> Chat!SetTurn(ai, ai.first, FALSE, FALSE)
                    [] text /\ ~ai.reuse -> Chat!AddTurn(ai, "assistant", FALSE)
                    [] ~text /\ ai.reuse /\ reply = <<>> -> Chat!SetTurn(ai, ai.first, FALSE, FALSE)
                    [] OTHER -> ai
  <2>1. g \in {Chat!SetTurn(ai, ai.first, FALSE, FALSE), Chat!AddTurn(ai, "assistant", FALSE), ai}
    OBVIOUS
  <2> QED  BY <1>2, <2>1
<1>4. SameLoop(ai, g)
  <2>1. /\ SameLoop(ai, Chat!SetTurn(ai, ai.first, FALSE, FALSE))
        /\ SameLoop(ai, Chat!AddTurn(ai, "assistant", FALSE))
    BY <1>1, TurnsKept
  <2>2. SameLoop(ai, ai)
    BY <1>1 DEF SameLoop
  <2> QED  BY <1>3, <2>1, <2>2
<1> DEFINE next == [g EXCEPT !.reuse = FALSE, !.calls = reply, !.asked = @ + Len(reply)]
<1>5. reply \in Seq(Chat!Kinds) /\ Len(reply) \in Nat /\ Len(reply) <= MaxCalls
  <2>1. PICK n \in 0 .. MaxCalls : reply \in [1 .. n -> Chat!Kinds]
    BY DEF Chat!Replies
  <2>2. n \in Nat /\ n <= MaxCalls
    BY DEF Chat!ChatAssumption
  <2>3. reply \in Seq(Chat!Kinds)
    BY <2>1, <2>2, FromFunction
  <2>4. Len(reply) = n
    BY <2>1, <2>2, <2>3
  <2> QED  BY <2>2, <2>3, <2>4
<1>6. /\ g \in Chats /\ g.sending = TRUE /\ g.approval = FALSE /\ g.asked \in Nat /\ g.answered = g.asked
  <2>1. Len(<<>>) = 0
    OBVIOUS
  <2> QED  BY <1>1, <1>4, <2>1 DEF SameLoop, Tallied, Chats
<1>7. /\ next \in Chats /\ next.sending = TRUE /\ next.approval = FALSE /\ next.calls = reply
      /\ next.asked = g.asked + Len(reply) /\ next.answered = g.answered
  <2>1. g.asked + Len(reply) \in Nat
    BY <1>5, <1>6
  <2> QED  BY <1>5, <1>6, <2>1 DEF Chats
<1>8. ai' = IF reply = <<>> THEN Chat!Done(next) ELSE Chat!Loop(next)
  BY <1>3
<1> HIDE DEF next
<1>9. Tallied(next)
  BY <1>5, <1>6, <1>7 DEF Tallied
<1>10. ASSUME reply = <<>> PROVE Tried(Chat!Done(next))
  BY <1>7, <1>9, <1>10, DonePlaces DEF Tried
<1>11. Tried(Chat!Loop(next))
  BY <1>7, <1>9, LoopPlaces DEF Tried
<1> QED  BY <1>1, <1>8, <1>10, <1>11 DEF StaysTallied

LEMMA StepFails ==
  ASSUME Chat!ChatAssumption, ChatInv, Chat!ModelFails
  PROVE  StaysTallied(ai', stream')
<1>1. /\ ai \in Chats /\ stream' = stream /\ stream \in Streams /\ stream.phase = "off"
      /\ ai.at = "model" /\ ai.calls = <<>> /\ ai.approval = FALSE /\ ai.first \in Nat /\ Tallied(ai)
  BY DEF ChatInv, Tallied, Placed, Chat!ModelFails, Streams, Chats
<1>2. PICK g \in {Chat!SetTurn(ai, ai.first, FALSE, TRUE), Chat!AddTurn(ai, "assistant", TRUE)} : ai' = Chat!Done(g)
  BY DEF Chat!ModelFails
<1>3. SameLoop(ai, g)
  BY <1>1, <1>2, TurnsKept
<1>4. Tallied(g) /\ g.calls = <<>> /\ g.approval = FALSE
  BY <1>1, <1>3, SameTallies DEF SameLoop
<1>5. Tried(ai')
  BY <1>2, <1>4, DonePlaces DEF Tried
<1> QED  BY <1>1, <1>5 DEF StaysTallied

LEMMA StepCommand ==
  ASSUME Chat!ChatAssumption, ChatInv, Chat!ControlTaken \/ Chat!CommandEnds
  PROVE  StaysTallied(ai', stream')
<1>1. /\ ai \in Chats /\ stream' = stream /\ stream \in Streams /\ stream.phase = "off"
      /\ ai.at \in {"control", "command"} /\ ai.calls # <<>> /\ ai.approval = FALSE
      /\ ai.sending = TRUE /\ ai.agreed = TRUE /\ Tallied(ai)
  BY DEF ChatInv, Tallied, Placed, Chat!ControlTaken, Chat!CommandEnds, Streams, Chats
<1> DEFINE g == Chat!AddTurn(Chat!Answer(ai), "tool", FALSE)
           h == [g EXCEPT !.agreed = FALSE]
           c == [ai EXCEPT !.at = "command", !.pane = "open"]
<1>2. ai' = c \/ ai' = Chat!Loop(h)
  BY DEF Chat!ControlTaken, Chat!CommandEnds
<1>3. Tallied(g) /\ Around(ai, g)
  BY <1>1, AnswerTallies
<1> HIDE DEF g
<1>4. Tallied(h) /\ h.sending = TRUE /\ h.approval = FALSE
  BY <1>1, <1>3 DEF Tallied, Around, Chats
<1> HIDE DEF h
<1>5. Tried(Chat!Loop(h))
  BY <1>4, LoopPlaces DEF Tried
<1>6. Tried(c)
  <2>1. /\ c \in Chats /\ c.at = "command" /\ c.calls = ai.calls /\ c.answered = ai.answered
        /\ c.asked = ai.asked /\ c.approval = FALSE /\ c.sending = TRUE /\ c.agreed = TRUE
    BY <1>1 DEF Chats, Chat!Waits
  <2> QED  BY <1>1, <2>1 DEF Tallied, Placed, Tried
<1> QED  BY <1>1, <1>2, <1>5, <1>6 DEF StaysTallied

LEMMA StepChat ==
  ASSUME Chat!ChatAssumption, ChatInv, [Chat!Next]_(Chat!aiVars)
  PROVE  ChatInv'
<1>1. CASE UNCHANGED Chat!aiVars
  BY <1>1 DEF Chat!aiVars, ChatInv, Tallied, Placed
<1>2. CASE Chat!Next
  <2>1. StaysTallied(ai', stream')
    BY <1>2, StepSend, StepUser, StepResolve, StepStream, StepReply, StepFails,
       StepCommand
      DEF Chat!Next, Chat!User, Chat!Returns, StaysTallied, Streams
  <2>2. sends' \in 0 .. MaxSends
    <3>1. Chat!Send => sends < MaxSends /\ sends' = sends + 1
      BY DEF Chat!Send
    <3>2. ASSUME ~Chat!Send PROVE sends' = sends
      <4>1. Chat!Resolve \/ Chat!Clear \/ Chat!SetAgentMode \/ Chat!SetAutoApprove \/ Chat!Stop => sends' = sends
        BY DEF Chat!Resolve, Chat!Clear, Chat!SetAgentMode, Chat!SetAutoApprove, Chat!Stop
      <4>2. Chat!Returns => sends' = sends
        BY DEF Chat!Returns, Chat!CancelArrives, Chat!StreamOpens, Chat!Answers,
           Chat!Chunk, Chat!StreamEnds, Chat!ModelReplies, Chat!ModelFails,
           Chat!ControlTaken, Chat!CommandEnds
      <4>3. Chat!Next => Chat!Send \/ Chat!Resolve \/ Chat!Clear \/ Chat!SetAgentMode \/ Chat!SetAutoApprove \/ Chat!Stop
                    \/ Chat!Returns
        BY DEF Chat!Next, Chat!User
      <4> QED  BY <1>2, <3>2, <4>1, <4>2, <4>3
    <3>3. sends \in 0 .. MaxSends /\ MaxSends \in Nat
      BY DEF ChatInv, Chat!ChatAssumption
    <3> QED  BY <3>1, <3>2, <3>3
  <2> QED  BY <2>1, <2>2 DEF StaysTallied, Tried, Streams, ChatInv
<1> QED  BY <1>1, <1>2

-----------------------------------------------------------------------------
(* Updater                                                                 *)

\* What the store waits for is what its state says, and nothing else: no second check
\* and no second download is under way.
OneTask ==
  /\ up.state \in {"idle", "up-to-date", "available", "ready", "error"} => waits = {}
  /\ up.state = "checking" => waits = {"kind"} \/ waits = {"check"}
  /\ up.state = "downloading" =>
       \/ up.kind = "appimage" /\ waits = {"load"}
       \/ up.kind = "deb" /\ (waits = {"fetch"} \/ waits = {"loadDeb"})
  /\ up.state = "installing" => waits = {"install"}

\* The release on offer is newer than the one that runs, and the store holds it.
Offer ==
  up.state \in {"available", "downloading", "ready", "installing"} =>
    /\ up.shown \in Update!Release /\ up.handle = up.shown
    /\ installed < up.shown /\ up.shown <= latest

\* What may be installed was loaded.
LoadedOffer ==
  up.state \in {"ready", "installing"} =>
    \/ up.kind = "appimage" /\ up.loaded
    \/ up.kind = "deb" /\ up.path \in Update!Release /\ up.shown <= up.path /\ up.path <= latest

\* The inductive invariant.
UpdaterInv ==
  Update!TypeOK /\ installed <= latest /\ OneTask /\ Offer /\ LoadedOffer

LEMMA InitUpdater ==
  ASSUME Update!UpdaterAssumption, Update!Init
  PROVE  UpdaterInv
  BY DEF Update!UpdaterAssumption, Update!Init, UpdaterInv, Update!TypeOK,
     Update!UpdaterState, Update!States, Update!Release,
         OneTask, Offer, LoadedOffer

\* The dialog is not in the way of the invariant.
LEMMA ForegroundEffect ==
  ASSUME NEW before, NEW g \in Update!UpdaterState
  PROVE  /\ Update!Foreground(before, g) \in Update!UpdaterState
         /\ Update!Foreground(before, g).state = g.state
         /\ Update!Foreground(before, g).kind = g.kind
         /\ Update!Foreground(before, g).shown = g.shown
         /\ Update!Foreground(before, g).handle = g.handle
         /\ Update!Foreground(before, g).loaded = g.loaded
         /\ Update!Foreground(before, g).path = g.path
         /\ Update!Foreground(before, g).manual = g.manual
  BY DEF Update!Foreground, Update!UpdaterState

LEMMA CheckKeeps ==
  ASSUME Update!UpdaterAssumption, UpdaterInv, Update!MayCheck, NEW g \in Update!UpdaterState,
         NEW auto \in BOOLEAN, Update!Check(g, auto), UNCHANGED <<installed, latest>>,
         clicks' \in 0 .. UpdateClicks
  PROVE  UpdaterInv'
<1> DEFINE h == [g EXCEPT !.state = "checking", !.background = FALSE, !.auto = auto]
<1>1. h \in Update!UpdaterState /\ h.state = "checking"
  BY DEF Update!UpdaterState, Update!States
<1> HIDE DEF h
<1>2. Update!Reset(h) \in Update!UpdaterState /\ Update!Reset(h).state = "checking"
  BY <1>1 DEF Update!Reset, Update!UpdaterState
<1>3. up' \in Update!UpdaterState /\ up'.state = "checking"
  BY <1>2 DEF Update!Check, h
<1>4. waits = {}
  <2>1. up.state \in {"idle", "up-to-date", "available", "error"}
    BY DEF Update!MayCheck, UpdaterInv, Update!TypeOK, Update!UpdaterState, Update!States
  <2> QED  BY <2>1 DEF UpdaterInv, OneTask
<1>5. waits' = {"kind"}
  BY <1>4 DEF Update!Check
<1>6. Update!TypeOK'
  BY <1>3, <1>5 DEF UpdaterInv, Update!TypeOK
<1> QED  BY <1>3, <1>5, <1>6 DEF UpdaterInv, OneTask, Offer, LoadedOffer

LEMMA AutoCheckKeeps ==
  ASSUME Update!UpdaterAssumption, UpdaterInv, Update!AutoCheck
  PROVE  UpdaterInv'
<1> DEFINE g == [up EXCEPT !.timer = FALSE]
<1>1. g \in Update!UpdaterState
  BY DEF UpdaterInv, Update!TypeOK, Update!UpdaterState
<1>2. CASE Update!MayCheck
  <2>1. Update!Check(g, TRUE)
    BY <1>2 DEF Update!AutoCheck
  <2> HIDE DEF g
  <2> QED  BY <1>1, <1>2, <2>1, CheckKeeps DEF Update!AutoCheck, UpdaterInv, Update!TypeOK
<1>3. CASE ~Update!MayCheck
  BY <1>3 DEF Update!AutoCheck, UpdaterInv, Update!TypeOK, Update!UpdaterState, OneTask,
     Offer, LoadedOffer
<1> QED  BY <1>2, <1>3

LEMMA UserCheckKeeps ==
  ASSUME Update!UpdaterAssumption, UpdaterInv, Update!UserCheck
  PROVE  UpdaterInv'
<1>1. clicks' \in 0 .. UpdateClicks
  BY DEF Update!UserCheck, Update!Click, UpdaterInv, Update!TypeOK,
     Update!UpdaterAssumption
<1>2. up \in Update!UpdaterState
  BY DEF UpdaterInv, Update!TypeOK
<1> QED  BY <1>1, <1>2, CheckKeeps DEF Update!UserCheck, Update!Click

LEMMA KindKeeps ==
  ASSUME Update!UpdaterAssumption, UpdaterInv, Update!Kind
  PROVE  UpdaterInv'
<1>1. up.state = "checking"
  BY DEF Update!Kind, UpdaterInv, OneTask, Update!TypeOK, Update!UpdaterState,
     Update!States
<1>2. up' \in Update!UpdaterState /\ up'.state = "checking"
  BY <1>1 DEF Update!Kind, UpdaterInv, Update!TypeOK, Update!UpdaterState
<1>3. waits' = {"check"} /\ UNCHANGED <<installed, latest, clicks>>
  <2>1. waits = {"kind"}
    BY <1>1 DEF Update!Kind, UpdaterInv, OneTask
  <2> QED  BY <2>1 DEF Update!Kind
<1>4. Update!TypeOK'
  BY <1>2, <1>3 DEF UpdaterInv, Update!TypeOK
<1> QED  BY <1>2, <1>3, <1>4 DEF UpdaterInv, OneTask, Offer, LoadedOffer

\* A download may begin with the offer g, whatever was waited for before.
LEMMA DownloadingEffect ==
  ASSUME NEW g \in Update!UpdaterState
  PROVE  /\ Update!Downloading(g) \in Update!UpdaterState
         /\ Update!Downloading(g).kind = g.kind
         /\ Update!Downloading(g).shown = g.shown /\ Update!Downloading(g).handle = g.handle
         /\ Update!Downloading(g).state = IF g.kind = "rpm" THEN "error" ELSE "downloading"
         /\ g.kind = "rpm" => Update!Awaited(g) = {}
         /\ g.kind = "deb" => Update!Awaited(g) = {"fetch"}
         /\ g.kind = "appimage" => Update!Awaited(g) = {"load"}
  BY DEF Update!Downloading, Update!Awaited, Update!Error, Update!Reset,
     Update!UpdaterState, Update!States

LEMMA CheckedKeeps ==
  ASSUME Update!UpdaterAssumption, UpdaterInv, Update!Checked
  PROVE  UpdaterInv'
<1>0. "check" \in waits /\ UNCHANGED <<installed, latest, clicks>>
  BY DEF Update!Checked
<1>1. up.state = "checking" /\ waits = {"check"}
  BY <1>0 DEF UpdaterInv, OneTask, Update!TypeOK, Update!UpdaterState, Update!States
<1>2. ASSUME Update!Becomes([Update!Error(up) EXCEPT !.handle = None]), waits' = {}
      PROVE  UpdaterInv'
  <2> DEFINE g == [Update!Error(up) EXCEPT !.handle = None]
  <2>1. g \in Update!UpdaterState /\ g.state = "error"
    BY DEF UpdaterInv, Update!TypeOK, Update!UpdaterState, Update!States, Update!Error
  <2> HIDE DEF g
  <2>2. up' \in Update!UpdaterState /\ up'.state = "error"
    BY <1>2, <2>1, ForegroundEffect DEF Update!Becomes, g
  <2> QED  BY <1>0, <1>2, <2>2 DEF UpdaterInv, Update!TypeOK, OneTask, Offer, LoadedOffer
<1>3. ASSUME Update!Becomes([up EXCEPT !.state = "up-to-date", !.shown = None]), waits' = {}
      PROVE  UpdaterInv'
  <2> DEFINE g == [up EXCEPT !.state = "up-to-date", !.shown = None]
  <2>1. g \in Update!UpdaterState /\ g.state = "up-to-date"
    BY DEF UpdaterInv, Update!TypeOK, Update!UpdaterState, Update!States
  <2> HIDE DEF g
  <2>2. up' \in Update!UpdaterState /\ up'.state = "up-to-date"
    BY <1>3, <2>1, ForegroundEffect DEF Update!Becomes, g
  <2> QED  BY <1>0, <1>3, <2>2 DEF UpdaterInv, Update!TypeOK, OneTask, Offer, LoadedOffer
<1>4. ASSUME NEW setting \in BOOLEAN, latest # installed,
             LET auto == up.auto /\ setting
                 g == [up EXCEPT !.state = "available", !.background = auto,
                                 !.shown = latest, !.handle = latest, !.loaded = FALSE]
             IN /\ Update!Becomes(IF auto THEN Update!Downloading(g) ELSE g)
                /\ waits' = (waits \ {"check"}) \cup (IF auto THEN Update!Awaited(g) ELSE {})
      PROVE  UpdaterInv'
  <2> DEFINE auto == up.auto /\ setting
             g == [up EXCEPT !.state = "available", !.background = auto,
                             !.shown = latest, !.handle = latest, !.loaded = FALSE]
  <2>1. /\ g \in Update!UpdaterState /\ g.state = "available"
        /\ g.shown = latest /\ g.handle = latest /\ g.kind = up.kind
    BY DEF UpdaterInv, Update!TypeOK, Update!UpdaterState, Update!States
  <2>2. installed < latest /\ latest \in Update!Release
    BY <1>4 DEF UpdaterInv, Update!TypeOK, Update!Release, Update!UpdaterAssumption
  <2>3. Update!Becomes(IF auto THEN Update!Downloading(g) ELSE g) /\ waits' = IF auto THEN Update!Awaited(g) ELSE {}
    BY <1>1, <1>4
  <2> HIDE DEF auto, g
  <2>4. CASE auto
    <3>1. Update!Becomes(Update!Downloading(g)) /\ waits' = Update!Awaited(g)
      BY <2>3, <2>4
    <3>2. Update!Downloading(g) \in Update!UpdaterState
      BY <2>1, DownloadingEffect
    <3>3. /\ up' \in Update!UpdaterState /\ up'.kind = g.kind
          /\ up'.shown = latest /\ up'.handle = latest
          /\ up'.state = IF g.kind = "rpm" THEN "error" ELSE "downloading"
      BY <2>1, <3>1, <3>2, ForegroundEffect, DownloadingEffect DEF Update!Becomes
    <3>4. /\ g.kind = "rpm" => waits' = {}
          /\ g.kind = "deb" => waits' = {"fetch"}
          /\ g.kind = "appimage" => waits' = {"load"}
      BY <2>1, <3>1, DownloadingEffect
    <3>5. g.kind \in {"appimage", "deb", "rpm"}
      BY <2>1 DEF Update!UpdaterState
    <3> QED  BY <1>0, <2>2, <3>3, <3>4, <3>5
              DEF UpdaterInv, Update!TypeOK, OneTask, Offer, LoadedOffer, Update!Release
  <2>5. CASE ~auto
    <3>1. /\ up' \in Update!UpdaterState /\ up'.state = "available"
          /\ up'.shown = latest /\ up'.handle = latest /\ waits' = {}
      BY <2>1, <2>3, <2>5, ForegroundEffect DEF Update!Becomes
    <3> QED  BY <1>0, <2>2, <3>1
              DEF UpdaterInv, Update!TypeOK, OneTask, Offer, LoadedOffer, Update!Release
  <2> QED  BY <2>4, <2>5
<1>5. waits \ {"check"} = {}
  BY <1>1
<1> QED  BY <1>2, <1>3, <1>4, <1>5 DEF Update!Checked

\* A step of the store that ends in an error.
LEMMA ErrorKeeps ==
  ASSUME Update!UpdaterAssumption, UpdaterInv, Update!Becomes(Update!Error(up)), waits' = {},
         UNCHANGED <<installed, latest, clicks>>
  PROVE  UpdaterInv'
<1>1. Update!Error(up) \in Update!UpdaterState /\ Update!Error(up).state = "error"
  BY DEF UpdaterInv, Update!TypeOK, Update!UpdaterState, Update!States, Update!Error
<1>2. up' \in Update!UpdaterState /\ up'.state = "error"
  BY <1>1, ForegroundEffect DEF Update!Becomes
<1> QED  BY <1>2 DEF UpdaterInv, Update!TypeOK, OneTask, Offer, LoadedOffer

LEMMA LoadedKeeps ==
  ASSUME Update!UpdaterAssumption, UpdaterInv, Update!Loaded
  PROVE  UpdaterInv'
<1>1. up.state = "downloading" /\ up.kind = "appimage" /\ waits = {"load"}
  BY DEF Update!Loaded, UpdaterInv, OneTask, Update!TypeOK, Update!UpdaterState,
     Update!States
<1>2. waits' = {}
  BY <1>1 DEF Update!Loaded
<1>0. UNCHANGED <<installed, latest, clicks>>
  BY DEF Update!Loaded
<1>3. ASSUME Update!Becomes([up EXCEPT !.state = "ready", !.loaded = up.handle # None])
      PROVE  UpdaterInv'
  <2> DEFINE g == [up EXCEPT !.state = "ready", !.loaded = up.handle # None]
  <2>0. up.handle # None /\ up.handle = up.shown
    BY <1>1 DEF UpdaterInv, Offer, Update!Release, Update!UpdaterAssumption
  <2>1. /\ g \in Update!UpdaterState /\ g.state = "ready" /\ g.loaded = TRUE
        /\ g.shown = up.shown /\ g.handle = up.handle /\ g.kind = up.kind
    BY <2>0 DEF UpdaterInv, Update!TypeOK, Update!UpdaterState, Update!States
  <2>a. Update!Becomes(g)
    BY <1>3
  <2> HIDE DEF g
  <2>2. /\ up' \in Update!UpdaterState /\ up'.state = "ready" /\ up'.loaded = TRUE
        /\ up'.shown = up.shown /\ up'.handle = up.handle /\ up'.kind = up.kind
    BY <2>1, <2>a, ForegroundEffect DEF Update!Becomes
  <2>3. LoadedOffer'
    BY <1>1, <2>2 DEF LoadedOffer
  <2>4. Offer' /\ OneTask'
    BY <1>0, <1>1, <1>2, <2>0, <2>2 DEF Offer, OneTask, UpdaterInv
  <2> QED  BY <1>0, <1>2, <2>2, <2>3, <2>4 DEF UpdaterInv, Update!TypeOK
<1> QED  BY <1>2, <1>3, ErrorKeeps DEF Update!Loaded

LEMMA FetchedKeeps ==
  ASSUME Update!UpdaterAssumption, UpdaterInv, Update!Fetched
  PROVE  UpdaterInv'
<1>1. up.state = "downloading" /\ up.kind = "deb" /\ waits = {"fetch"}
  BY DEF Update!Fetched, UpdaterInv, OneTask, Update!TypeOK, Update!UpdaterState,
     Update!States
<1>2. CASE UNCHANGED up /\ waits' = (waits \ {"fetch"}) \cup {"loadDeb"}
  <2>1. waits' = {"loadDeb"}
    BY <1>1, <1>2
  <2> QED  BY <1>1, <1>2, <2>1
            DEF Update!Fetched, UpdaterInv, Update!TypeOK, OneTask, Offer, LoadedOffer, Update!Release
<1>3. CASE Update!Becomes(Update!Error(up)) /\ waits' = waits \ {"fetch"}
  BY <1>1, <1>3, ErrorKeeps DEF Update!Fetched
<1> QED  BY <1>2, <1>3 DEF Update!Fetched

LEMMA LoadedDebKeeps ==
  ASSUME Update!UpdaterAssumption, UpdaterInv, Update!LoadedDeb
  PROVE  UpdaterInv'
<1>1. up.state = "downloading" /\ up.kind = "deb" /\ waits = {"loadDeb"}
  BY DEF Update!LoadedDeb, UpdaterInv, OneTask, Update!TypeOK, Update!UpdaterState,
     Update!States
<1>2. waits' = {}
  BY <1>1 DEF Update!LoadedDeb
<1>3. ASSUME NEW r \in Update!Release, r <= latest, r >= up.shown,
             Update!Becomes([up EXCEPT !.state = "ready", !.path = r])
      PROVE  UpdaterInv'
  <2> DEFINE g == [up EXCEPT !.state = "ready", !.path = r]
  <2>1. /\ g \in Update!UpdaterState /\ g.state = "ready" /\ g.path = r
        /\ g.shown = up.shown /\ g.handle = up.handle /\ g.kind = up.kind
    BY DEF UpdaterInv, Update!TypeOK, Update!UpdaterState, Update!States
  <2> HIDE DEF g
  <2>2. /\ up' \in Update!UpdaterState /\ up'.state = "ready" /\ up'.path = r
        /\ up'.shown = up.shown /\ up'.handle = up.handle /\ up'.kind = up.kind
    BY <1>3, <2>1, ForegroundEffect DEF Update!Becomes, g
  <2> QED  BY <1>1, <1>2, <1>3, <2>2
            DEF Update!LoadedDeb, UpdaterInv, Update!TypeOK, OneTask, Offer, LoadedOffer, Update!Release
<1> QED  BY <1>2, <1>3, ErrorKeeps DEF Update!LoadedDeb

LEMMA InstalledKeeps ==
  ASSUME Update!UpdaterAssumption, UpdaterInv, Update!Installed
  PROVE  UpdaterInv' /\ installed' >= installed
<1>1. up.state = "installing" /\ waits = {"install"}
  BY DEF Update!Installed, UpdaterInv, OneTask, Update!TypeOK, Update!UpdaterState,
     Update!States
<1>2. waits' = {}
  BY <1>1 DEF Update!Installed
<1>3. installed \in Nat
  BY DEF UpdaterInv, Update!TypeOK, Update!Release
<1>4. CASE Update!Becomes(Update!Error(up)) /\ UNCHANGED installed
  BY <1>2, <1>3, <1>4, ErrorKeeps DEF Update!Installed
<1>5. CASE /\ up.kind = "deb" /\ UNCHANGED installed
           /\ Update!Becomes([up EXCEPT !.state = "ready", !.manual = TRUE])
  <2> DEFINE g == [up EXCEPT !.state = "ready", !.manual = TRUE]
  <2>1. /\ g \in Update!UpdaterState /\ g.state = "ready" /\ g.path = up.path
        /\ g.shown = up.shown /\ g.handle = up.handle /\ g.kind = up.kind
    BY DEF UpdaterInv, Update!TypeOK, Update!UpdaterState, Update!States
  <2> HIDE DEF g
  <2>2. /\ up' \in Update!UpdaterState /\ up'.state = "ready" /\ up'.path = up.path
        /\ up'.shown = up.shown /\ up'.handle = up.handle /\ up'.kind = up.kind
    BY <1>5, <2>1, ForegroundEffect DEF Update!Becomes, g
  <2> QED  BY <1>1, <1>2, <1>3, <1>5, <2>2
            DEF Update!Installed, UpdaterInv, Update!TypeOK, OneTask, Offer, LoadedOffer, Update!Release
<1>6. CASE /\ installed' = IF up.kind = "deb" THEN up.path ELSE up.handle
           /\ up' = [up EXCEPT !.state = "idle", !.shown = None, !.handle = None,
                               !.loaded = FALSE, !.path = None, !.background = FALSE,
                               !.timer = TRUE, !.dialog = FALSE]
  <2>1. up' \in Update!UpdaterState /\ up'.state = "idle"
    BY <1>6 DEF UpdaterInv, Update!TypeOK, Update!UpdaterState, Update!States
  <2>2. installed' \in Update!Release /\ installed < installed' /\ installed' <= latest
    BY <1>1, <1>6 DEF UpdaterInv, Update!TypeOK, Offer, LoadedOffer, Update!Release
  <2> QED  BY <1>2, <1>3, <2>1, <2>2
            DEF Update!Installed, UpdaterInv, Update!TypeOK, OneTask, Offer, LoadedOffer, Update!Release
<1> QED  BY <1>4, <1>5, <1>6 DEF Update!Installed

LEMMA StartDownloadKeeps ==
  ASSUME Update!UpdaterAssumption, UpdaterInv, Update!StartDownload
  PROVE  UpdaterInv'
<1> DEFINE d == Update!Downloading(up)
           g == [d EXCEPT !.dialog = FALSE]
<1>1. up \in Update!UpdaterState /\ up.state = "available" /\ waits = {}
  BY DEF Update!StartDownload, UpdaterInv, OneTask, Update!TypeOK
<1>2. /\ d \in Update!UpdaterState /\ d.kind = up.kind
      /\ d.shown = up.shown /\ d.handle = up.handle
      /\ d.state = IF up.kind = "rpm" THEN "error" ELSE "downloading"
  BY <1>1, DownloadingEffect
<1>3. Update!Becomes(g) /\ waits' = Update!Awaited(up)
  BY <1>1 DEF Update!StartDownload
<1> HIDE DEF d
<1>4. /\ g \in Update!UpdaterState /\ g.kind = d.kind /\ g.state = d.state
      /\ g.shown = d.shown /\ g.handle = d.handle
  BY <1>2 DEF Update!UpdaterState
<1> HIDE DEF g
<1>5. /\ up' \in Update!UpdaterState /\ up'.kind = up.kind
      /\ up'.shown = up.shown /\ up'.handle = up.handle
      /\ up'.state = IF up.kind = "rpm" THEN "error" ELSE "downloading"
  BY <1>2, <1>3, <1>4, ForegroundEffect DEF Update!Becomes
<1>6. /\ up.kind = "rpm" => waits' = {}
      /\ up.kind = "deb" => waits' = {"fetch"}
      /\ up.kind = "appimage" => waits' = {"load"}
  BY <1>1, <1>3, DownloadingEffect
<1>7. up.kind \in {"appimage", "deb", "rpm"}
  BY <1>1 DEF Update!UpdaterState
<1>8. clicks' \in 0 .. UpdateClicks /\ UNCHANGED <<installed, latest>>
  BY DEF Update!StartDownload, Update!Click, UpdaterInv, Update!TypeOK,
     Update!UpdaterAssumption
<1> QED  BY <1>1, <1>5, <1>6, <1>7, <1>8
          DEF UpdaterInv, Update!TypeOK, OneTask, Offer, LoadedOffer, Update!Release

LEMMA RelaunchKeeps ==
  ASSUME Update!UpdaterAssumption, UpdaterInv, Update!Relaunch
  PROVE  UpdaterInv'
<1>1. up \in Update!UpdaterState /\ up.state = "ready" /\ waits = {}
  BY DEF Update!Relaunch, UpdaterInv, OneTask, Update!TypeOK
<1>2. IF up.kind = "deb" THEN up.path # None ELSE up.handle # None
  BY <1>1 DEF UpdaterInv, Offer, LoadedOffer, Update!Release, Update!UpdaterAssumption
<1>3. up' = [up EXCEPT !.state = "installing"] /\ waits' = {"install"}
  BY <1>1, <1>2 DEF Update!Relaunch
<1>4. clicks' \in 0 .. UpdateClicks /\ UNCHANGED <<installed, latest>>
  BY DEF Update!Relaunch, Update!Click, UpdaterInv, Update!TypeOK,
     Update!UpdaterAssumption
<1>5. /\ up' \in Update!UpdaterState /\ up'.state = "installing"
      /\ up'.shown = up.shown /\ up'.handle = up.handle /\ up'.kind = up.kind
      /\ up'.path = up.path /\ up'.loaded = up.loaded
  BY <1>1, <1>3 DEF Update!UpdaterState, Update!States
<1> QED  BY <1>1, <1>3, <1>4, <1>5
          DEF UpdaterInv, Update!TypeOK, OneTask, Offer, LoadedOffer, Update!Release

LEMMA DialogKeeps ==
  ASSUME Update!UpdaterAssumption, UpdaterInv, Update!Close
  PROVE  UpdaterInv'
<1>1. up \in Update!UpdaterState
  BY DEF UpdaterInv, Update!TypeOK
<1>2. clicks' \in 0 .. UpdateClicks /\ UNCHANGED <<installed, latest, waits>>
  BY DEF Update!Close, Update!Click, UpdaterInv, Update!TypeOK, Update!UpdaterAssumption
<1>3. /\ up' \in Update!UpdaterState /\ up'.state = up.state
      /\ up'.shown = up.shown /\ up'.handle = up.handle /\ up'.kind = up.kind
      /\ up'.path = up.path /\ up'.loaded = up.loaded
  BY <1>1 DEF Update!Close, Update!UpdaterState
<1> QED  BY <1>2, <1>3 DEF UpdaterInv, Update!TypeOK, OneTask, Offer, LoadedOffer,
            Update!Release

LEMMA ReleasedKeeps ==
  ASSUME Update!UpdaterAssumption, UpdaterInv, Update!Released
  PROVE  UpdaterInv'
<1>1. latest' \in Update!Release /\ latest <= latest' /\ latest \in Nat
  BY DEF Update!Released, UpdaterInv, Update!TypeOK, Update!Release,
     Update!UpdaterAssumption
<1>2. UNCHANGED <<up, waits, installed, clicks>>
  BY DEF Update!Released
<1> QED  BY <1>1, <1>2 DEF UpdaterInv, Update!TypeOK, OneTask, Offer, LoadedOffer,
            Update!Release,
                         Update!UpdaterState

LEMMA NextUpdater ==
  ASSUME Update!UpdaterAssumption, UpdaterInv, [Update!Next]_(Update!updaterVars)
  PROVE  UpdaterInv'
<1>1. CASE Update!Returns
  BY <1>1, KindKeeps, CheckedKeeps, LoadedKeeps, FetchedKeeps, LoadedDebKeeps,
     InstalledKeeps DEF Update!Returns
<1>2. CASE UNCHANGED Update!updaterVars
  BY <1>2 DEF Update!updaterVars, UpdaterInv, Update!TypeOK, OneTask, Offer, LoadedOffer
<1> QED  BY <1>1, <1>2, AutoCheckKeeps, UserCheckKeeps, StartDownloadKeeps, RelaunchKeeps,
            DialogKeeps, ReleasedKeeps DEF Update!Next

THEOREM UpdaterInvariance == Update!UpdaterAssumption /\ Update!Spec => []UpdaterInv
<1>1. ASSUME Update!UpdaterAssumption
      PROVE  Update!Spec => []UpdaterInv
  <2>1. Update!Init => UpdaterInv
    BY <1>1, InitUpdater
  <2>2. UpdaterInv /\ [Update!Next]_(Update!updaterVars) => UpdaterInv'
    BY <1>1, NextUpdater
  <2> QED  BY <2>1, <2>2, PTL DEF Update!Spec
<1> QED  BY <1>1

THEOREM UpdaterTyped == Update!UpdaterAssumption /\ Update!Spec => []Update!TypeOK
<1>1. UpdaterInv => Update!TypeOK
  BY DEF UpdaterInv
<1> QED  BY <1>1, UpdaterInvariance, PTL

LEMMA InvReady ==
  ASSUME Update!UpdaterAssumption, UpdaterInv
  PROVE  Update!ReadyIsInstallable
<1>1. ASSUME up.state \in {"ready", "installing"}
      PROVE  /\ up.kind # "rpm"
             /\ up.kind = "deb" => up.path # None /\ up.path >= up.shown
             /\ up.kind # "deb" => up.loaded /\ up.handle = up.shown
             /\ up.shown # installed
  BY <1>1 DEF UpdaterInv, Update!TypeOK, Offer, LoadedOffer, Update!Release,
     Update!UpdaterAssumption
<1>2. up.state = "ready" => waits = {}
  BY DEF UpdaterInv, OneTask
<1>3. up.state = "installing" => waits = {"install"}
  BY DEF UpdaterInv, OneTask
<1> QED  BY <1>1, <1>2, <1>3 DEF Update!ReadyIsInstallable

\* No update takes the program back to an older release, although the package that is
\* fetched may not be the one the dialog showed (updater-store.ts relaunch,
\* updater-deb.ts).
THEOREM NeverOlder ==
  Update!UpdaterAssumption /\ Update!Spec => [][installed' >= installed]_(Update!updaterVars)
<1> DEFINE newer == installed' >= installed
<1>1. ASSUME Update!UpdaterAssumption
      PROVE  Update!Spec => [][newer]_(Update!updaterVars)
  <2>1. UpdaterInv /\ [Update!Next]_(Update!updaterVars) => [newer]_(Update!updaterVars)
    <3>1. ASSUME UpdaterInv, Update!Next PROVE newer
      <4>1. CASE Update!Installed
        BY <1>1, <3>1, <4>1, InstalledKeeps
      <4>2. CASE UNCHANGED installed
        BY <3>1, <4>2 DEF UpdaterInv, Update!TypeOK, Update!Release
      <4> QED  BY <3>1, <4>1, <4>2 DEF Update!Next, Update!Returns, Update!Kind,
                  Update!Checked, Update!Loaded, Update!Fetched,
            Update!LoadedDeb, Update!AutoCheck, Update!UserCheck, Update!StartDownload, Update!Relaunch, Update!Close, Update!Released, Update!Click
    <3> QED  BY <3>1
  <2>2. Update!Spec => []UpdaterInv
    BY <1>1, UpdaterInvariance
  <2> QED  BY <2>1, <2>2, PTL DEF Update!Spec
<1> QED  BY <1>1

-----------------------------------------------------------------------------
(* Agent status                                                            *)

Look == [tab : Tab, pane : [Tab -> Pane \cup {None}], window : BOOLEAN]

\* What TypeOK says, and the shape of look.
Shapes ==
  /\ sessions \subseteq panes /\ panes \subseteq Pane
  /\ active \subseteq Pane /\ everActive \subseteq Pane /\ waiting \subseteq Pane
  /\ timers \in [Pane -> 0 .. MaxEvents \cup {None}] /\ timeouts \subseteq Status!Timeout
  /\ silence \in [Pane -> 0 .. Idle]
  /\ hookState \in [Pane -> Status!HookStates \cup {None}]
  /\ reported \in [Pane -> Status!HookStates \cup {None}]
  /\ runtimeStatus \in [Pane -> Status!HookStates \cup {None}]
  /\ look \in Look
  /\ \A t \in Tab : look.pane[t] = None \/ TabOf[look.pane[t]] = t
  /\ events \in 0 .. MaxEvents

\* Each timer that runs is the one entry of an active pane.
Timed ==
  /\ \A t \in timeouts : t.pane \in active /\ t.entry = timers[t.pane]
  /\ \A t, u \in timeouts : t.pane = u.pane => t = u
  /\ \A p \in active : \E t \in timeouts : t.pane = p
  /\ \A p \in Pane : timers[p] # None => p \in active

\* Of panes with a terminal and without.
Marked ==
  /\ \A p \in sessions : silence[p] < Idle /\ p \in everActive => p \in active
  /\ \A p \in Pane \ sessions : hookState[p] = None /\ p \notin active \cup everActive

StatusInv == Shapes /\ Timed /\ Marked

LEMMA StatusHolds == StatusInv => Status!TypeOK /\ Status!ActivityTracksOutput
<1> SUFFICES ASSUME StatusInv PROVE Status!TypeOK /\ Status!ActivityTracksOutput
  OBVIOUS
<1>1. Status!TypeOK
  BY DEF StatusInv, Shapes, Status!TypeOK, Look
<1>2. Status!ActivityTracksOutput
  BY DEF StatusInv, Timed, Marked, Status!ActivityTracksOutput
<1> QED  BY <1>1, <1>2

LEMMA InitStatus == ASSUME Status!StatusAssumption, Status!Init PROVE StatusInv
<1>1. PICK t \in Tab : /\ sessions = Status!Leaves(t)
         /\ look \in [tab : {t}, pane : {f \in [Tab -> Pane] : \A u \in Tab : TabOf[f[u]] = u},
                 window : {TRUE}]
  BY DEF Status!Init
<1>2. look \in Look /\ \A u \in Tab : look.pane[u] = None \/ TabOf[look.pane[u]] = u
  BY <1>1 DEF Look
<1>3. sessions \subseteq panes
  BY <1>1 DEF Status!Leaves
<1>4. Shapes
  BY <1>2, <1>3 DEF Status!Init, Shapes, Status!StatusAssumption, Status!Timeout
<1>5. Timed /\ Marked
  BY DEF Status!Init, Timed, Marked, Status!StatusAssumption
<1> QED  BY <1>4, <1>5 DEF StatusInv

\* Output: the pane's timer runs or starts.
LEMMA MarkKeeps ==
  ASSUME Status!StatusAssumption, Shapes, Timed, NEW p \in Pane, Status!markActivity(p),
         events \in 0 .. MaxEvents, Status!Event
  PROVE  /\ Timed' /\ active' \subseteq Pane /\ everActive' \subseteq Pane
         /\ timers' \in [Pane -> 0 .. MaxEvents \cup {None}] /\ timeouts' \subseteq Status!Timeout
         /\ silence' \in [Pane -> 0 .. Idle] /\ events' \in 0 .. MaxEvents
<1>1. CASE timers[p] # None
  BY <1>1 DEF Status!StatusAssumption, Shapes, Timed, Status!markActivity, Status!Event
<1>2. CASE timers[p] = None
  <2> DEFINE new == [pane |-> p, entry |-> events, left |-> Idle]
  <2>1. new \in Status!Timeout
    BY DEF Status!Timeout, Status!StatusAssumption
  <2>2. timeouts' = timeouts \cup {new} /\ timers' = [timers EXCEPT ![p] = events]
    BY <1>2 DEF Status!markActivity
  <2>3. \A t \in timeouts : t.pane # p
    BY <1>2, SMT DEF Timed, Shapes, Status!StatusAssumption, Status!Timeout
  <2>4. new.pane = p /\ new.entry = events
    OBVIOUS
  <2>5. timers'[p] = events /\ \A q \in Pane : q # p => timers'[q] = timers[q]
    BY <2>2 DEF Shapes
  <2>6. active' = active \cup {p} /\ everActive' = everActive \cup {p}
        /\ silence' = [silence EXCEPT ![p] = 0]
    BY DEF Status!markActivity
  <2>7. timeouts' \subseteq Status!Timeout
    BY <2>1, <2>2 DEF Shapes
  <2> HIDE DEF new
  <2>8. Timed'
    <3>1. \A t \in timeouts : t.pane \in Pane
      BY DEF Shapes, Status!Timeout
    <3>2. \A t \in timeouts' : t.pane \in active' /\ t.entry = timers'[t.pane]
      BY <2>2, <2>3, <2>4, <2>5, <2>6, <3>1 DEF Timed
    <3>3. \A t, u \in timeouts' : t.pane = u.pane => t = u
      BY <2>2, <2>3, <2>4 DEF Timed
    <3>4. \A q \in active' : \E t \in timeouts' : t.pane = q
      BY <2>2, <2>4, <2>6 DEF Timed
    <3>5. \A q \in Pane : timers'[q] # None => q \in active'
      BY <2>5, <2>6 DEF Timed
    <3> QED  BY <3>2, <3>3, <3>4, <3>5 DEF Timed
  <2> QED
    BY <2>2, <2>6, <2>7, <2>8 DEF Shapes, Status!Event, Status!StatusAssumption
<1> QED  BY <1>1, <1>2

LEMMA MarkMarks ==
  ASSUME Status!StatusAssumption, Shapes, Marked, NEW p \in Pane, Status!markActivity(p),
         p \in sessions', sessions' = sessions \/ sessions' = sessions \cup {p},
         \A q \in Pane : q # p => hookState'[q] = hookState[q]
  PROVE  Marked'
BY DEF Status!StatusAssumption, Shapes, Marked, Status!markActivity

\* A terminal goes: nothing of it stays.
LEMMA DropKeeps ==
  ASSUME Status!StatusAssumption, Shapes, Timed, Marked, NEW p \in Pane, Status!DropTerminal(p)
  PROVE  /\ Timed' /\ Marked' /\ active' \subseteq Pane /\ everActive' \subseteq Pane
         /\ timers' \in [Pane -> 0 .. MaxEvents \cup {None}] /\ timeouts' \subseteq Status!Timeout
         /\ silence' \in [Pane -> 0 .. Idle]
         /\ hookState' \in [Pane -> Status!HookStates \cup {None}]
<1>1. /\ sessions' = sessions \ {p} /\ active' = active \ {p} /\ everActive' = everActive \ {p}
      /\ timers' = [timers EXCEPT ![p] = None] /\ hookState' = [hookState EXCEPT ![p] = None]
      /\ silence' = silence
  BY DEF Status!DropTerminal, Status!clearActivity
<1>2. timeouts' = {t \in timeouts : t.pane # p}
  BY SMT DEF Status!DropTerminal, Status!clearActivity, Timed
<1>3. \A t \in timeouts : t.pane \in Pane
  BY DEF Shapes, Status!Timeout
<1>4. timers'[p] = None /\ \A q \in Pane : q # p => timers'[q] = timers[q]
  BY <1>1 DEF Shapes
<1>5. Timed'
  <2>1. \A t \in timeouts' : t.pane \in active' /\ t.entry = timers'[t.pane]
    BY <1>1, <1>2, <1>3, <1>4 DEF Timed
  <2>2. \A t, u \in timeouts' : t.pane = u.pane => t = u
    BY <1>2 DEF Timed
  <2>3. \A q \in active' : \E t \in timeouts' : t.pane = q
    BY <1>1, <1>2 DEF Timed
  <2>4. \A q \in Pane : timers'[q] # None => q \in active'
    BY <1>1, <1>4 DEF Timed
  <2> QED  BY <2>1, <2>2, <2>3, <2>4 DEF Timed
<1>6. Marked'
  BY <1>1 DEF Shapes, Marked
<1> QED  BY <1>1, <1>2, <1>5, <1>6 DEF Shapes

LEMMA IdleKeeps ==
  ASSUME Status!StatusAssumption, StatusInv, NEW t \in timeouts, Status!IdleCheck(t)
  PROVE  StatusInv'
<1> USE DEF StatusInv
<1> DEFINE p == t.pane
<1>1. p \in Pane /\ t \in Status!Timeout /\ timers[p] = t.entry /\ p \in active /\ timers[p] # None
  BY SMT DEF Shapes, Timed, Status!Timeout, Status!StatusAssumption
<1>2. \A u \in timeouts \ {t} : u.pane # p
  BY DEF Timed
<1>3. \A u \in timeouts : u.pane \in Pane
  BY DEF Shapes, Status!Timeout
<1>4. /\ everActive' = everActive /\ silence' = silence /\ panes' = panes
      /\ sessions' = sessions /\ hookState' = hookState /\ reported' = reported
      /\ runtimeStatus' = runtimeStatus /\ waiting' = waiting /\ look' = look
      /\ events' = events
  BY DEF Status!IdleCheck
<1>5. CASE silence[p] < Idle
  <2> DEFINE new == [t EXCEPT !.left = Idle - silence[p]]
  <2>1. timeouts' = (timeouts \ {t}) \cup {new} /\ active' = active /\ timers' = timers
    BY <1>1, <1>5 DEF Status!IdleCheck
  <2>2. new \in Status!Timeout /\ new.pane = p /\ new.entry = t.entry
    BY <1>1, <1>5, SMT DEF Status!Timeout, Shapes, Status!StatusAssumption
  <2> HIDE DEF new
  <2>3. Timed'
    BY <1>1, <1>2, <2>1, <2>2 DEF Timed
  <2> QED  BY <1>4, <2>1, <2>2, <2>3 DEF Shapes, Marked
<1>6. CASE ~(silence[p] < Idle)
  <2>1. /\ timeouts' = timeouts \ {t} /\ timers' = [timers EXCEPT ![p] = None]
        /\ active' = active \ {p}
    BY <1>1, <1>6 DEF Status!IdleCheck
  <2>2. timers'[p] = None /\ \A q \in Pane : q # p => timers'[q] = timers[q]
    BY <1>1, <2>1 DEF Shapes
  <2>3. Timed'
    <3>1. \A u \in timeouts' : u.pane \in active' /\ u.entry = timers'[u.pane]
      BY <1>2, <1>3, <2>1, <2>2 DEF Timed
    <3>2. \A u, v \in timeouts' : u.pane = v.pane => u = v
      BY <2>1 DEF Timed
    <3>3. \A q \in active' : \E u \in timeouts' : u.pane = q
      BY <2>1 DEF Timed
    <3>4. \A q \in Pane : timers'[q] # None => q \in active'
      BY <2>1, <2>2 DEF Timed
    <3> QED  BY <3>1, <3>2, <3>3, <3>4 DEF Timed
  <2>4. Marked'
    BY <1>4, <1>6, <2>1 DEF Marked
  <2> QED  BY <1>4, <2>1, <2>3, <2>4 DEF Shapes
<1> QED  BY <1>5, <1>6

LEMMA TickKeeps ==
  ASSUME Status!StatusAssumption, StatusInv, Status!Tick
  PROVE  StatusInv'
<1> USE DEF StatusInv
<1> DEFINE older(t) == [t EXCEPT !.left = IF @ = 0 THEN 0 ELSE @ - 1]
<1>1. timeouts' = {older(t) : t \in timeouts}
  BY DEF Status!Tick
<1>2. \A t \in timeouts : older(t) \in Status!Timeout /\ older(t).pane = t.pane /\ older(t).entry = t.entry
  BY SMT DEF Shapes, Status!Timeout, Status!StatusAssumption
<1>3. silence' \in [Pane -> 0 .. Idle] /\ \A p \in Pane : silence'[p] < Idle => silence[p] < Idle
  BY SMT DEF Status!Tick, Shapes, Status!StatusAssumption
<1>4. /\ everActive' = everActive /\ active' = active /\ panes' = panes /\ timers' = timers
      /\ sessions' = sessions /\ hookState' = hookState /\ reported' = reported
      /\ runtimeStatus' = runtimeStatus /\ waiting' = waiting /\ look' = look
      /\ events' = events
  BY DEF Status!Tick
<1> HIDE DEF older
<1>5. Timed'
  BY <1>1, <1>2, <1>4 DEF Timed
<1>6. Marked'
  BY <1>3, <1>4 DEF Marked, Shapes
<1> QED  BY <1>1, <1>2, <1>3, <1>4, <1>5, <1>6 DEF Shapes

LEMMA StepStatus == ASSUME Status!StatusAssumption, StatusInv, [Status!Next]_(Status!statusVars) PROVE StatusInv'
<1> USE DEF StatusInv
<1>0. CASE UNCHANGED Status!statusVars
  BY <1>0 DEF Shapes, Timed, Marked, Status!statusVars, Status!activityVars
<1>1. ASSUME NEW p \in Pane, Status!Output(p) \/ Status!Bell(p) \/ Status!Hook(p) \/ Status!Attach(p)
      PROVE  StatusInv'
  <2>1. Status!markActivity(p) /\ Status!Event /\ p \in sessions' /\ panes' = panes /\ look' = look
        /\ (sessions' = sessions \/ sessions' = sessions \cup {p}) /\ runtimeStatus' = runtimeStatus
    BY <1>1 DEF Status!Output, Status!Bell, Status!Hook, Status!Attach
  <2>2. sessions' \subseteq panes
    BY <1>1, <2>1 DEF Shapes, Status!Attach, Status!Leaves, Status!Output, Status!Bell,
       Status!Hook
  <2>3. /\ hookState' \in [Pane -> Status!HookStates \cup {None}]
        /\ reported' \in [Pane -> Status!HookStates \cup {None}]
        /\ \A q \in Pane : q # p => hookState'[q] = hookState[q]
    BY <1>1 DEF Shapes, Status!Output, Status!Bell, Status!Hook, Status!Attach
  <2>4. waiting' \subseteq Pane
    BY <1>1 DEF Shapes, Status!Output, Status!Bell, Status!Hook, Status!Attach
  <2>5. events \in 0 .. MaxEvents
    BY DEF Shapes
  <2>6. /\ Timed' /\ active' \subseteq Pane /\ everActive' \subseteq Pane
        /\ timers' \in [Pane -> 0 .. MaxEvents \cup {None}] /\ timeouts' \subseteq Status!Timeout
        /\ silence' \in [Pane -> 0 .. Idle] /\ events' \in 0 .. MaxEvents
    BY <2>1, <2>5, MarkKeeps
  <2>7. Marked'
    BY <2>1, <2>3, MarkMarks
  <2> QED  BY <2>1, <2>2, <2>3, <2>4, <2>6, <2>7 DEF Shapes
<1>2. ASSUME NEW p \in Pane, Status!Project(p) PROVE StatusInv'
  BY <1>2 DEF Status!Project, Status!activityVars, Shapes, Timed, Marked
<1>3. ASSUME NEW t \in Tab, NEW p \in Pane \cup {None}, NEW seen \in SUBSET waiting,
             p = None \/ TabOf[p] = t, Status!Event, Status!Sees(t, p, seen)
      PROVE  StatusInv'
  <2>1. look' \in Look /\ \A u \in Tab : look'.pane[u] = None \/ TabOf[look'.pane[u]] = u
    BY <1>3 DEF Status!Sees, Look, Shapes
  <2>2. waiting' \subseteq Pane /\ events' \in 0 .. MaxEvents
    BY <1>3 DEF Status!Sees, Status!Acknowledged, Shapes, Status!Event,
       Status!StatusAssumption
  <2> QED  BY <1>3, <2>1, <2>2 DEF Status!Sees, Status!activityVars, Shapes, Timed, Marked
<1>4. ASSUME NEW p \in Pane, Status!FocusPane(p) PROVE StatusInv'
  <2>1. look.tab \in Tab /\ TabOf[p] = look.tab /\ waiting \ {p} \in SUBSET waiting
    BY <1>4 DEF Status!FocusPane, Status!Leaves, Shapes, Look
  <2> QED  BY <1>3, <1>4, <2>1 DEF Status!FocusPane
<1>5. ASSUME NEW p \in Pane, Status!Jump(p) PROVE StatusInv'
  <2>1. TabOf[p] \in Tab /\ waiting \ Status!Leaves(TabOf[p]) \in SUBSET waiting
    BY DEF Status!StatusAssumption
  <2> QED  BY <1>3, <1>5, <2>1 DEF Status!Jump
<1>6. ASSUME NEW t \in Tab, Status!SwitchTab(t) PROVE StatusInv'
  <2>1. look.pane[t] \in Pane \cup {None} /\ (look.pane[t] = None \/ TabOf[look.pane[t]] = t)
    BY DEF Shapes, Look
  <2> QED  BY <1>3, <1>6, <2>1 DEF Status!SwitchTab
<1>7. ASSUME Status!Window PROVE StatusInv'
  <2>1. look' \in Look /\ look'.pane = look.pane
    BY <1>7 DEF Status!Window, Look, Shapes
  <2> QED  BY <1>7, <2>1 DEF Status!Window, Status!activityVars, Shapes, Timed, Marked,
              Status!Event, Status!StatusAssumption
<1>8. ASSUME NEW p \in Pane, Status!Unload(p) PROVE StatusInv'
  <2>1. Status!DropTerminal(p) /\ Status!Event /\ panes' = panes /\ waiting' = waiting /\ look' = look
    BY <1>8 DEF Status!Unload
  <2>2. /\ Timed' /\ Marked' /\ active' \subseteq Pane /\ everActive' \subseteq Pane
        /\ timers' \in [Pane -> 0 .. MaxEvents \cup {None}] /\ timeouts' \subseteq Status!Timeout
        /\ silence' \in [Pane -> 0 .. Idle]
        /\ hookState' \in [Pane -> Status!HookStates \cup {None}]
    BY <2>1, DropKeeps
  <2>3. sessions' \subseteq panes /\ reported' = reported /\ runtimeStatus' = runtimeStatus
    BY <2>1 DEF Status!DropTerminal, Shapes
  <2> QED  BY <2>1, <2>2, <2>3 DEF Shapes, Status!Event, Status!StatusAssumption
<1>9. ASSUME NEW p \in Pane, Status!Close(p) PROVE StatusInv'
  <2>1. Status!DropTerminal(p) /\ Status!Event /\ panes' = panes \ {p}
    BY <1>9 DEF Status!Close
  <2>2. /\ Timed' /\ Marked' /\ active' \subseteq Pane /\ everActive' \subseteq Pane
        /\ timers' \in [Pane -> 0 .. MaxEvents \cup {None}] /\ timeouts' \subseteq Status!Timeout
        /\ silence' \in [Pane -> 0 .. Idle]
        /\ hookState' \in [Pane -> Status!HookStates \cup {None}]
    BY <2>1, DropKeeps
  <2>3. sessions' \subseteq panes' /\ reported' = reported /\ runtimeStatus' = runtimeStatus
    BY <2>1 DEF Status!DropTerminal, Shapes
  <2>4. /\ look' \in Look /\ \A u \in Tab : look'.pane[u] = None \/ TabOf[look'.pane[u]] = u
        /\ waiting' \subseteq Pane
    <3>1. CASE look.pane[TabOf[p]] # p
      BY <1>9, <3>1 DEF Status!Close, Shapes
    <3>2. CASE look.pane[TabOf[p]] = p
      <4> DEFINE t == TabOf[p]
                 left == Status!Leaves(t) \ {p}
      <4>1. PICK q \in IF left # {} THEN left ELSE panes' :
              LET tab == IF left # {} \/ look.tab # t THEN look.tab ELSE TabOf[q]
                  after == [look EXCEPT !.tab = tab, !.pane[t] = IF left # {} THEN q ELSE None]
                  front == after.pane[tab]
              IN front # None /\ look' = after /\ waiting' = Status!Acknowledged(waiting, front)
        BY <1>9, <3>2 DEF Status!Close
      <4>2. q \in Pane /\ (left # {} => TabOf[q] = t) /\ t \in Tab
        BY <2>1, <4>1 DEF Status!Leaves, Shapes, Status!StatusAssumption
      <4>3. waiting' \subseteq Pane
        BY <4>1 DEF Status!Acknowledged, Shapes
      <4> DEFINE tab == IF left # {} \/ look.tab # t THEN look.tab ELSE TabOf[q]
                 pane == IF left # {} THEN q ELSE None
      <4>4. tab \in Tab /\ pane \in Pane \cup {None} /\ (pane = None \/ TabOf[pane] = t)
        BY <4>2 DEF Status!StatusAssumption, Shapes, Look
      <4>5. look' = [look EXCEPT !.tab = tab, !.pane[t] = pane]
        BY <4>1
      <4> HIDE DEF tab, pane, t
      <4> QED  BY <4>2, <4>3, <4>4, <4>5 DEF Look, Shapes
    <3> QED  BY <3>1, <3>2
  <2> QED  BY <2>1, <2>2, <2>3, <2>4 DEF Shapes, Status!Event, Status!StatusAssumption
<1> QED
  BY <1>0, <1>1, <1>2, <1>4, <1>5, <1>6, <1>7, <1>8, <1>9, IdleKeeps, TickKeeps
     DEF Status!Next, Status!Does

-----------------------------------------------------------------------------
(* Git panel                                                               *)

Statuses == [place : Git!Place \cup {None}, version : Nat \cup {None}, files : SUBSET Git!Files]

Diffs == [of : Git!Place \cup {None}, file : Git!Files]

Panel ==
  [active : Pane \cup {None}, open : BOOLEAN, seq : Nat, loading : BOOLEAN, shown : Statuses,
   openPath : Git!Files \cup {None}, diff : Diffs \cup {None}, diffSeq : Nat,
   diffLoading : BOOLEAN]

AskedFor ==
  [kind : {"cwd"}, seq : Nat, pane : Pane]
    \cup [kind : {"status"}, seq : Nat, place : Git!Place, file : {None}]
    \cup [kind : {"diff"}, seq : Nat, place : Git!Place \cup {None}, file : Git!Files]

PanelShapes ==
  /\ shells \in [Pane -> Path]
  /\ repos \in [Git!Place -> [version : Nat, files : SUBSET Git!Files]]
  /\ \A d \in Git!Place : repos[d].version <= events
  /\ git \in Panel /\ answers \subseteq AskedFor
  /\ settle \in BOOLEAN /\ unseen \in BOOLEAN /\ events \in 0 .. GitEvents

\* The requests of refreshes.
Refreshes == {q \in answers : q.kind \in {"cwd", "status"}}

\* Requests are numbered: no two refreshes share a number, and none is ahead.
Numbered ==
  /\ \A q \in Refreshes : q.seq <= git.seq
  /\ \A q, c \in Refreshes : q.seq = c.seq => q = c
  /\ \A q \in answers : q.kind = "diff" => q.seq <= git.diffSeq

Loads == git.loading <=> \E q \in Refreshes : q.seq = git.seq

PlaceOf(p) == [host |-> HostOf[p], path |-> shells[p]]

\* The latest refresh of the open panel asks for the pane in front, and where that is
\* unless a command has moved it since.
AsksForFront ==
  git.open /\ git.active # None =>
    \A q \in Refreshes : q.seq = git.seq =>
      /\ q.kind = "cwd" => q.pane = git.active
      /\ q.kind = "status" /\ ~settle => q.place = PlaceOf(git.active)

ShowsFront ==
  git.open /\ git.active # None /\ ~settle /\ ~unseen /\ ~git.loading =>
    git.shown \in {Git!Status(PlaceOf(git.active)), Git!Failure(PlaceOf(git.active))}

\* The file that is open, and the diff that was asked for last.
DiffsMatch ==
  git.openPath # None =>
    /\ git.diff # None => git.diff.file = git.openPath
    /\ \A q \in answers : q.kind = "diff" /\ q.seq = git.diffSeq => q.file = git.openPath

GitInv ==
  PanelShapes /\ Numbered /\ Loads /\ AsksForFront /\ ShowsFront /\ DiffsMatch

LEMMA GitHolds ==
  Git!GitAssumption /\ GitInv => Git!TypeOK /\ Git!PanelSettles /\ Git!DiffOfFile
<1> SUFFICES ASSUME Git!GitAssumption, GitInv PROVE Git!TypeOK /\ Git!PanelSettles /\ Git!DiffOfFile
  OBVIOUS
<1>1. Git!TypeOK
  <2>1. \A d \in Git!Place : repos[d].files \subseteq Git!Files /\ repos[d].version <= GitEvents
    BY SMT DEF GitInv, PanelShapes, Git!GitAssumption
  <2>2. \A q \in answers : q.kind \in {"cwd", "status", "diff"} /\ q.seq \in Nat
    BY DEF GitInv, PanelShapes, AskedFor
  <2> QED  BY <2>1, <2>2 DEF GitInv, PanelShapes, Git!TypeOK, Panel, Statuses
<1>2. Git!PanelSettles
  BY DEF GitInv, Loads, ShowsFront, Refreshes, Git!PanelSettles, PlaceOf
<1>3. Git!DiffOfFile
  BY DEF GitInv, DiffsMatch, Git!DiffOfFile
<1> QED  BY <1>1, <1>2, <1>3

-----------------------------------------------------------------------------
(* The operators.                                                          *)

\* Collapsing and showing touch nothing of a refresh's own.
SameButDiff(g, h) ==
  /\ h.active = g.active /\ h.open = g.open
  /\ \/ h.openPath = g.openPath /\ h.diff = g.diff
     \/ h.openPath = None /\ h.diff = None

LEMMA ShowsIs ==
  ASSUME NEW g \in Panel, NEW status \in Statuses
  PROVE  /\ Git!Shows(g, status) \in Panel /\ SameButDiff(g, Git!Shows(g, status))
         /\ Git!Shows(g, status).shown = status
         /\ Git!Shows(g, status).seq = g.seq /\ Git!Shows(g, status).loading = g.loading
         /\ Git!Shows(g, status).diffSeq = g.diffSeq
BY DEF Git!Shows, Git!Collapse, Panel, SameButDiff

LEMMA RefreshIs ==
  ASSUME NEW g \in Panel
  PROVE  /\ Git!refresh(g) \in Panel /\ SameButDiff(g, Git!refresh(g))
         /\ Git!refresh(g).diffSeq = g.diffSeq
         /\ ~g.open => Git!refresh(g) = g
         /\ g.open => Git!refresh(g).seq = g.seq + 1
         /\ g.open /\ g.active = None => ~Git!refresh(g).loading
         /\ g.open /\ g.active # None => Git!refresh(g).loading /\ Git!refresh(g).shown = g.shown
<1> DEFINE h(l) == [g EXCEPT !.seq = @ + 1, !.loading = l]
<1>0. g.seq + 1 \in Nat
  BY DEF Panel
<1>1. \A l \in BOOLEAN :
        /\ h(l) \in Panel /\ h(l).seq = g.seq + 1 /\ h(l).loading = l
        /\ h(l).active = g.active /\ h(l).open = g.open /\ h(l).shown = g.shown
        /\ h(l).openPath = g.openPath /\ h(l).diff = g.diff /\ h(l).diffSeq = g.diffSeq
  <2> TAKE l \in BOOLEAN
  <2>1. \A n \in Nat : LET k == [g EXCEPT !.seq = n, !.loading = l] IN
        /\ k \in Panel /\ k.seq = n /\ k.loading = l
        /\ k.active = g.active /\ k.open = g.open /\ k.shown = g.shown
        /\ k.openPath = g.openPath /\ k.diff = g.diff /\ k.diffSeq = g.diffSeq
    BY DEF Panel
  <2> QED  BY <1>0, <2>1
<1>2. CASE ~g.open
  BY <1>2 DEF Git!refresh, SameButDiff
<1>3. CASE g.open /\ g.active = None
  <2>1. Git!Empty \in Statuses
    BY DEF Git!Empty, Statuses
  <2>2. Git!refresh(g) = Git!Shows(h(FALSE), Git!Empty)
    BY <1>3 DEF Git!refresh
  <2> HIDE DEF h
  <2>3. h(FALSE) \in Panel
    BY <1>1
  <2>4. /\ Git!Shows(h(FALSE), Git!Empty) \in Panel /\ SameButDiff(h(FALSE), Git!Shows(h(FALSE), Git!Empty))
        /\ Git!Shows(h(FALSE), Git!Empty).seq = h(FALSE).seq
        /\ Git!Shows(h(FALSE), Git!Empty).loading = h(FALSE).loading
        /\ Git!Shows(h(FALSE), Git!Empty).diffSeq = h(FALSE).diffSeq
    BY <2>1, <2>3, ShowsIs
  <2>5. /\ h(FALSE).seq = g.seq + 1 /\ h(FALSE).loading = FALSE
        /\ h(FALSE).active = g.active /\ h(FALSE).open = g.open
        /\ h(FALSE).openPath = g.openPath /\ h(FALSE).diff = g.diff /\ h(FALSE).diffSeq = g.diffSeq
    BY <1>1
  <2> QED  BY <1>3, <2>2, <2>4, <2>5 DEF SameButDiff
<1>4. CASE g.open /\ g.active # None
  <2>1. Git!refresh(g) = h(TRUE)
    BY <1>4 DEF Git!refresh
  <2> HIDE DEF h
  <2> QED  BY <1>1, <1>4, <2>1 DEF SameButDiff
<1> QED  BY <1>2, <1>3, <1>4 DEF Panel

LEMMA RequestsIs ==
  ASSUME NEW g \in Panel
  PROVE  /\ ~g.open \/ g.active = None => Git!Requests(g) = {}
         /\ g.open /\ g.active # None =>
              /\ Git!Requests(g) \subseteq AskedFor
              /\ Git!Requests(g) = {[kind |-> "cwd", seq |-> g.seq + 1, pane |-> g.active]}
<1>1. CASE ~g.open \/ g.active = None
  BY <1>1 DEF Git!Requests
<1>2. CASE g.open /\ g.active # None
  <2>1. Git!refresh(g).seq = g.seq + 1
    BY <1>2, RefreshIs
  <2>2. g.seq + 1 \in Nat /\ g.active \in Pane
    BY <1>2 DEF Panel
  <2> QED  BY <1>2, <2>1, <2>2 DEF Git!Requests, AskedFor
<1> QED  BY <1>1, <1>2

PanelKept == Numbered /\ Loads /\ AsksForFront /\ ShowsFront /\ DiffsMatch

\* The open panel asks anew for the pane in front.
LEMMA FreshKeeps ==
  ASSUME PanelShapes, PanelKept, git' \in Panel, git'.open, git'.active # None, git'.loading,
         \/ git'.openPath = git.openPath /\ git'.diff = git.diff
         \/ git'.openPath = None,
         git'.diffSeq = git.diffSeq, git.seq < git'.seq,
         NEW older \in SUBSET AskedFor,
         \A q \in older : q.kind = "cwd" /\ git.seq < q.seq /\ q.seq < git'.seq,
         \A q, c \in older : q.seq = c.seq => q = c,
         answers' = answers \cup older
                      \cup {[kind |-> "cwd", seq |-> git'.seq, pane |-> git'.active]}
  PROVE  PanelKept'
<1> DEFINE new == [kind |-> "cwd", seq |-> git'.seq, pane |-> git'.active]
<1>1. new.kind = "cwd" /\ new.seq = git'.seq /\ new.pane = git'.active
  OBVIOUS
<1> HIDE DEF new
<1>2. answers' = answers \cup older \cup {new}
  BY DEF new
<1>3. git.seq \in Nat /\ git'.seq \in Nat /\ \A q \in answers \cup older : q.seq \in Nat
  BY DEF PanelShapes, Panel, AskedFor
<1>4. Refreshes' = Refreshes \cup older \cup {new}
  BY <1>1, <1>2 DEF Refreshes
<1>5. \A q \in Refreshes' : q.seq = git'.seq => q = new
  BY <1>3, <1>4 DEF PanelKept, Numbered
<1>6. Numbered'
  <2>1. \A q \in Refreshes' : q.seq <= git'.seq
    BY <1>1, <1>3, <1>4 DEF PanelKept, Numbered, Refreshes
  <2>2. \A q \in Refreshes : q.seq <= git.seq
    BY DEF PanelKept, Numbered
  <2>3. \A q, c \in Refreshes' : q.seq = c.seq => q = c
    <3> SUFFICES ASSUME NEW q \in Refreshes', NEW c \in Refreshes', q.seq = c.seq PROVE q = c
      OBVIOUS
    <3>1. CASE q = new \/ c = new
      BY <3>1, <1>1, <1>5
    <3>2. CASE q \in Refreshes /\ c \in Refreshes
      BY <3>2 DEF PanelKept, Numbered
    <3>3. CASE q \in older /\ c \in older
      BY <3>3
    <3>4. \A x \in Refreshes, y \in older : x.seq # y.seq
      BY <1>3, <2>2 DEF Refreshes
    <3> QED  BY <1>4, <3>1, <3>2, <3>3, <3>4
  <2>4. \A q \in answers' : q.kind = "diff" => q.seq <= git'.diffSeq
    BY <1>1, <1>2 DEF PanelKept, Numbered
  <2> QED  BY <2>1, <2>3, <2>4 DEF Numbered
<1>7. Loads'
  BY <1>1, <1>4 DEF Loads
<1>8. AsksForFront'
  BY <1>1, <1>5 DEF AsksForFront
<1>9. ShowsFront'
  BY DEF ShowsFront
<1>10. DiffsMatch'
  <2>1. \A q \in answers' : q.kind = "diff" => q \in answers
    BY <1>1, <1>2
  <2> QED  BY <2>1 DEF DiffsMatch, PanelKept
<1> QED  BY <1>6, <1>7, <1>8, <1>9, <1>10 DEF PanelKept

\* A panel that asks for nothing: closed, without a pane, or nothing was asked.
LEMMA SilentKeeps ==
  ASSUME PanelShapes, PanelKept, git' \in Panel, ~git'.open \/ git'.active = None,
         \/ git'.openPath = git.openPath /\ git'.diff = git.diff
         \/ git'.openPath = None,
         git'.diffSeq = git.diffSeq, answers' = answers,
         \/ git.seq < git'.seq /\ ~git'.loading
         \/ git.seq = git'.seq /\ git'.loading = git.loading
  PROVE  PanelKept'
<1>1. Refreshes' = Refreshes
  BY DEF Refreshes
<1>2. git.seq \in Nat /\ git'.seq \in Nat /\ \A q \in answers : q.seq \in Nat
  BY DEF PanelShapes, Panel, AskedFor
<1>3. Numbered'
  BY <1>1, <1>2 DEF PanelKept, Numbered, Refreshes
<1>4. Loads'
  BY <1>1, <1>2 DEF PanelKept, Loads, Numbered, Refreshes
<1>5. AsksForFront' /\ ShowsFront'
  BY DEF AsksForFront, ShowsFront
<1>6. DiffsMatch'
  BY DEF DiffsMatch, PanelKept
<1> QED  BY <1>3, <1>4, <1>5, <1>6 DEF PanelKept

\* A refresh of the panel g that the present one has just become.
LEMMA RefreshKeeps ==
  ASSUME PanelShapes, PanelKept, NEW g \in Panel, g.seq = git.seq, g.diffSeq = git.diffSeq,
         g.openPath = git.openPath, g.diff = git.diff, g.open \/ g.loading = git.loading,
         git' = Git!refresh(g), answers' = answers \cup Git!Requests(g)
  PROVE  PanelKept' /\ git' \in Panel /\ answers' \subseteq AskedFor
<1>1. /\ git' \in Panel /\ SameButDiff(g, git') /\ git'.diffSeq = git.diffSeq
      /\ ~g.open => git' = g
      /\ g.open => git'.seq = g.seq + 1
      /\ g.open /\ g.active = None => ~git'.loading
      /\ g.open /\ g.active # None => git'.loading
  BY RefreshIs
<1>2. /\ git'.active = g.active /\ git'.open = g.open
      /\ \/ git'.openPath = git.openPath /\ git'.diff = git.diff
         \/ git'.openPath = None
  BY <1>1 DEF SameButDiff
<1>3. CASE g.open /\ g.active # None
  <2>1. Git!Requests(g) = {[kind |-> "cwd", seq |-> git'.seq, pane |-> git'.active]}
        /\ Git!Requests(g) \subseteq AskedFor
    BY <1>1, <1>2, <1>3, RequestsIs
  <2>2. git.seq < git'.seq
    BY <1>1, <1>3 DEF Panel
  <2> DEFINE none == {q \in AskedFor : FALSE}
  <2>3. /\ none \in SUBSET AskedFor /\ \A q \in none : FALSE
        /\ answers' = answers \cup none
                       \cup {[kind |-> "cwd", seq |-> git'.seq, pane |-> git'.active]}
    BY <2>1
  <2> HIDE DEF none
  <2>4. PanelKept'
    BY <1>1, <1>2, <1>3, <2>2, <2>3, FreshKeeps
  <2> QED  BY <1>1, <2>1, <2>4 DEF PanelShapes
<1>4. CASE ~g.open \/ g.active = None
  <2>1. Git!Requests(g) = {} /\ answers' = answers
    BY <1>4, RequestsIs
  <2>2. \/ git.seq < git'.seq /\ ~git'.loading
        \/ git.seq = git'.seq /\ git'.loading = git.loading
    BY <1>1, <1>4 DEF Panel
  <2>3. PanelKept'
    BY <1>1, <1>2, <1>4, <2>1, <2>2, SilentKeeps
  <2> QED  BY <1>1, <2>1, <2>3 DEF PanelShapes
<1> QED  BY <1>3, <1>4

-----------------------------------------------------------------------------
(* The actions.                                                            *)

LEMMA InitGit ==
  ASSUME Git!GitAssumption, Git!Init
  PROVE  GitInv
<1>1. PICK isOpen \in BOOLEAN, p \in Pane :
        LET g == [active |-> p, open |-> isOpen, seq |-> 0, loading |-> FALSE, shown |-> Git!Empty,
                 openPath |-> None, diff |-> None, diffSeq |-> 0, diffLoading |-> FALSE]
        IN git = Git!refresh(g) /\ answers = Git!Requests(g)
  BY DEF Git!Init
<1> DEFINE g == [active |-> p, open |-> isOpen, seq |-> 0, loading |-> FALSE, shown |-> Git!Empty,
                 openPath |-> None, diff |-> None, diffSeq |-> 0, diffLoading |-> FALSE]
<1>2. Git!Empty \in Statuses
  BY DEF Git!Empty, Statuses
<1>3. g \in Panel /\ g.active = p /\ g.open = isOpen /\ g.seq = 0 /\ g.loading = FALSE
      /\ g.openPath = None /\ g.diffSeq = 0
  BY <1>2 DEF Panel
<1>4. git = Git!refresh(g) /\ answers = Git!Requests(g)
  BY <1>1
<1> HIDE DEF g
<1>5. p # None
  BY DEF Git!GitAssumption
<1>6. /\ git \in Panel /\ git.diffSeq = 0 /\ git.openPath = None
      /\ ~isOpen => git = g
      /\ isOpen => git.seq = 1 /\ git.loading /\ git.active = p
  BY <1>3, <1>4, <1>5, RefreshIs DEF SameButDiff
<1>7. /\ answers \subseteq AskedFor
      /\ ~isOpen => answers = {}
      /\ isOpen => answers = {[kind |-> "cwd", seq |-> 1, pane |-> p]}
  BY <1>3, <1>4, <1>5, RequestsIs
<1>8. PanelShapes
  <2>1. shells \in [Pane -> Path]
    BY DEF Git!Init, Git!GitAssumption
  <2>2. repos \in [Git!Place -> [version : Nat, files : SUBSET Git!Files]]
        /\ \A d \in Git!Place : repos[d].version <= events
    BY DEF Git!Init
  <2>3. settle = FALSE /\ unseen = FALSE /\ events = 0 /\ 0 \in 0 .. GitEvents
    BY DEF Git!Init, Git!GitAssumption
  <2> QED  BY <1>6, <1>7, <2>1, <2>2, <2>3 DEF PanelShapes
<1>9. CASE isOpen
  <2>1. \A q \in answers : q.kind = "cwd" /\ q.seq = git.seq /\ q.pane = git.active
    BY <1>6, <1>7, <1>9
  <2>2. Refreshes = answers /\ \A q, c \in answers : q = c
    BY <1>7, <1>9, <2>1 DEF Refreshes
  <2>3. \E q \in answers : q.seq = git.seq
    BY <1>7, <1>9, <2>1
  <2>4. Loads
    BY <1>6, <1>9, <2>2, <2>3 DEF Loads
  <2>5. Numbered
    BY <1>6, <1>9, <2>1, <2>2 DEF Numbered
  <2> QED  BY <1>6, <1>8, <1>9, <2>1, <2>2, <2>4, <2>5 DEF GitInv, AsksForFront,
              ShowsFront, DiffsMatch
<1>10. CASE ~isOpen
  <2>1. Refreshes = {} /\ answers = {} /\ ~git.open /\ ~git.loading
    BY <1>3, <1>6, <1>7, <1>10 DEF Refreshes
  <2> QED
    BY <1>6, <1>8, <2>1
       DEF GitInv, Numbered, Loads, AsksForFront, ShowsFront, DiffsMatch
<1> QED  BY <1>9, <1>10

LEMMA StatusIs ==
  ASSUME PanelShapes, NEW d \in Git!Place
  PROVE  Git!Status(d) \in Statuses /\ Git!Failure(d) \in Statuses
BY DEF PanelShapes, Git!Status, Git!Failure, Statuses

LEMMA CwdKeeps ==
  ASSUME Git!GitAssumption, PanelShapes, PanelKept, NEW q \in answers, Git!CwdAnswer(q)
  PROVE  PanelShapes' /\ PanelKept'
<1>1. q \in AskedFor /\ q.kind = "cwd" /\ q.pane \in Pane /\ q.seq \in Nat /\ q \in Refreshes
  BY DEF PanelShapes, AskedFor, Git!CwdAnswer, Refreshes
<1> DEFINE place == PlaceOf(q.pane)
           new == Git!Request("status", q.seq, place, None)
<1>2. place \in Git!Place
  BY <1>1 DEF PlaceOf, Git!Place, Git!HostIds, PanelShapes
<1>3. /\ answers' = (answers \ {q}) \cup (IF q.seq # git.seq THEN {} ELSE {new})
      /\ git' = git /\ shells' = shells /\ repos' = repos /\ settle' = settle
      /\ unseen' = unseen /\ events' = events
  BY DEF Git!CwdAnswer, PlaceOf
<1>4. new.kind = "status" /\ new.seq = q.seq /\ new.place = place /\ new \in AskedFor
  BY <1>1, <1>2 DEF Git!Request, AskedFor
<1> HIDE DEF new
<1>5. PanelShapes'
  BY <1>3, <1>4 DEF PanelShapes
<1>6. Refreshes' = (Refreshes \ {q}) \cup (IF q.seq # git.seq THEN {} ELSE {new})
  BY <1>3, <1>4 DEF Refreshes
<1>7. Numbered'
  BY <1>1, <1>3, <1>4, <1>6 DEF PanelKept, Numbered
<1>8. Loads'
  BY <1>1, <1>3, <1>4, <1>6 DEF PanelKept, Loads
<1>9. AsksForFront' /\ ShowsFront'
  <2>1. PlaceOf(git.active)' = PlaceOf(git.active) /\ Git!Status(PlaceOf(git.active))' = Git!Status(PlaceOf(git.active))
        /\ Git!Failure(PlaceOf(git.active))' = Git!Failure(PlaceOf(git.active))
    BY <1>3 DEF PlaceOf, Git!Status, Git!Failure
  <2>2. AsksForFront'
    BY <1>1, <1>3, <1>4, <1>6, <2>1 DEF PanelKept, AsksForFront
  <2> QED  BY <1>3, <2>1, <2>2 DEF PanelKept, ShowsFront
<1>10. DiffsMatch'
  BY <1>3, <1>4 DEF PanelKept, DiffsMatch
<1> QED  BY <1>5, <1>7, <1>8, <1>9, <1>10 DEF PanelKept

LEMMA StatusKeeps ==
  ASSUME Git!GitAssumption, PanelShapes, PanelKept, NEW q \in answers, Git!StatusAnswer(q)
  PROVE  PanelShapes' /\ PanelKept'
<1>1. q \in AskedFor /\ q.kind = "status" /\ q.place \in Git!Place /\ q.seq \in Nat /\ q \in Refreshes
  BY DEF PanelShapes, AskedFor, Git!StatusAnswer, Refreshes
<1>2. /\ answers' = answers \ {q}
      /\ shells' = shells /\ repos' = repos /\ settle' = settle
      /\ unseen' = unseen /\ events' = events
  BY DEF Git!StatusAnswer
<1>3. Refreshes' = Refreshes \ {q}
  BY <1>2 DEF Refreshes
<1>4. \A p : PlaceOf(p)' = PlaceOf(p) /\ Git!Status(PlaceOf(p))' = Git!Status(PlaceOf(p))
             /\ Git!Failure(PlaceOf(p))' = Git!Failure(PlaceOf(p))
  BY <1>2 DEF PlaceOf, Git!Status, Git!Failure
<1>5. CASE q.seq # git.seq
  <2>1. git' = git
    BY <1>5 DEF Git!StatusAnswer
  <2>2. PanelShapes'
    BY <1>2, <2>1 DEF PanelShapes
  <2>3. Numbered' /\ Loads'
    BY <1>2, <1>3, <1>5, <2>1 DEF PanelKept, Numbered, Loads
  <2>4. AsksForFront'
    BY <1>2, <1>3, <1>4, <2>1 DEF PanelKept, AsksForFront
  <2>5. ShowsFront'
    BY <1>2, <1>4, <2>1 DEF PanelKept, ShowsFront
  <2>6. DiffsMatch'
    BY <1>2, <2>1 DEF PanelKept, DiffsMatch
  <2> QED  BY <2>2, <2>3, <2>4, <2>5, <2>6 DEF PanelKept
<1>6. CASE q.seq = git.seq
  <2> DEFINE g == [git EXCEPT !.loading = FALSE]
  <2>1. PICK status \in {Git!Status(q.place), Git!Failure(q.place)} : git' = Git!Shows(g, status)
    BY <1>6 DEF Git!StatusAnswer
  <2>2. g \in Panel /\ g.active = git.active /\ g.open = git.open /\ g.seq = git.seq
        /\ g.loading = FALSE /\ g.openPath = git.openPath /\ g.diff = git.diff
        /\ g.diffSeq = git.diffSeq
    BY DEF PanelShapes, Panel
  <2> HIDE DEF g
  <2>3. status \in Statuses
    BY <1>1, <2>1, StatusIs
  <2>4. /\ git' \in Panel /\ git'.active = git.active /\ git'.open = git.open
        /\ git'.shown = status /\ git'.seq = git.seq /\ ~git'.loading
        /\ git'.diffSeq = git.diffSeq
        /\ \/ git'.openPath = git.openPath /\ git'.diff = git.diff
           \/ git'.openPath = None
    BY <2>1, <2>2, <2>3, ShowsIs DEF SameButDiff
  <2>5. PanelShapes'
    BY <1>2, <2>4 DEF PanelShapes
  <2>6. \A c \in Refreshes' : c.seq # git'.seq
    BY <1>1, <1>3, <1>6, <2>4 DEF PanelKept, Numbered
  <2>7. Numbered'
    BY <1>2, <1>3, <2>4 DEF PanelKept, Numbered
  <2>8. Loads'
    BY <2>4, <2>6 DEF Loads
  <2>9. AsksForFront'
    BY <2>6 DEF AsksForFront
  <2>10. ShowsFront'
    BY <1>1, <1>2, <1>4, <1>6, <2>1, <2>4 DEF PanelKept, AsksForFront, ShowsFront
  <2>11. DiffsMatch'
    BY <1>2, <2>4 DEF PanelKept, DiffsMatch
  <2> QED  BY <2>5, <2>7, <2>8, <2>9, <2>10, <2>11 DEF PanelKept
<1> QED  BY <1>5, <1>6

LEMMA DiffKeeps ==
  ASSUME PanelShapes, PanelKept, NEW q \in answers, Git!DiffAnswer(q)
  PROVE  PanelShapes' /\ PanelKept'
<1>1. q \in AskedFor /\ q.kind = "diff" /\ q.place \in Git!Place \cup {None} /\ q.file \in Git!Files
  BY DEF PanelShapes, AskedFor, Git!DiffAnswer
<1> DEFINE diff == [of |-> q.place, file |-> q.file]
<1>2. diff \in Diffs /\ diff.file = q.file
  BY <1>1 DEF Diffs
<1>3. \/ git' = git
      \/ q.seq = git.diffSeq /\ git' = [git EXCEPT !.diff = diff, !.diffLoading = FALSE]
  BY DEF Git!DiffAnswer
<1> HIDE DEF diff
<1>4. /\ git' \in Panel /\ git'.active = git.active /\ git'.open = git.open
      /\ git'.seq = git.seq /\ git'.loading = git.loading /\ git'.shown = git.shown
      /\ git'.openPath = git.openPath /\ git'.diffSeq = git.diffSeq
      /\ \/ git'.diff = git.diff
         \/ q.seq = git.diffSeq /\ git'.diff = diff
  BY <1>2, <1>3 DEF PanelShapes, Panel
<1>5. /\ answers' = answers \ {q} /\ shells' = shells /\ repos' = repos
      /\ settle' = settle /\ unseen' = unseen /\ events' = events
  BY DEF Git!DiffAnswer
<1>6. Refreshes' = Refreshes
  BY <1>1, <1>5 DEF Refreshes
<1>7. \A p : PlaceOf(p)' = PlaceOf(p) /\ Git!Status(PlaceOf(p))' = Git!Status(PlaceOf(p))
             /\ Git!Failure(PlaceOf(p))' = Git!Failure(PlaceOf(p))
  BY <1>5 DEF PlaceOf, Git!Status, Git!Failure
<1>8. PanelShapes'
  BY <1>4, <1>5 DEF PanelShapes
<1>9. Numbered' /\ Loads'
  BY <1>4, <1>5, <1>6 DEF PanelKept, Numbered, Loads
<1>10. AsksForFront'
  BY <1>4, <1>5, <1>6, <1>7 DEF PanelKept, AsksForFront
<1>11. ShowsFront'
  BY <1>4, <1>5, <1>7 DEF PanelKept, ShowsFront
<1>12. DiffsMatch'
  BY <1>1, <1>2, <1>4, <1>5 DEF PanelKept, DiffsMatch
<1> QED  BY <1>8, <1>9, <1>10, <1>11, <1>12 DEF PanelKept

LEMMA EventIs ==
  ASSUME Git!GitAssumption, PanelShapes, Git!Event
  PROVE  events' \in 0 .. GitEvents /\ events \in Nat /\ events' = events + 1
BY DEF Git!GitAssumption, PanelShapes, Git!Event

LEMMA SwitchKeeps ==
  ASSUME Git!GitAssumption, PanelShapes, PanelKept, NEW p \in Pane \cup {None}, Git!SwitchTo(p)
  PROVE  PanelShapes' /\ PanelKept'
<1> DEFINE g == [git EXCEPT !.active = p]
<1>1. /\ g \in Panel /\ g.seq = git.seq /\ g.diffSeq = git.diffSeq
      /\ g.openPath = git.openPath /\ g.diff = git.diff /\ g.loading = git.loading
  BY DEF PanelShapes, Panel
<1>2. /\ git' = Git!refresh(g) /\ answers' = answers \cup Git!Requests(g) /\ Git!Event
      /\ shells' = shells /\ repos' = repos /\ settle' = settle /\ unseen' = unseen
  BY DEF Git!SwitchTo
<1> HIDE DEF g
<1>3. PanelKept' /\ git' \in Panel /\ answers' \subseteq AskedFor
  BY <1>1, <1>2, RefreshKeeps
<1> QED  BY <1>2, <1>3, EventIs DEF PanelShapes

LEMMA OpenKeeps ==
  ASSUME Git!GitAssumption, PanelShapes, PanelKept, Git!ToggleOpen, ~git.open
  PROVE  PanelShapes' /\ PanelKept'
<1> DEFINE g == [git EXCEPT !.open = ~@]
           once == Git!refresh(g)
<1>1. /\ g \in Panel /\ g.open /\ g.active = git.active /\ g.seq = git.seq
      /\ g.diffSeq = git.diffSeq /\ g.openPath = git.openPath /\ g.diff = git.diff
  BY DEF PanelShapes, Panel
<1>2. /\ git' = Git!refresh(once) /\ answers' = answers \cup Git!Requests(g) \cup Git!Requests(once)
      /\ Git!Event /\ shells' = shells /\ repos' = repos /\ settle' = settle /\ unseen' = unseen
  BY DEF Git!ToggleOpen
<1> HIDE DEF g
<1>3. /\ once \in Panel /\ SameButDiff(g, once) /\ once.diffSeq = g.diffSeq
      /\ once.seq = g.seq + 1
  BY <1>1, RefreshIs
<1> HIDE DEF once
<1>4. once.open /\ once.active = git.active /\ once.seq = git.seq + 1
  BY <1>1, <1>3 DEF SameButDiff
<1>5. /\ git' \in Panel /\ SameButDiff(once, git') /\ git'.diffSeq = once.diffSeq
      /\ git'.seq = once.seq + 1
      /\ once.active = None => ~git'.loading
      /\ once.active # None => git'.loading
  BY <1>2, <1>3, <1>4, RefreshIs
<1>6. /\ git'.active = git.active /\ git'.open
      /\ \/ git'.openPath = git.openPath /\ git'.diff = git.diff
         \/ git'.openPath = None
  BY <1>1, <1>3, <1>4, <1>5 DEF SameButDiff
<1>7. git.seq \in Nat /\ once.seq = git.seq + 1 /\ git'.seq = git.seq + 2
  BY <1>4, <1>5 DEF PanelShapes, Panel
<1>8. PanelKept' /\ answers' \subseteq AskedFor
  <2>1. CASE git.active # None
    <3> DEFINE older == Git!Requests(g)
    <3>1. /\ older \in SUBSET AskedFor
          /\ older = {[kind |-> "cwd", seq |-> git.seq + 1, pane |-> git.active]}
      BY <1>1, <2>1, RequestsIs
    <3>2. /\ Git!Requests(once) \subseteq AskedFor
          /\ Git!Requests(once) = {[kind |-> "cwd", seq |-> git'.seq, pane |-> git'.active]}
      BY <1>3, <1>4, <1>5, <1>6, <2>1, RequestsIs
    <3>3. /\ \A q \in older : q.kind = "cwd" /\ git.seq < q.seq /\ q.seq < git'.seq
          /\ \A q, c \in older : q.seq = c.seq => q = c
      BY <1>7, <3>1
    <3>4. answers' = answers \cup older
                       \cup {[kind |-> "cwd", seq |-> git'.seq, pane |-> git'.active]}
      BY <1>2, <3>2
    <3>5. answers' \subseteq AskedFor
      BY <1>2, <3>1, <3>2 DEF PanelShapes
    <3> HIDE DEF older
    <3>6. git'.loading /\ git'.active # None /\ git.seq < git'.seq /\ git'.diffSeq = git.diffSeq
      BY <1>1, <1>3, <1>4, <1>5, <1>6, <1>7, <2>1
    <3>7. PanelKept'
      BY <1>5, <1>6, <3>1, <3>3, <3>4, <3>6, FreshKeeps
    <3> QED  BY <3>5, <3>7
  <2>2. CASE git.active = None
    <3>1. Git!Requests(g) = {} /\ Git!Requests(once) = {} /\ answers' = answers
      BY <1>1, <1>2, <1>3, <1>4, <2>2, RequestsIs
    <3>2. ~git'.loading /\ git'.active = None /\ git.seq < git'.seq /\ git'.diffSeq = git.diffSeq
      BY <1>1, <1>3, <1>4, <1>5, <1>6, <1>7, <2>2
    <3>3. PanelKept'
      BY <1>5, <1>6, <3>1, <3>2, SilentKeeps
    <3> QED  BY <3>1, <3>3 DEF PanelShapes
  <2> QED  BY <2>1, <2>2
<1> QED  BY <1>2, <1>5, <1>8, EventIs DEF PanelShapes

LEMMA CloseKeeps ==
  ASSUME Git!GitAssumption, PanelShapes, PanelKept, Git!ToggleOpen, git.open
  PROVE  PanelShapes' /\ PanelKept'
<1>1. /\ git' = [Git!Collapse([git EXCEPT !.open = ~@]) EXCEPT !.diffSeq = 0, !.diffLoading = FALSE]
      /\ answers' = {q \in answers : q.kind # "diff"} /\ Git!Event
      /\ shells' = shells /\ repos' = repos /\ settle' = settle /\ unseen' = unseen
  BY DEF Git!ToggleOpen
<1>2. /\ git' \in Panel /\ ~git'.open /\ git'.active = git.active /\ git'.seq = git.seq
      /\ git'.loading = git.loading /\ git'.openPath = None
  BY <1>1 DEF PanelShapes, Panel, Git!Collapse
<1>3. Refreshes' = Refreshes /\ \A q \in answers' : q.kind # "diff"
  BY <1>1 DEF Refreshes
<1>4. PanelShapes'
  BY <1>1, <1>2, EventIs DEF PanelShapes
<1>5. Numbered' /\ Loads'
  BY <1>2, <1>3 DEF PanelKept, Numbered, Loads
<1>6. AsksForFront' /\ ShowsFront' /\ DiffsMatch'
  BY <1>2 DEF AsksForFront, ShowsFront, DiffsMatch
<1> QED  BY <1>4, <1>5, <1>6 DEF PanelKept

LEMMA FileKeeps ==
  ASSUME Git!GitAssumption, PanelShapes, PanelKept, NEW f \in Git!Files, Git!ToggleFile(f)
  PROVE  PanelShapes' /\ PanelKept'
<1>1. /\ Git!Event /\ shells' = shells /\ repos' = repos /\ settle' = settle /\ unseen' = unseen
  BY DEF Git!ToggleFile
<1>2. \A p : PlaceOf(p)' = PlaceOf(p) /\ Git!Status(PlaceOf(p))' = Git!Status(PlaceOf(p))
             /\ Git!Failure(PlaceOf(p))' = Git!Failure(PlaceOf(p))
  BY <1>1 DEF PlaceOf, Git!Status, Git!Failure
<1>3. ASSUME git' \in Panel, git'.active = git.active, git'.open = git.open,
             git'.seq = git.seq, git'.loading = git.loading, git'.shown = git.shown,
             Refreshes' = Refreshes, answers' \subseteq AskedFor
      PROVE  PanelShapes' /\ Loads' /\ AsksForFront' /\ ShowsFront'
  <2>1. PanelShapes'
    BY <1>1, <1>3, EventIs DEF PanelShapes
  <2>2. Loads'
    BY <1>3 DEF PanelKept, Loads
  <2>3. AsksForFront'
    BY <1>1, <1>2, <1>3 DEF PanelKept, AsksForFront
  <2>4. ShowsFront'
    BY <1>1, <1>2, <1>3 DEF PanelKept, ShowsFront
  <2> QED  BY <2>1, <2>2, <2>3, <2>4
<1>4. CASE git.openPath = f
  <2>1. git' = Git!Collapse(git) /\ answers' = answers
    BY <1>4 DEF Git!ToggleFile
  <2>2. /\ git' \in Panel /\ git'.active = git.active /\ git'.open = git.open
        /\ git'.seq = git.seq /\ git'.loading = git.loading /\ git'.shown = git.shown
        /\ git'.diffSeq = git.diffSeq /\ git'.openPath = None
    BY <2>1 DEF PanelShapes, Panel, Git!Collapse
  <2>3. Refreshes' = Refreshes /\ answers' \subseteq AskedFor
    BY <2>1 DEF Refreshes, PanelShapes
  <2>4. Numbered' /\ DiffsMatch'
    BY <2>1, <2>2, <2>3 DEF PanelKept, Numbered, DiffsMatch
  <2> QED  BY <1>3, <2>2, <2>3, <2>4 DEF PanelKept
<1>5. CASE git.openPath # f
  <2> DEFINE new == Git!Request("diff", git.diffSeq + 1, git.shown.place, f)
  <2>1. /\ git' = [git EXCEPT !.openPath = f, !.diff = None, !.diffSeq = @ + 1,
                              !.diffLoading = TRUE]
        /\ answers' = answers \cup {new}
    BY <1>5 DEF Git!ToggleFile
  <2>2. git.diffSeq \in Nat /\ git.diffSeq + 1 \in Nat /\ git.shown.place \in Git!Place \cup {None}
    BY DEF PanelShapes, Panel, Statuses
  <2>3. /\ new \in AskedFor /\ new.kind = "diff" /\ new.seq = git.diffSeq + 1 /\ new.file = f
    BY <2>2 DEF Git!Request, AskedFor
  <2> HIDE DEF new
  <2>4. \A n \in Nat :
          LET k == [git EXCEPT !.openPath = f, !.diff = None, !.diffSeq = n,
                               !.diffLoading = TRUE] IN
          /\ k \in Panel /\ k.active = git.active /\ k.open = git.open /\ k.seq = git.seq
          /\ k.loading = git.loading /\ k.shown = git.shown
          /\ k.diffSeq = n /\ k.openPath = f /\ k.diff = None
    BY DEF PanelShapes, Panel
  <2>5. /\ git' \in Panel /\ git'.active = git.active /\ git'.open = git.open
        /\ git'.seq = git.seq /\ git'.loading = git.loading /\ git'.shown = git.shown
        /\ git'.diffSeq = git.diffSeq + 1 /\ git'.openPath = f /\ git'.diff = None
    BY <2>1, <2>2, <2>4
  <2>6. Refreshes' = Refreshes /\ answers' \subseteq AskedFor
    BY <2>1, <2>3 DEF Refreshes, PanelShapes
  <2>7. \A q \in answers : q.kind = "diff" => q.seq <= git.diffSeq /\ q.seq \in Nat
    BY DEF PanelKept, Numbered, PanelShapes, AskedFor
  <2>8. \A q \in answers' : q.kind = "diff" =>
          q.seq <= git'.diffSeq /\ (q.seq = git'.diffSeq => q.file = f)
    BY <2>1, <2>2, <2>3, <2>5, <2>7
  <2>9. Numbered' /\ DiffsMatch'
    BY <2>5, <2>6, <2>8 DEF PanelKept, Numbered, DiffsMatch
  <2> QED  BY <1>3, <2>5, <2>6, <2>9 DEF PanelKept
<1> QED  BY <1>4, <1>5

\* What a shell or another program does: the panel is told of it later.
LEMMA OutsideKeeps ==
  ASSUME PanelKept, git' = git, answers' = answers, settle' \/ unseen',
         settle => settle', unseen => unseen', settle' \/ shells' = shells
  PROVE  PanelKept'
<1>1. Refreshes' = Refreshes
  BY DEF Refreshes
<1>2. Numbered' /\ Loads'
  BY <1>1 DEF PanelKept, Numbered, Loads
<1>3. AsksForFront'
  BY <1>1 DEF PanelKept, AsksForFront, PlaceOf
<1>4. ShowsFront' /\ DiffsMatch'
  BY DEF PanelKept, ShowsFront, DiffsMatch
<1> QED  BY <1>2, <1>3, <1>4 DEF PanelKept

\* A repository changes.
LEMMA RepoChanges ==
  ASSUME Git!GitAssumption, PanelShapes, Git!Event, NEW d \in Git!Place, NEW files \in SUBSET Git!Files,
         repos' = [repos EXCEPT ![d] = [version |-> repos[d].version + 1, files |-> files]]
  PROVE  /\ repos' \in [Git!Place -> [version : Nat, files : SUBSET Git!Files]]
         /\ \A x \in Git!Place : repos'[x].version <= events'
<1>1. repos \in [Git!Place -> [version : Nat, files : SUBSET Git!Files]]
      /\ \A x \in Git!Place : repos[x].version <= events
  BY DEF PanelShapes
<1>2. [version |-> repos[d].version + 1, files |-> files] \in [version : Nat, files : SUBSET Git!Files]
  BY <1>1
<1>3. \A x \in Git!Place : repos'[x].version = IF x = d THEN repos[d].version + 1 ELSE repos[x].version
  BY <1>1
<1> QED  BY <1>1, <1>2, <1>3, EventIs

LEMMA CommandKeeps ==
  ASSUME Git!GitAssumption, PanelShapes, PanelKept, NEW p \in Pane, Git!Command(p)
  PROVE  PanelShapes' /\ PanelKept'
<1>1. Git!Event /\ settle' = TRUE /\ git' = git /\ answers' = answers /\ unseen' = unseen
  BY DEF Git!Command
<1>2. PanelKept'
  BY <1>1, OutsideKeeps
<1>3. \/ repos' = repos /\ \E path \in Path : shells' = [shells EXCEPT ![p] = path]
      \/ /\ shells' = shells
         /\ \E files \in SUBSET Git!Files :
              repos' = [repos EXCEPT ![PlaceOf(p)] =
                          [version |-> repos[PlaceOf(p)].version + 1, files |-> files]]
  <2>1. CASE /\ shells' \in {[shells EXCEPT ![p] = path] : path \in Path \ {shells[p]}}
             /\ UNCHANGED repos
    BY <2>1
  <2>2. CASE shells' = shells /\ \E files \in {Git!Files, {"f"}} :
               repos' = [repos EXCEPT ![PlaceOf(p)] =
                           [version |-> repos[PlaceOf(p)].version + 1, files |-> files]]
    <3>1. Git!Files \in SUBSET Git!Files /\ {"f"} \in SUBSET Git!Files
      BY DEF Git!Files
    <3> QED  BY <2>2, <3>1
  <2> QED  BY <2>1, <2>2 DEF Git!Command, PlaceOf
<1>4. /\ shells' \in [Pane -> Path]
      /\ repos' \in [Git!Place -> [version : Nat, files : SUBSET Git!Files]]
      /\ \A d \in Git!Place : repos'[d].version <= events'
  <2>1. PlaceOf(p) \in Git!Place
    BY DEF PlaceOf, Git!Place, Git!HostIds, PanelShapes
  <2>2. CASE repos' = repos /\ \E path \in Path : shells' = [shells EXCEPT ![p] = path]
    BY <1>1, <2>2, EventIs DEF PanelShapes
  <2>3. ASSUME shells' = shells, NEW files \in SUBSET Git!Files,
               repos' = [repos EXCEPT ![PlaceOf(p)] =
                           [version |-> repos[PlaceOf(p)].version + 1, files |-> files]]
        PROVE  /\ shells' \in [Pane -> Path]
               /\ repos' \in [Git!Place -> [version : Nat, files : SUBSET Git!Files]]
               /\ \A x \in Git!Place : repos'[x].version <= events'
    <3>1. /\ repos' \in [Git!Place -> [version : Nat, files : SUBSET Git!Files]]
          /\ \A x \in Git!Place : repos'[x].version <= events'
      BY <1>1, <2>1, <2>3, RepoChanges
    <3> QED  BY <2>3, <3>1 DEF PanelShapes
  <2> QED  BY <1>3, <2>2, <2>3
<1> QED  BY <1>1, <1>2, <1>4, EventIs DEF PanelShapes

LEMMA ElsewhereKeeps ==
  ASSUME Git!GitAssumption, PanelShapes, PanelKept, NEW d \in Git!Place, Git!Elsewhere(d)
  PROVE  PanelShapes' /\ PanelKept'
<1>1. Git!Event /\ unseen' = TRUE /\ git' = git /\ answers' = answers /\ settle' = settle
      /\ shells' = shells
  BY DEF Git!Elsewhere
<1>2. PanelKept'
  BY <1>1, OutsideKeeps
<1>3. repos[d] \in [version : Nat, files : SUBSET Git!Files]
  BY DEF PanelShapes
<1>4. \A r \in [version : Nat, files : SUBSET Git!Files] :
        [r EXCEPT !.version = r.version + 1] = [version |-> r.version + 1, files |-> r.files]
        /\ r.files \in SUBSET Git!Files
  OBVIOUS
<1>5. repos' = [repos EXCEPT ![d] = [repos[d] EXCEPT !.version = repos[d].version + 1]]
  BY DEF Git!Elsewhere
<1>6. repos' = [repos EXCEPT ![d] = [version |-> repos[d].version + 1, files |-> repos[d].files]]
      /\ repos[d].files \in SUBSET Git!Files
  BY <1>3, <1>4, <1>5
<1>7. /\ repos' \in [Git!Place -> [version : Nat, files : SUBSET Git!Files]]
      /\ \A x \in Git!Place : repos'[x].version <= events'
  BY <1>1, <1>6, RepoChanges
<1> QED  BY <1>1, <1>2, <1>7, EventIs DEF PanelShapes

LEMMA LookAgainKeeps ==
  ASSUME PanelShapes, PanelKept, git' = Git!refresh(git), answers' = answers \cup Git!Requests(git),
         shells' = shells, repos' = repos, events' = events
  PROVE  PanelKept' /\ git' \in Panel /\ answers' \subseteq AskedFor
BY RefreshKeeps DEF PanelShapes

\* Each step of the panel keeps its invariant.
LEMMA StepGit ==
  ASSUME Git!GitAssumption, GitInv, [Git!Next]_(Git!gitVars)
  PROVE  GitInv'
<1>0. PanelShapes /\ PanelKept /\ (PanelShapes' /\ PanelKept' => GitInv')
  BY DEF GitInv, PanelKept
<1>1. CASE UNCHANGED Git!gitVars
  <2>1. \A p : PlaceOf(p)' = PlaceOf(p) /\ Git!Status(PlaceOf(p))' = Git!Status(PlaceOf(p))
               /\ Git!Failure(PlaceOf(p))' = Git!Failure(PlaceOf(p))
    BY <1>1 DEF Git!gitVars, PlaceOf, Git!Status, Git!Failure
  <2>2. Refreshes' = Refreshes
    BY <1>1 DEF Git!gitVars, Refreshes
  <2>3. PanelShapes' /\ Numbered' /\ Loads' /\ DiffsMatch'
    BY <1>0, <1>1, <2>2 DEF Git!gitVars, PanelShapes, PanelKept, Numbered, Loads,
       DiffsMatch
  <2>4. AsksForFront'
    BY <1>0, <1>1, <2>1, <2>2 DEF Git!gitVars, PanelKept, AsksForFront
  <2>5. ShowsFront'
    BY <1>0, <1>1, <2>1 DEF Git!gitVars, PanelKept, ShowsFront
  <2> QED  BY <1>0, <2>3, <2>4, <2>5 DEF PanelKept
<1>2. ASSUME NEW q \in answers, Git!CwdAnswer(q) \/ Git!StatusAnswer(q) \/ Git!DiffAnswer(q)
      PROVE  GitInv'
  BY <1>0, <1>2, CwdKeeps, StatusKeeps, DiffKeeps
<1>3. ASSUME NEW p \in Pane \cup {None}, Git!SwitchTo(p)
      PROVE  GitInv'
  BY <1>0, <1>3, SwitchKeeps
<1>4. ASSUME NEW p \in Pane, Git!Command(p)
      PROVE  GitInv'
  BY <1>0, <1>4, CommandKeeps
<1>5. CASE Git!ToggleOpen
  BY <1>0, <1>5, OpenKeeps, CloseKeeps
<1>6. CASE Git!Settled \/ Git!Focus
  <2>1. git' = Git!refresh(git) /\ answers' = answers \cup Git!Requests(git)
        /\ shells' = shells /\ repos' = repos /\ events' = events
        /\ settle' \in BOOLEAN /\ unseen' \in BOOLEAN
    BY <1>0, <1>6 DEF Git!Settled, Git!Focus, PanelShapes
  <2>2. PanelKept' /\ git' \in Panel /\ answers' \subseteq AskedFor
    BY <1>0, <2>1, LookAgainKeeps
  <2> QED  BY <1>0, <2>1, <2>2 DEF PanelShapes
<1>7. ASSUME NEW f \in Git!Files, Git!ToggleFile(f)
      PROVE  GitInv'
  BY <1>0, <1>7, FileKeeps
<1>8. ASSUME NEW d \in Git!Place, Git!Elsewhere(d)
      PROVE  GitInv'
  BY <1>0, <1>8, ElsewhereKeeps
<1> QED  BY <1>1, <1>2, <1>3, <1>4, <1>5, <1>6, <1>7, <1>8 DEF Git!Next

-----------------------------------------------------------------------------
(* Resume of coding agents                                                 *)

Shells ==
  [n : 1 .. MaxShells, alive : BOOLEAN, osc : Osc7, cwd : Dir, agent : BOOLEAN,
   prompt : BOOLEAN, resumed : 0 .. 2, typedInto : BOOLEAN, input : BOOLEAN,
   late : BOOLEAN]

Guis ==
  [phase : {"off", "on", "closing"}, link : {"down", "connecting", "up"},
   spawned : 0 .. MaxShells, cwd : Dir \cup {None}, shellCwd : Dir \cup {None},
   pendingResume : BOOLEAN, resumeInjected : BOOLEAN, timer : BOOLEAN, writes : 0 .. 2]

Leaves == [cwd : Dir \cup {None}, agent : BOOLEAN]

RunShapes ==
  /\ shell \in Shells /\ leaf \in Leaves /\ gui \in Guis
  /\ cwdSnapshot \in Dir \cup {None, Asked}
  /\ agentSnapshot \in BOOLEAN \cup {None, Asked}
  /\ raced \in BOOLEAN /\ events \in 0 .. RunEvents

\* What is still to be typed is for the shell that this run of the program spawned.
ForOwnShell ==
  /\ gui.spawned \in {0, shell.n} /\ ~shell.typedInto
  /\ gui.pendingResume \/ gui.writes # 0 => gui.spawned = shell.n

\* A resume is armed, waits for the connection, or has been typed.
Waits(g) == IF g.pendingResume THEN 1 ELSE 0

OneResume == shell.late \/ shell.resumed + gui.writes + Waits(gui) <= 1

Linked ==
  /\ gui.link = "up" => shell.alive /\ gui.writes = 0
  /\ gui.phase = "off" =>
       /\ gui.link = "down" /\ gui.writes = 0 /\ ~gui.pendingResume /\ gui.shellCwd = None
       /\ cwdSnapshot = None /\ agentSnapshot = None

Prompted == (shell.agent => shell.prompt) /\ (shell.prompt => shell.alive)

\* The GUI knows where the shell is.
Seen == gui.shellCwd = shell.cwd \/ (gui.shellCwd = None /\ leaf.cwd = shell.cwd)

ReportedHere == shell.osc /\ shell.prompt /\ gui.link = "up" => Seen

\* Until the shell has reported, snapshots only repeat what is stored.
StoredOnly ==
  shell.osc /\ gui.shellCwd = None /\ cwdSnapshot \in Dir /\ leaf.cwd # None =>
    cwdSnapshot = leaf.cwd

\* The snapshots of a window that closes tell the shell as it is.
ClosesWell ==
  gui.phase = "closing" /\ ~raced =>
    /\ shell.alive /\ shell.prompt /\ ~gui.pendingResume /\ gui.writes = 0
    /\ agentSnapshot \in BOOLEAN => agentSnapshot = shell.agent
    /\ agentSnapshot = None => leaf.agent = shell.agent
    /\ shell.osc => /\ Seen
                    /\ cwdSnapshot \in Dir => cwdSnapshot = shell.cwd
                    /\ cwdSnapshot = None => leaf.cwd = shell.cwd

ClosedWell ==
  gui.phase = "off" /\ ~raced =>
    /\ shell.alive => shell.prompt /\ leaf.agent = shell.agent
    /\ shell.osc => leaf.cwd = shell.cwd

ResumeInv ==
  /\ RunShapes /\ ForOwnShell /\ OneResume /\ Linked /\ Prompted
  /\ ReportedHere /\ StoredOnly /\ ClosesWell /\ ClosedWell

LEMMA ResumeHolds ==
  ResumeInv => Resume!TypeOK /\ Resume!ResumedOnce /\ Resume!Remembered
<1> SUFFICES ASSUME ResumeInv PROVE Resume!TypeOK /\ Resume!ResumedOnce /\ Resume!Remembered
  OBVIOUS
<1>1. Resume!TypeOK
  BY DEF ResumeInv, RunShapes, Shells, Guis, Leaves, Resume!TypeOK
<1>2. Resume!ResumedOnce
  <2>1. shell.resumed \in 0 .. 2 /\ gui.writes \in 0 .. 2
    BY DEF ResumeInv, RunShapes, Shells, Guis
  <2> QED  BY <2>1 DEF ResumeInv, ForOwnShell, OneResume, Waits, Resume!ResumedOnce
<1>3. Resume!Remembered
  BY DEF ResumeInv, ClosedWell, Resume!Remembered
<1> QED  BY <1>1, <1>2, <1>3

LEMMA InitResume ==
  ASSUME Resume!ResumeAssumption, Resume!Init
  PROVE  ResumeInv
<1>1. PICK osc \in Osc7, d \in Dir :
        /\ shell = [n |-> 1, alive |-> TRUE, osc |-> osc, cwd |-> d, agent |-> FALSE,
                    prompt |-> FALSE, resumed |-> 0, typedInto |-> FALSE, input |-> FALSE,
                    late |-> FALSE]
        /\ leaf = [cwd |-> IF d = Resume!Home THEN None ELSE d, agent |-> FALSE]
        /\ gui = [phase |-> "on", link |-> "up", spawned |-> 1, cwd |-> leaf.cwd,
                  shellCwd |-> None, pendingResume |-> FALSE, resumeInjected |-> FALSE,
                  timer |-> FALSE, writes |-> 0]
  BY DEF Resume!Init
<1>2. 1 \in 1 .. MaxShells /\ 1 \in 0 .. MaxShells /\ 0 \in 0 .. 2 /\ 0 \in 0 .. RunEvents
  BY DEF Resume!ResumeAssumption
<1>3. shell \in Shells
  BY <1>1, <1>2 DEF Shells
<1>4. leaf \in Leaves
  BY <1>1 DEF Leaves
<1>5. gui \in Guis
  BY <1>1, <1>2, <1>4 DEF Guis, Leaves
<1>6. cwdSnapshot = None /\ agentSnapshot = None /\ raced = FALSE /\ events = 0
  BY DEF Resume!Init
<1>7. RunShapes
  BY <1>2, <1>3, <1>4, <1>5, <1>6 DEF RunShapes
<1>8. ForOwnShell /\ OneResume /\ Linked
  BY <1>1, <1>6 DEF ForOwnShell, OneResume, Waits, Linked
<1>9. Prompted /\ ReportedHere
  BY <1>1 DEF Prompted, ReportedHere
<1>10. StoredOnly
  BY <1>6 DEF StoredOnly, Resume!ResumeAssumption
<1>11. ClosesWell /\ ClosedWell
  BY <1>1 DEF ClosesWell, ClosedWell
<1> QED  BY <1>7, <1>8, <1>9, <1>10, <1>11 DEF ResumeInv

-----------------------------------------------------------------------------
(* The operators.                                                          *)

LEMMA TypedIs ==
  ASSUME NEW s \in Shells, NEW count \in 0 .. 2
  PROVE  LET t == Resume!Typed(s, count) IN
         /\ t \in Shells /\ t.n = s.n /\ t.alive = s.alive /\ t.osc = s.osc /\ t.cwd = s.cwd
         /\ t.prompt = s.prompt /\ t.late = s.late
         /\ t.resumed <= s.resumed + count
         /\ count = 0 \/ ~s.alive => t = s
         /\ count # 0 /\ s.alive => t.agent = s.prompt
         /\ t.typedInto => s.typedInto \/ (count # 0 /\ s.n # gui.spawned)
<1>1. CASE count = 0 \/ ~s.alive
  <2>1. Resume!Typed(s, count) = s
    BY <1>1 DEF Resume!Typed
  <2> QED  BY <1>1, <2>1 DEF Shells
<1>2. CASE count # 0 /\ s.alive
  <2> DEFINE r == IF s.resumed + count > 2 THEN 2 ELSE s.resumed + count
             i == s.typedInto \/ s.n # gui.spawned
  <2>1. r \in 0 .. 2 /\ r <= s.resumed + count
    BY DEF Shells
  <2>2. s.prompt \in BOOLEAN /\ s.typedInto \in BOOLEAN
    BY DEF Shells
  <2>3. i \in BOOLEAN /\ (i => s.typedInto \/ s.n # gui.spawned)
    BY <2>2
  <2>4. Resume!Typed(s, count) = [s EXCEPT !.resumed = r, !.agent = s.prompt, !.input = ~s.prompt,
                                    !.typedInto = i]
    BY <1>2 DEF Resume!Typed
  <2> DEFINE o == ~s.prompt
  <2>5. o \in BOOLEAN
    OBVIOUS
  <2> HIDE DEF r, i, o
  <2> DEFINE u == [s EXCEPT !.resumed = r]
             t == [u EXCEPT !.agent = s.prompt, !.input = o, !.typedInto = i]
  <2>6. /\ u \in Shells /\ u.n = s.n /\ u.alive = s.alive /\ u.osc = s.osc /\ u.cwd = s.cwd
        /\ u.prompt = s.prompt /\ u.late = s.late /\ u.resumed = r
    BY <2>1 DEF Shells
  <2>7. Resume!Typed(s, count) = t
    BY <2>4 DEF o, Shells
  <2> HIDE DEF u
  <2>8. /\ t \in Shells /\ t.n = u.n /\ t.alive = u.alive /\ t.osc = u.osc /\ t.cwd = u.cwd
        /\ t.prompt = u.prompt /\ t.late = u.late /\ t.resumed = u.resumed
        /\ t.agent = s.prompt /\ t.typedInto = i
    BY <2>2, <2>3, <2>5, <2>6 DEF Shells
  <2> HIDE DEF t
  <2> QED  BY <1>2, <2>1, <2>3, <2>6, <2>7, <2>8
<1> QED  BY <1>1, <1>2

\* Injecting: nothing waits, or the command goes out one of the three ways.
Injected(g, s) ==
  /\ g.pendingResume /\ gui' \in Guis /\ ~gui'.pendingResume
  /\ gui'.phase = g.phase /\ gui'.link = g.link /\ gui'.spawned = g.spawned
  /\ gui'.cwd = g.cwd /\ gui'.shellCwd = g.shellCwd
  /\ \/ g.link = "up" /\ gui'.writes = g.writes /\ shell' = Resume!Typed(s, 1)
     \/ g.link = "connecting" /\ gui'.writes <= g.writes + 1 /\ shell' = s
     \/ g.link = "down" /\ gui'.writes = g.writes /\ shell' = s

LEMMA InjectIs ==
  ASSUME NEW g \in Guis, NEW s \in Shells, Resume!Inject(g, s)
  PROVE  (gui' = g /\ shell' = s) \/ Injected(g, s)
<1>1. CASE ~g.pendingResume \/ g.resumeInjected
  BY <1>1 DEF Resume!Inject
<1>2. CASE g.pendingResume /\ ~g.resumeInjected
  <2> DEFINE after == [g EXCEPT !.resumeInjected = TRUE, !.pendingResume = FALSE]
             w == IF g.writes = 2 THEN 2 ELSE g.writes + 1
             more == [after EXCEPT !.writes = w]
  <2>1. /\ after \in Guis /\ ~after.pendingResume /\ after.phase = g.phase
        /\ after.link = g.link /\ after.spawned = g.spawned /\ after.cwd = g.cwd
        /\ after.shellCwd = g.shellCwd /\ after.writes = g.writes
    BY DEF Guis
  <2>2. g.link \in {"down", "connecting", "up"} /\ g.writes \in 0 .. 2
        /\ w \in 0 .. 2 /\ w <= g.writes + 1
    BY DEF Guis
  <2>3. CASE g.link = "up"
    <3>1. shell' = Resume!Typed(s, 1) /\ gui' = after
      BY <1>2, <2>3 DEF Resume!Inject
    <3> HIDE DEF after
    <3> QED  BY <1>2, <2>1, <2>3, <3>1 DEF Injected
  <2>4. CASE g.link = "connecting"
    <3>1. shell' = s /\ gui' = [after EXCEPT !.writes = IF @ = 2 THEN 2 ELSE @ + 1]
      BY <1>2, <2>4 DEF Resume!Inject
    <3>2. shell' = s /\ gui' = more
      BY <2>1, <3>1
    <3> HIDE DEF after, w
    <3>3. /\ more \in Guis /\ more.writes = w /\ more.pendingResume = after.pendingResume
          /\ more.phase = after.phase /\ more.link = after.link
          /\ more.spawned = after.spawned /\ more.cwd = after.cwd
          /\ more.shellCwd = after.shellCwd
      BY <2>1, <2>2 DEF Guis
    <3> HIDE DEF more
    <3> QED  BY <1>2, <2>1, <2>2, <2>4, <3>2, <3>3 DEF Injected
  <2>5. CASE g.link = "down"
    <3>1. shell' = s /\ gui' = after
      BY <1>2, <2>5 DEF Resume!Inject
    <3> HIDE DEF after
    <3> QED  BY <1>2, <2>1, <2>5, <3>1 DEF Injected
  <2> QED  BY <2>2, <2>3, <2>4, <2>5
<1> QED  BY <1>1, <1>2

\* In all ways: what is counted stays, and only the shell of this run is typed into.
LEMMA InjectKeeps ==
  ASSUME NEW g \in Guis, NEW s \in Shells, Resume!Inject(g, s)
  PROVE  /\ gui' \in Guis /\ shell' \in Shells
         /\ gui'.phase = g.phase /\ gui'.link = g.link /\ gui'.spawned = g.spawned
         /\ gui'.shellCwd = g.shellCwd
         /\ shell'.n = s.n /\ shell'.alive = s.alive /\ shell'.osc = s.osc
         /\ shell'.cwd = s.cwd /\ shell'.prompt = s.prompt /\ shell'.late = s.late
         /\ gui'.pendingResume => g.pendingResume
         /\ ~g.pendingResume => gui' = g /\ shell' = s
         /\ shell'.resumed + gui'.writes + Waits(gui') <= s.resumed + g.writes + Waits(g)
         /\ shell'.agent => s.agent \/ s.prompt
         /\ shell'.typedInto => s.typedInto \/ (g.pendingResume /\ s.n # gui.spawned)
         /\ gui'.writes # 0 => g.writes # 0 \/ g.pendingResume
         /\ g.link = "up" => gui'.writes = g.writes
<1>0. s.resumed \in 0 .. 2 /\ g.writes \in 0 .. 2 /\ 1 \in 0 .. 2
  BY DEF Shells, Guis
<1>1. CASE gui' = g /\ shell' = s
  <2>1. Waits(gui') = Waits(g) /\ s.resumed + g.writes + Waits(g) <= s.resumed + g.writes + Waits(g)
    BY <1>0, <1>1 DEF Waits
  <2> QED  BY <1>1, <2>1
<1>2. CASE Injected(g, s)
  <2>0. /\ gui' \in Guis /\ g.pendingResume /\ ~gui'.pendingResume
        /\ gui'.phase = g.phase /\ gui'.link = g.link /\ gui'.spawned = g.spawned
        /\ gui'.shellCwd = g.shellCwd
        /\ gui'.writes \in 0 .. 2 /\ Waits(gui') = 0 /\ Waits(g) = 1
    BY <1>2 DEF Injected, Waits, Guis
  <2>1. CASE g.link = "up"
    <3>1. shell' = Resume!Typed(s, 1) /\ gui'.writes = g.writes
      BY <1>2, <2>1 DEF Injected
    <3>2. /\ shell' \in Shells /\ shell'.n = s.n /\ shell'.alive = s.alive
          /\ shell'.osc = s.osc /\ shell'.cwd = s.cwd /\ shell'.prompt = s.prompt
          /\ shell'.late = s.late /\ shell'.resumed <= s.resumed + 1
          /\ (~s.alive => shell' = s)
          /\ (s.alive => shell'.agent = s.prompt)
          /\ (shell'.typedInto => s.typedInto \/ s.n # gui.spawned)
      BY <1>0, <3>1, TypedIs
    <3>3. shell'.resumed \in 0 .. 2
      BY <3>2 DEF Shells
    <3>4. shell'.resumed + gui'.writes + Waits(gui') <= s.resumed + g.writes + Waits(g)
      BY <1>0, <2>0, <3>1, <3>2, <3>3
    <3>5. shell'.agent => s.agent \/ s.prompt
      BY <3>2
    <3> QED  BY <2>0, <2>1, <3>1, <3>2, <3>4, <3>5
  <2>2. CASE g.link # "up"
    <3>1. shell' = s /\ gui'.writes <= g.writes + 1
      BY <1>0, <1>2, <2>2 DEF Injected
    <3>2. shell'.resumed + gui'.writes + Waits(gui') <= s.resumed + g.writes + Waits(g)
      BY <1>0, <2>0, <3>1
    <3> QED  BY <2>0, <2>2, <3>1, <3>2
  <2> QED  BY <2>1, <2>2
<1> QED  BY <1>1, <1>2, InjectIs

-----------------------------------------------------------------------------
(* The actions.                                                            *)

\* What looks at the shell and writes the leaf.
LEMMA LookKeeps ==
  ASSUME Resume!ResumeAssumption, ResumeInv, shell' = shell, gui' = gui,
         Resume!Observe \/ Resume!SnapshotCwds \/ Resume!CwdAnswer \/ Resume!CwdRecorded \/ Resume!SnapshotAgents \/ Resume!TreeAnswer
           \/ Resume!AgentRecorded
  PROVE  ResumeInv'
<1>0. shell.agent \in BOOLEAN /\ shell.cwd \in Dir /\ gui.shellCwd \in Dir \cup {None}
      /\ leaf.cwd \in Dir \cup {None} /\ leaf.agent \in BOOLEAN
  BY DEF ResumeInv, RunShapes, Shells, Guis, Leaves
<1>1. /\ \A d \in Dir \cup {None} : LET l == [leaf EXCEPT !.cwd = d] IN
           l \in Leaves /\ l.cwd = d /\ l.agent = leaf.agent
      /\ \A x \in BOOLEAN : LET l == [leaf EXCEPT !.agent = x] IN
           l \in Leaves /\ l.agent = x /\ l.cwd = leaf.cwd
      /\ \A d \in Dir \cup {None}, x \in BOOLEAN : LET l == [cwd |-> d, agent |-> x] IN
           l \in Leaves /\ l.agent = x /\ l.cwd = d
  BY DEF ResumeInv, RunShapes, Leaves
<1>2. ForOwnShell' /\ OneResume' /\ Prompted'
  BY DEF ResumeInv, ForOwnShell, OneResume, Waits, Prompted
<1>3. ASSUME RunShapes', Linked', ReportedHere', StoredOnly', ClosesWell', ClosedWell'
      PROVE  ResumeInv'
  BY <1>2, <1>3 DEF ResumeInv
<1>4. CASE Resume!Observe
  <2>1. leaf' \in Leaves /\ leaf'.agent = shell.agent /\ shell.alive
        /\ leaf'.cwd = (IF shell.osc THEN leaf.cwd ELSE shell.cwd)
        /\ cwdSnapshot' = cwdSnapshot /\ agentSnapshot' = agentSnapshot /\ raced' = raced
        /\ events' = events
    BY <1>0, <1>1, <1>4 DEF Resume!Observe, ResumeInv, RunShapes
  <2>2. RunShapes'
    BY <1>0, <1>1, <2>1, <1>4 DEF ResumeInv, RunShapes
  <2>3. Linked'
    BY <1>0, <2>1 DEF ResumeInv, Resume!ResumeAssumption, Linked
  <2>4. ReportedHere'
    BY <1>0, <2>1 DEF ResumeInv, Resume!ResumeAssumption, ReportedHere, Seen
  <2>5. StoredOnly'
    BY <1>0, <2>1 DEF ResumeInv, Resume!ResumeAssumption, StoredOnly
  <2>6. ClosesWell'
    BY <1>0, <2>1 DEF ResumeInv, Resume!ResumeAssumption, ClosesWell, Seen
  <2>7. ClosedWell'
    BY <1>0, <2>1 DEF ResumeInv, Resume!ResumeAssumption, ClosedWell
  <2> QED  BY <1>3, <2>2, <2>3, <2>4, <2>5, <2>6, <2>7
<1>5. CASE Resume!SnapshotCwds
  <2>1. gui.phase = "on" /\ cwdSnapshot' = Asked /\ leaf' = leaf
        /\ agentSnapshot' = agentSnapshot /\ raced' = raced /\ events' = events
    BY <1>0, <1>1, <1>5 DEF Resume!SnapshotCwds, ResumeInv, RunShapes
  <2>2. RunShapes'
    BY <1>0, <1>1, <2>1, <1>5 DEF ResumeInv, RunShapes
  <2>3. Linked'
    BY <1>0, <2>1 DEF ResumeInv, Resume!ResumeAssumption, Linked
  <2>4. ReportedHere'
    BY <1>0, <2>1 DEF ResumeInv, Resume!ResumeAssumption, ReportedHere, Seen
  <2>5. StoredOnly'
    BY <1>0, <2>1 DEF ResumeInv, Resume!ResumeAssumption, StoredOnly
  <2>6. ClosesWell'
    BY <1>0, <2>1 DEF ResumeInv, Resume!ResumeAssumption, ClosesWell, Seen
  <2>7. ClosedWell'
    BY <1>0, <2>1 DEF ResumeInv, Resume!ResumeAssumption, ClosedWell
  <2> QED  BY <1>3, <2>2, <2>3, <2>4, <2>5, <2>6, <2>7
<1>6. CASE Resume!CwdAnswer
  <2>1. gui.phase # "off" /\ cwdSnapshot = Asked /\ leaf' = leaf
        /\ agentSnapshot' = agentSnapshot /\ raced' = raced /\ events' = events
        /\ cwdSnapshot' \in Dir
        /\ (gui.shellCwd # None => cwdSnapshot' = gui.shellCwd)
        /\ (gui.shellCwd = None /\ leaf.cwd # None => cwdSnapshot' = leaf.cwd)
        /\ (gui.shellCwd = None /\ leaf.cwd = None => cwdSnapshot' = shell.cwd)
    BY <1>0, <1>1, <1>6 DEF Resume!CwdAnswer, ResumeInv, RunShapes
  <2>2. RunShapes'
    BY <1>0, <1>1, <2>1, <1>6 DEF ResumeInv, RunShapes
  <2>3. Linked'
    BY <1>0, <2>1 DEF ResumeInv, Resume!ResumeAssumption, Linked
  <2>4. ReportedHere'
    BY <1>0, <2>1 DEF ResumeInv, Resume!ResumeAssumption, ReportedHere, Seen
  <2>5. StoredOnly'
    BY <1>0, <2>1 DEF ResumeInv, Resume!ResumeAssumption, StoredOnly
  <2>6. ClosesWell'
    BY <1>0, <2>1 DEF ResumeInv, Resume!ResumeAssumption, ClosesWell, Seen
  <2>7. ClosedWell'
    BY <1>0, <2>1 DEF ResumeInv, Resume!ResumeAssumption, ClosedWell
  <2> QED  BY <1>3, <2>2, <2>3, <2>4, <2>5, <2>6, <2>7
<1>7. CASE Resume!CwdRecorded
  <2>1. gui.phase # "off" /\ cwdSnapshot \in Dir /\ leaf' \in Leaves
        /\ leaf'.cwd = cwdSnapshot /\ leaf'.agent = leaf.agent /\ cwdSnapshot' = None
        /\ agentSnapshot' = agentSnapshot /\ raced' = raced /\ events' = events
    BY <1>0, <1>1, <1>7 DEF Resume!CwdRecorded, ResumeInv, RunShapes
  <2>2. RunShapes'
    BY <1>0, <1>1, <2>1, <1>7 DEF ResumeInv, RunShapes
  <2>3. Linked'
    BY <1>0, <2>1 DEF ResumeInv, Resume!ResumeAssumption, Linked
  <2>4. ReportedHere'
    BY <1>0, <2>1 DEF ResumeInv, Resume!ResumeAssumption, ReportedHere, Seen, StoredOnly
  <2>5. StoredOnly'
    BY <1>0, <2>1 DEF ResumeInv, Resume!ResumeAssumption, StoredOnly
  <2>6. ClosesWell'
    BY <1>0, <2>1 DEF ResumeInv, Resume!ResumeAssumption, ClosesWell, Seen
  <2>7. ClosedWell'
    BY <1>0, <2>1 DEF ResumeInv, Resume!ResumeAssumption, ClosedWell
  <2> QED  BY <1>3, <2>2, <2>3, <2>4, <2>5, <2>6, <2>7
<1>8. CASE Resume!SnapshotAgents
  <2>1. gui.phase = "on" /\ agentSnapshot' = Asked /\ leaf' = leaf
        /\ cwdSnapshot' = cwdSnapshot /\ raced' = raced /\ events' = events
    BY <1>0, <1>1, <1>8 DEF Resume!SnapshotAgents, ResumeInv, RunShapes
  <2>2. RunShapes'
    BY <1>0, <1>1, <2>1, <1>8 DEF ResumeInv, RunShapes
  <2>3. Linked'
    BY <1>0, <2>1 DEF ResumeInv, Resume!ResumeAssumption, Linked
  <2>4. ReportedHere'
    BY <1>0, <2>1 DEF ResumeInv, Resume!ResumeAssumption, ReportedHere, Seen
  <2>5. StoredOnly'
    BY <1>0, <2>1 DEF ResumeInv, Resume!ResumeAssumption, StoredOnly
  <2>6. ClosesWell'
    BY <1>0, <2>1 DEF ResumeInv, Resume!ResumeAssumption, ClosesWell, Seen
  <2>7. ClosedWell'
    BY <1>0, <2>1 DEF ResumeInv, Resume!ResumeAssumption, ClosedWell
  <2> QED  BY <1>3, <2>2, <2>3, <2>4, <2>5, <2>6, <2>7
<1>9. CASE Resume!TreeAnswer
  <2>0. /\ gui.phase # "off" /\ leaf' = leaf /\ cwdSnapshot' = cwdSnapshot
        /\ agentSnapshot = Asked
    BY <1>9 DEF Resume!TreeAnswer
  <2>1. /\ agentSnapshot' \in BOOLEAN /\ raced' \in BOOLEAN /\ (~raced' => ~raced)
        /\ (~raced' /\ shell.alive => agentSnapshot' = shell.agent)
    <3>1. (shell.alive /\ shell.agent) \in BOOLEAN /\ raced \in BOOLEAN
      BY <1>0 DEF ResumeInv, RunShapes
    <3>2. shell.alive => (shell.alive /\ shell.agent) = shell.agent
      BY <1>0
    <3> QED  BY <1>9, <3>1, <3>2 DEF Resume!TreeAnswer
  <2>2. events' \in 0 .. RunEvents
    BY <1>9 DEF Resume!TreeAnswer, ResumeInv, RunShapes, Resume!ResumeAssumption
  <2>3. RunShapes'
    BY <2>0, <2>1, <2>2 DEF ResumeInv, RunShapes
  <2>4. Linked'
    BY <2>0 DEF ResumeInv, Linked
  <2>5. ReportedHere' /\ StoredOnly'
    BY <2>0 DEF ResumeInv, ReportedHere, Seen, StoredOnly
  <2>6. ClosesWell'
    BY <2>0, <2>1 DEF ResumeInv, Resume!ResumeAssumption, ClosesWell, Seen
  <2>7. ClosedWell'
    BY <2>0 DEF ClosedWell
  <2> QED  BY <1>3, <2>3, <2>4, <2>5, <2>6, <2>7
<1>10. CASE Resume!AgentRecorded
  <2>1. gui.phase # "off" /\ agentSnapshot \in BOOLEAN /\ leaf' \in Leaves
        /\ leaf'.agent = agentSnapshot /\ leaf'.cwd = leaf.cwd /\ agentSnapshot' = None
        /\ cwdSnapshot' = cwdSnapshot /\ raced' = raced /\ events' = events
    BY <1>0, <1>1, <1>10 DEF Resume!AgentRecorded, ResumeInv, RunShapes
  <2>2. RunShapes'
    BY <1>0, <1>1, <2>1, <1>10 DEF ResumeInv, RunShapes
  <2>3. Linked'
    BY <1>0, <2>1 DEF ResumeInv, Resume!ResumeAssumption, Linked
  <2>4. ReportedHere'
    BY <1>0, <2>1 DEF ResumeInv, Resume!ResumeAssumption, ReportedHere, Seen
  <2>5. StoredOnly'
    BY <1>0, <2>1 DEF ResumeInv, Resume!ResumeAssumption, StoredOnly
  <2>6. ClosesWell'
    BY <1>0, <2>1 DEF ResumeInv, Resume!ResumeAssumption, ClosesWell, Seen
  <2>7. ClosedWell'
    BY <1>0, <2>1 DEF ResumeInv, Resume!ResumeAssumption, ClosedWell
  <2> QED  BY <1>3, <2>2, <2>3, <2>4, <2>5, <2>6, <2>7
<1> QED  BY <1>4, <1>5, <1>6, <1>7, <1>8, <1>9, <1>10

\* The window, its links, and the program's start and end.
LEMMA WindowKeeps ==
  ASSUME Resume!ResumeAssumption, ResumeInv, shell' = shell, leaf' = leaf,
         Resume!CloseWindow \/ Resume!Closed \/ Resume!Killed \/ Resume!LinkLost \/ Resume!Start \/ Resume!Connecting
  PROVE  ResumeInv'
<1>0. /\ shell.n \in 1 .. MaxShells /\ shell.resumed \in 0 .. 2 /\ gui.writes \in 0 .. 2
      /\ gui.spawned \in 0 .. MaxShells /\ leaf.cwd \in Dir \cup {None} /\ shell.cwd \in Dir
      /\ 0 \in 0 .. 2 /\ 0 \in 0 .. MaxShells
  BY DEF ResumeInv, RunShapes, Shells, Guis, Leaves, Resume!ResumeAssumption
<1>1. CASE Resume!CloseWindow
  <2>1. /\ gui' \in Guis
        /\ gui'.link = gui.link /\ gui'.spawned = gui.spawned /\ gui'.cwd = gui.cwd
        /\ gui'.shellCwd = gui.shellCwd /\ gui'.pendingResume = gui.pendingResume
        /\ gui'.resumeInjected = gui.resumeInjected /\ gui'.timer = gui.timer
        /\ gui'.writes = gui.writes /\ gui'.phase = "closing"
    BY <1>0, <1>1 DEF Resume!CloseWindow, ResumeInv, RunShapes, Guis
  <2>2. /\ gui.phase = "on" /\ gui.link = "up" /\ raced' \in BOOLEAN
        /\ events' \in 0 .. RunEvents /\ cwdSnapshot' \in {cwdSnapshot, Asked}
        /\ agentSnapshot' \in BOOLEAN \cup {None, Asked}
        /\ ~raced' => /\ ~gui.pendingResume /\ (shell.prompt \/ shell.agent)
                      /\ cwdSnapshot' = Asked /\ agentSnapshot' = Asked
    BY <1>0, <1>1 DEF Resume!CloseWindow, ResumeInv, RunShapes, Resume!Event,
       Resume!ResumeAssumption
  <2>3. RunShapes'
    BY <2>1, <2>2 DEF ResumeInv, RunShapes
  <2>4. ForOwnShell'
    BY <1>0, <2>1, <2>2 DEF ResumeInv, ForOwnShell
  <2>5. OneResume'
    BY <1>0, <2>1, <2>2 DEF ResumeInv, OneResume, Waits
  <2>6. Linked'
    BY <1>0, <2>1, <2>2 DEF ResumeInv, Linked
  <2>7. Prompted'
    BY <1>0, <2>1, <2>2 DEF ResumeInv, Prompted
  <2>8. ReportedHere'
    BY <1>0, <2>1, <2>2 DEF ResumeInv, ReportedHere, Seen, Linked
  <2>9. StoredOnly'
    BY <1>0, <2>1, <2>2 DEF ResumeInv, StoredOnly, Linked, Resume!ResumeAssumption
  <2>10. ClosesWell'
    BY <1>0, <2>1, <2>2 DEF ResumeInv, ClosesWell, Seen, Resume!ResumeAssumption,
       ReportedHere, Linked, Prompted
  <2>11. ClosedWell'
    BY <1>0, <2>1, <2>2 DEF ResumeInv, ClosedWell, ClosesWell
  <2> QED  BY <2>3, <2>4, <2>5, <2>6, <2>7, <2>8, <2>9, <2>10, <2>11 DEF ResumeInv
<1>2. CASE Resume!Closed
  <2>1. /\ gui' \in Guis
        /\ gui'.cwd = gui.cwd /\ gui'.resumeInjected = gui.resumeInjected
        /\ gui'.phase = "off" /\ gui'.link = "down" /\ gui'.pendingResume = FALSE
        /\ gui'.writes = 0 /\ gui'.shellCwd = None /\ gui'.spawned = 0
    BY <1>0, <1>2 DEF Resume!Closed, Resume!Stopped, ResumeInv, RunShapes, Guis
  <2>2. gui.phase = "closing" /\ cwdSnapshot = None /\ agentSnapshot = None
        /\ cwdSnapshot' = cwdSnapshot /\ agentSnapshot' = agentSnapshot
        /\ raced' = raced /\ events' = events
    BY <1>0, <1>2 DEF Resume!Closed, ResumeInv, RunShapes, Resume!Event,
       Resume!ResumeAssumption
  <2>3. RunShapes'
    BY <2>1, <2>2 DEF ResumeInv, RunShapes
  <2>4. ForOwnShell'
    BY <1>0, <2>1, <2>2 DEF ResumeInv, ForOwnShell
  <2>5. OneResume'
    BY <1>0, <2>1, <2>2 DEF ResumeInv, OneResume, Waits
  <2>6. Linked'
    BY <1>0, <2>1, <2>2 DEF ResumeInv, Linked
  <2>7. Prompted'
    BY <1>0, <2>1, <2>2 DEF ResumeInv, Prompted
  <2>8. ReportedHere'
    BY <1>0, <2>1, <2>2 DEF ResumeInv, ReportedHere, Seen, Linked
  <2>9. StoredOnly'
    BY <1>0, <2>1, <2>2 DEF ResumeInv, StoredOnly, Linked, Resume!ResumeAssumption
  <2>10. ClosesWell'
    BY <1>0, <2>1, <2>2 DEF ResumeInv, ClosesWell, Seen, Resume!ResumeAssumption,
       ReportedHere, Linked, Prompted
  <2>11. ClosedWell'
    BY <1>0, <2>1, <2>2 DEF ResumeInv, ClosedWell, ClosesWell
  <2> QED  BY <2>3, <2>4, <2>5, <2>6, <2>7, <2>8, <2>9, <2>10, <2>11 DEF ResumeInv
<1>3. CASE Resume!Killed
  <2>1. /\ gui' \in Guis
        /\ gui'.cwd = gui.cwd /\ gui'.resumeInjected = gui.resumeInjected
        /\ gui'.phase = "off" /\ gui'.link = "down" /\ gui'.pendingResume = FALSE
        /\ gui'.writes = 0 /\ gui'.shellCwd = None /\ gui'.spawned = 0
    BY <1>0, <1>3 DEF Resume!Killed, Resume!Stopped, ResumeInv, RunShapes, Guis
  <2>2. cwdSnapshot' = None /\ agentSnapshot' = None
        /\ raced' = TRUE /\ events' \in 0 .. RunEvents
    BY <1>0, <1>3 DEF Resume!Killed, ResumeInv, RunShapes, Resume!Event,
       Resume!ResumeAssumption
  <2>3. RunShapes'
    BY <2>1, <2>2 DEF ResumeInv, RunShapes
  <2>4. ForOwnShell'
    BY <1>0, <2>1, <2>2 DEF ResumeInv, ForOwnShell
  <2>5. OneResume'
    BY <1>0, <2>1, <2>2 DEF ResumeInv, OneResume, Waits
  <2>6. Linked'
    BY <1>0, <2>1, <2>2 DEF ResumeInv, Linked
  <2>7. Prompted'
    BY <1>0, <2>1, <2>2 DEF ResumeInv, Prompted
  <2>8. ReportedHere'
    BY <1>0, <2>1, <2>2 DEF ResumeInv, ReportedHere, Seen, Linked
  <2>9. StoredOnly'
    BY <1>0, <2>1, <2>2 DEF ResumeInv, StoredOnly, Linked, Resume!ResumeAssumption
  <2>10. ClosesWell'
    BY <1>0, <2>1, <2>2 DEF ResumeInv, ClosesWell, Seen, Resume!ResumeAssumption,
       ReportedHere, Linked, Prompted
  <2>11. ClosedWell'
    BY <1>0, <2>1, <2>2 DEF ResumeInv, ClosedWell, ClosesWell
  <2> QED  BY <2>3, <2>4, <2>5, <2>6, <2>7, <2>8, <2>9, <2>10, <2>11 DEF ResumeInv
<1>4. CASE Resume!LinkLost
  <2>1. /\ gui' \in Guis
        /\ gui'.phase = gui.phase /\ gui'.spawned = gui.spawned /\ gui'.cwd = gui.cwd
        /\ gui'.shellCwd = gui.shellCwd /\ gui'.pendingResume = gui.pendingResume
        /\ gui'.resumeInjected = gui.resumeInjected /\ gui'.timer = gui.timer
        /\ gui'.writes = gui.writes /\ gui'.link = "down"
    BY <1>0, <1>4 DEF Resume!LinkLost, ResumeInv, RunShapes, Guis
  <2>2. gui.link = "up" /\ cwdSnapshot' = cwdSnapshot /\ agentSnapshot' = agentSnapshot
        /\ raced' = raced /\ events' \in 0 .. RunEvents
    BY <1>0, <1>4 DEF Resume!LinkLost, ResumeInv, RunShapes, Resume!Event,
       Resume!ResumeAssumption
  <2>3. RunShapes'
    BY <2>1, <2>2 DEF ResumeInv, RunShapes
  <2>4. ForOwnShell'
    BY <1>0, <2>1, <2>2 DEF ResumeInv, ForOwnShell
  <2>5. OneResume'
    BY <1>0, <2>1, <2>2 DEF ResumeInv, OneResume, Waits
  <2>6. Linked'
    BY <1>0, <2>1, <2>2 DEF ResumeInv, Linked
  <2>7. Prompted'
    BY <1>0, <2>1, <2>2 DEF ResumeInv, Prompted
  <2>8. ReportedHere'
    BY <1>0, <2>1, <2>2 DEF ResumeInv, ReportedHere, Seen, Linked
  <2>9. StoredOnly'
    BY <1>0, <2>1, <2>2 DEF ResumeInv, StoredOnly, Linked, Resume!ResumeAssumption
  <2>10. ClosesWell'
    BY <1>0, <2>1, <2>2 DEF ResumeInv, ClosesWell, Seen, Resume!ResumeAssumption,
       ReportedHere, Linked, Prompted
  <2>11. ClosedWell'
    BY <1>0, <2>1, <2>2 DEF ResumeInv, ClosedWell, ClosesWell
  <2> QED  BY <2>3, <2>4, <2>5, <2>6, <2>7, <2>8, <2>9, <2>10, <2>11 DEF ResumeInv
<1>5. CASE Resume!Start
  <2>1. /\ gui' \in Guis
        /\ gui'.spawned = gui.spawned /\ gui'.shellCwd = gui.shellCwd
        /\ gui'.pendingResume = gui.pendingResume /\ gui'.timer = gui.timer
        /\ gui'.writes = gui.writes /\ gui'.phase = "on" /\ gui'.link = "connecting"
        /\ gui'.resumeInjected = FALSE
    BY <1>0, <1>5 DEF Resume!Start, ResumeInv, RunShapes, Guis
  <2>2. gui.phase = "off" /\ cwdSnapshot' = cwdSnapshot /\ agentSnapshot' = agentSnapshot
        /\ raced' = FALSE /\ events' \in 0 .. RunEvents
    BY <1>0, <1>5 DEF Resume!Start, ResumeInv, RunShapes, Resume!Event,
       Resume!ResumeAssumption
  <2>3. RunShapes'
    BY <2>1, <2>2 DEF ResumeInv, RunShapes
  <2>4. ForOwnShell'
    BY <1>0, <2>1, <2>2 DEF ResumeInv, ForOwnShell
  <2>5. OneResume'
    BY <1>0, <2>1, <2>2 DEF ResumeInv, OneResume, Waits
  <2>6. Linked'
    BY <1>0, <2>1, <2>2 DEF ResumeInv, Linked
  <2>7. Prompted'
    BY <1>0, <2>1, <2>2 DEF ResumeInv, Prompted
  <2>8. ReportedHere'
    BY <1>0, <2>1, <2>2 DEF ResumeInv, ReportedHere, Seen, Linked
  <2>9. StoredOnly'
    BY <1>0, <2>1, <2>2 DEF ResumeInv, StoredOnly, Linked, Resume!ResumeAssumption
  <2>10. ClosesWell'
    BY <1>0, <2>1, <2>2 DEF ResumeInv, ClosesWell, Seen, Resume!ResumeAssumption,
       ReportedHere, Linked, Prompted
  <2>11. ClosedWell'
    BY <1>0, <2>1, <2>2 DEF ResumeInv, ClosedWell, ClosesWell
  <2> QED  BY <2>3, <2>4, <2>5, <2>6, <2>7, <2>8, <2>9, <2>10, <2>11 DEF ResumeInv
<1>6. CASE Resume!Connecting
  <2>1. /\ gui' \in Guis
        /\ gui'.phase = gui.phase /\ gui'.spawned = gui.spawned /\ gui'.cwd = gui.cwd
        /\ gui'.shellCwd = gui.shellCwd /\ gui'.pendingResume = gui.pendingResume
        /\ gui'.resumeInjected = gui.resumeInjected /\ gui'.timer = gui.timer
        /\ gui'.writes = gui.writes /\ gui'.link = "connecting"
    BY <1>0, <1>6 DEF Resume!Connecting, ResumeInv, RunShapes, Guis
  <2>2. gui.phase # "off" /\ cwdSnapshot' = cwdSnapshot /\ agentSnapshot' = agentSnapshot
        /\ raced' = raced /\ events' = events
    BY <1>0, <1>6 DEF Resume!Connecting, ResumeInv, RunShapes, Resume!Event,
       Resume!ResumeAssumption
  <2>3. RunShapes'
    BY <2>1, <2>2 DEF ResumeInv, RunShapes
  <2>4. ForOwnShell'
    BY <1>0, <2>1, <2>2 DEF ResumeInv, ForOwnShell
  <2>5. OneResume'
    BY <1>0, <2>1, <2>2 DEF ResumeInv, OneResume, Waits
  <2>6. Linked'
    BY <1>0, <2>1, <2>2 DEF ResumeInv, Linked
  <2>7. Prompted'
    BY <1>0, <2>1, <2>2 DEF ResumeInv, Prompted
  <2>8. ReportedHere'
    BY <1>0, <2>1, <2>2 DEF ResumeInv, ReportedHere, Seen, Linked
  <2>9. StoredOnly'
    BY <1>0, <2>1, <2>2 DEF ResumeInv, StoredOnly, Linked, Resume!ResumeAssumption
  <2>10. ClosesWell'
    BY <1>0, <2>1, <2>2 DEF ResumeInv, ClosesWell, Seen, Resume!ResumeAssumption,
       ReportedHere, Linked, Prompted
  <2>11. ClosedWell'
    BY <1>0, <2>1, <2>2 DEF ResumeInv, ClosedWell, ClosesWell
  <2> QED  BY <2>3, <2>4, <2>5, <2>6, <2>7, <2>8, <2>9, <2>10, <2>11 DEF ResumeInv
<1> QED  BY <1>1, <1>2, <1>3, <1>4, <1>5, <1>6

LEMMA TypedCommandKeeps ==
  ASSUME Resume!ResumeAssumption, ResumeInv, NEW s \in Shells, Resume!Command(s),
         s.n = shell.n, s.alive = shell.alive, s.osc = shell.osc, s.resumed = shell.resumed,
         s.typedInto = shell.typedInto, s.late = shell.late, s.agent => s.prompt,
         ~s.prompt \/ (s.prompt = shell.prompt /\ s.cwd = shell.cwd)
  PROVE  ResumeInv'
<1>0. /\ shell.n \in 1 .. MaxShells /\ shell.resumed \in 0 .. 2 /\ gui.writes \in 0 .. 2
      /\ gui.spawned \in 0 .. MaxShells /\ leaf.cwd \in Dir \cup {None} /\ shell.cwd \in Dir
      /\ shell \in Shells /\ gui \in Guis /\ leaf \in Leaves
  BY DEF ResumeInv, RunShapes, Shells, Guis, Leaves
<1>1. /\ shell' = s /\ gui' = gui /\ leaf' = leaf /\ gui.phase # "off" /\ gui.link = "up"
      /\ shell.alive /\ cwdSnapshot' = cwdSnapshot /\ agentSnapshot' = agentSnapshot
  BY DEF Resume!Command
<1>2. events' \in 0 .. RunEvents /\ raced' \in BOOLEAN /\ (~raced' => gui.phase # "closing")
  <2>1. events' \in 0 .. RunEvents
    BY DEF Resume!Command, Resume!Event, ResumeInv, RunShapes, Resume!ResumeAssumption
  <2>2. raced' \in BOOLEAN /\ (~raced' => gui.phase # "closing")
    BY DEF Resume!Command, Resume!Missed, ResumeInv, RunShapes
  <2> QED  BY <2>1, <2>2
<1>3. RunShapes'
  BY <1>1, <1>2 DEF ResumeInv, RunShapes
<1>4. ForOwnShell'
  BY <1>0, <1>1, <1>2 DEF ResumeInv, ForOwnShell
<1>5. OneResume'
  BY <1>0, <1>1, <1>2 DEF ResumeInv, OneResume, Waits
<1>6. Linked'
  BY <1>0, <1>1, <1>2 DEF ResumeInv, Linked
<1>7. Prompted'
  BY <1>0, <1>1, <1>2 DEF ResumeInv, Prompted
<1>8. ReportedHere'
  BY <1>0, <1>1, <1>2 DEF ResumeInv, ReportedHere, Seen, Linked
<1>9. StoredOnly'
  BY <1>0, <1>1, <1>2 DEF ResumeInv, StoredOnly, Linked, Resume!ResumeAssumption
<1>10. ClosesWell'
  BY <1>0, <1>1, <1>2 DEF ResumeInv, ClosesWell, Seen, Resume!ResumeAssumption
<1>11. ClosedWell'
  BY <1>0, <1>1, <1>2 DEF ResumeInv, ClosedWell
<1> QED  BY <1>3, <1>4, <1>5, <1>6, <1>7, <1>8, <1>9, <1>10, <1>11 DEF ResumeInv

LEMMA UserKeeps ==
  ASSUME Resume!ResumeAssumption, ResumeInv, (\E d \in Dir : Resume!Cd(d)) \/ Resume!AgentStarts \/ Resume!AgentEnds
  PROVE  ResumeInv'
<1>0. shell \in Shells
  BY DEF ResumeInv, RunShapes
<1>1. ASSUME NEW d \in Dir, Resume!Cd(d)
      PROVE  ResumeInv'
  <2> DEFINE s == [shell EXCEPT !.cwd = d, !.prompt = FALSE]
  <2>1. s \in Shells /\ s.n = shell.n /\ s.alive = shell.alive /\ s.osc = shell.osc
        /\ s.agent = shell.agent /\ s.resumed = shell.resumed
        /\ s.typedInto = shell.typedInto /\ s.input = shell.input /\ s.late = shell.late
        /\ s.cwd = d /\ s.prompt = FALSE
    BY <1>0 DEF Shells
  <2>2. ~shell.agent /\ Resume!Command(s)
    BY <1>1 DEF Resume!Cd
  <2> HIDE DEF s
  <2> QED  BY <2>1, <2>2, TypedCommandKeeps
<1>2. CASE Resume!AgentStarts
  <2> DEFINE s == [shell EXCEPT !.agent = TRUE]
  <2>1. s \in Shells /\ s.n = shell.n /\ s.alive = shell.alive /\ s.osc = shell.osc /\ s.cwd = shell.cwd
        /\ s.prompt = shell.prompt /\ s.resumed = shell.resumed
        /\ s.typedInto = shell.typedInto /\ s.input = shell.input /\ s.late = shell.late
        /\ s.agent = TRUE
    BY <1>0 DEF Shells
  <2>2. shell.prompt /\ Resume!Command(s)
    BY <1>2 DEF Resume!AgentStarts
  <2> HIDE DEF s
  <2> QED  BY <2>1, <2>2, TypedCommandKeeps
<1>3. CASE Resume!AgentEnds
  <2> DEFINE s == [shell EXCEPT !.agent = FALSE, !.prompt = FALSE]
  <2>1. s \in Shells /\ s.n = shell.n /\ s.alive = shell.alive /\ s.osc = shell.osc /\ s.cwd = shell.cwd
        /\ s.resumed = shell.resumed /\ s.typedInto = shell.typedInto
        /\ s.input = shell.input /\ s.late = shell.late /\ s.agent = FALSE
        /\ s.prompt = FALSE
    BY <1>0 DEF Shells
  <2>2. Resume!Command(s)
    BY <1>3 DEF Resume!AgentEnds
  <2> HIDE DEF s
  <2> QED  BY <2>1, <2>2, TypedCommandKeeps
<1> QED  BY <1>1, <1>2, <1>3

LEMMA DaemonKeeps ==
  ASSUME Resume!ResumeAssumption, ResumeInv, Resume!DaemonDies
  PROVE  ResumeInv'
<1>0. /\ shell.n \in 1 .. MaxShells /\ shell.resumed \in 0 .. 2 /\ gui.writes \in 0 .. 2
      /\ gui.spawned \in 0 .. MaxShells /\ leaf.cwd \in Dir \cup {None} /\ shell.cwd \in Dir
      /\ shell \in Shells /\ gui \in Guis /\ leaf \in Leaves
  BY DEF ResumeInv, RunShapes, Shells, Guis, Leaves
<1>1. /\ shell' \in Shells
      /\ shell'.n = shell.n /\ shell'.osc = shell.osc /\ shell'.cwd = shell.cwd
      /\ shell'.resumed = shell.resumed /\ shell'.typedInto = shell.typedInto
      /\ shell'.late = shell.late /\ shell'.alive = FALSE /\ shell'.agent = FALSE
      /\ shell'.prompt = FALSE /\ shell'.input = FALSE
  BY <1>0 DEF Resume!DaemonDies, Shells
<1>2. /\ gui' \in Guis
      /\ gui'.phase = gui.phase /\ gui'.spawned = gui.spawned /\ gui'.cwd = gui.cwd
      /\ gui'.shellCwd = gui.shellCwd /\ gui'.pendingResume = gui.pendingResume
      /\ gui'.resumeInjected = gui.resumeInjected /\ gui'.timer = gui.timer
      /\ gui'.writes = gui.writes /\ gui'.link = "down"
  BY <1>0 DEF Resume!DaemonDies, Guis
<1>3. /\ leaf' = leaf /\ cwdSnapshot' = cwdSnapshot /\ agentSnapshot' = agentSnapshot
      /\ events' \in 0 .. RunEvents /\ raced' \in BOOLEAN
      /\ ~raced' => ~raced /\ gui.phase = "off"
  <2>1. events' \in 0 .. RunEvents
    BY DEF Resume!DaemonDies, Resume!Event, ResumeInv, RunShapes, Resume!ResumeAssumption
  <2>2. /\ leaf' = leaf /\ cwdSnapshot' = cwdSnapshot /\ agentSnapshot' = agentSnapshot
        /\ raced' \in BOOLEAN /\ (~raced' => ~raced /\ gui.phase = "off")
    BY DEF Resume!DaemonDies, ResumeInv, RunShapes
  <2> QED  BY <2>1, <2>2
<1>4. RunShapes'
  BY <1>1, <1>2, <1>3 DEF ResumeInv, RunShapes
<1>5. ForOwnShell'
  BY <1>0, <1>1, <1>2, <1>3 DEF ResumeInv, ForOwnShell
<1>6. OneResume'
  BY <1>0, <1>1, <1>2, <1>3 DEF ResumeInv, OneResume, Waits
<1>7. Linked'
  BY <1>0, <1>1, <1>2, <1>3 DEF ResumeInv, Linked
<1>8. Prompted'
  BY <1>0, <1>1, <1>2, <1>3 DEF ResumeInv, Prompted
<1>9. ReportedHere'
  BY <1>0, <1>1, <1>2, <1>3 DEF ResumeInv, ReportedHere, Seen, Linked
<1>10. StoredOnly'
  BY <1>0, <1>1, <1>2, <1>3 DEF ResumeInv, StoredOnly, Linked, Resume!ResumeAssumption
<1>11. ClosesWell'
  BY <1>0, <1>1, <1>2, <1>3 DEF ResumeInv, ClosesWell, Seen, Resume!ResumeAssumption
<1>12. ClosedWell'
  BY <1>0, <1>1, <1>2, <1>3 DEF ResumeInv, ClosedWell
<1> QED  BY <1>4, <1>5, <1>6, <1>7, <1>8, <1>9, <1>10, <1>11, <1>12 DEF ResumeInv

LEMMA FallbackKeeps ==
  ASSUME Resume!ResumeAssumption, ResumeInv, Resume!Fallback
  PROVE  ResumeInv'
<1>0. /\ shell.n \in 1 .. MaxShells /\ shell.resumed \in 0 .. 2 /\ gui.writes \in 0 .. 2
      /\ gui.spawned \in 0 .. MaxShells /\ leaf.cwd \in Dir \cup {None} /\ shell.cwd \in Dir
      /\ shell \in Shells /\ gui \in Guis /\ leaf \in Leaves
  BY DEF ResumeInv, RunShapes, Shells, Guis, Leaves
<1> DEFINE g == [gui EXCEPT !.timer = FALSE]
<1>1. g \in Guis /\ g.phase = gui.phase /\ g.link = gui.link /\ g.spawned = gui.spawned
      /\ g.cwd = gui.cwd /\ g.shellCwd = gui.shellCwd
      /\ g.pendingResume = gui.pendingResume /\ g.resumeInjected = gui.resumeInjected
      /\ g.writes = gui.writes /\ Waits(g) = Waits(gui)
  BY <1>0 DEF Guis, Waits
<1>2. Resume!Inject(g, shell) /\ gui.phase # "off" /\ leaf' = leaf /\ cwdSnapshot' = cwdSnapshot /\ agentSnapshot' = agentSnapshot
      /\ raced' = raced /\ events' = events
  BY DEF Resume!Fallback
<1> HIDE DEF g
<1>3. /\ gui' \in Guis /\ shell' \in Shells
      /\ gui'.phase = gui.phase /\ gui'.link = gui.link /\ gui'.spawned = gui.spawned
      /\ gui'.shellCwd = gui.shellCwd
      /\ shell'.n = shell.n /\ shell'.alive = shell.alive /\ shell'.osc = shell.osc
      /\ shell'.cwd = shell.cwd /\ shell'.prompt = shell.prompt /\ shell'.late = shell.late
      /\ gui'.pendingResume => gui.pendingResume
      /\ shell'.agent => shell.agent \/ shell.prompt
      /\ ~gui.pendingResume => gui'.pendingResume = gui.pendingResume
                              /\ gui'.writes = gui.writes /\ shell' = shell
      /\ shell'.resumed + gui'.writes + Waits(gui') <= shell.resumed + gui.writes + Waits(gui)
      /\ shell'.typedInto => shell.typedInto \/ (gui.pendingResume /\ shell.n # gui.spawned)
      /\ gui'.writes # 0 => gui.writes # 0 \/ gui.pendingResume
      /\ gui.link = "up" => gui'.writes = gui.writes
  BY <1>0, <1>1, <1>2, InjectKeeps
<1>4. shell'.resumed \in 0 .. 2 /\ gui'.writes \in 0 .. 2 /\ Waits(gui') \in 0 .. 1
      /\ Waits(gui) \in 0 .. 1
  BY <1>3 DEF Shells, Guis, Waits
<1>5. RunShapes'
  BY <1>2, <1>3 DEF ResumeInv, RunShapes
<1>6. ForOwnShell'
  BY <1>0, <1>2, <1>3, <1>4 DEF ResumeInv, ForOwnShell
<1>7. OneResume'
  BY <1>0, <1>2, <1>3, <1>4 DEF ResumeInv, OneResume
<1>8. Linked'
  BY <1>0, <1>2, <1>3, <1>4 DEF ResumeInv, Linked
<1>9. Prompted'
  BY <1>0, <1>2, <1>3, <1>4 DEF ResumeInv, Prompted
<1>10. ReportedHere'
  BY <1>0, <1>2, <1>3, <1>4 DEF ResumeInv, ReportedHere, Seen, Linked
<1>11. StoredOnly'
  BY <1>0, <1>2, <1>3, <1>4 DEF ResumeInv, StoredOnly, Linked, Resume!ResumeAssumption
<1>12. ClosesWell'
  BY <1>0, <1>2, <1>3, <1>4 DEF ResumeInv, ClosesWell, Seen, Resume!ResumeAssumption
<1>13. ClosedWell'
  BY <1>0, <1>2, <1>3, <1>4 DEF ResumeInv, ClosedWell
<1> QED  BY <1>5, <1>6, <1>7, <1>8, <1>9, <1>10, <1>11, <1>12, <1>13 DEF ResumeInv

LEMMA PromptKeeps ==
  ASSUME Resume!ResumeAssumption, ResumeInv, Resume!Prompt
  PROVE  ResumeInv'
<1>0. /\ shell.n \in 1 .. MaxShells /\ shell.resumed \in 0 .. 2 /\ gui.writes \in 0 .. 2
      /\ gui.spawned \in 0 .. MaxShells /\ leaf.cwd \in Dir \cup {None} /\ shell.cwd \in Dir
      /\ shell \in Shells /\ gui \in Guis /\ leaf \in Leaves
  BY DEF ResumeInv, RunShapes, Shells, Guis, Leaves
<1> DEFINE s == [shell EXCEPT !.prompt = TRUE, !.agent = shell.input, !.input = FALSE]
           g == [gui EXCEPT !.shellCwd = shell.cwd]
           reports == shell.osc /\ gui.phase # "off" /\ gui.link = "up"
<1>1. /\ s \in Shells
      /\ s.n = shell.n /\ s.alive = shell.alive /\ s.osc = shell.osc /\ s.cwd = shell.cwd
      /\ s.resumed = shell.resumed /\ s.typedInto = shell.typedInto /\ s.late = shell.late
      /\ s.prompt = TRUE
  BY <1>0 DEF Shells
<1>2. /\ g \in Guis /\ Waits(g) = Waits(gui)
      /\ g.phase = gui.phase /\ g.link = gui.link /\ g.spawned = gui.spawned
      /\ g.cwd = gui.cwd /\ g.pendingResume = gui.pendingResume
      /\ g.resumeInjected = gui.resumeInjected /\ g.timer = gui.timer
      /\ g.writes = gui.writes /\ g.shellCwd = shell.cwd
  BY <1>0 DEF Guis, Waits
<1>3. /\ shell.alive /\ ~shell.prompt /\ cwdSnapshot' = cwdSnapshot /\ agentSnapshot' = agentSnapshot
      /\ raced' = raced /\ events' = events
  BY DEF Resume!Prompt
<1>4. CASE reports
  <2>1. Resume!Inject(g, s) /\ leaf' \in Leaves /\ leaf'.agent = leaf.agent
    BY <1>0, <1>4 DEF Resume!Prompt, Leaves
  <2> HIDE DEF g, s
  <2>2. /\ gui' \in Guis /\ shell' \in Shells
        /\ gui'.phase = gui.phase /\ gui'.link = gui.link /\ gui'.spawned = gui.spawned
        /\ gui'.shellCwd = shell.cwd
        /\ shell'.n = shell.n /\ shell'.alive = shell.alive /\ shell'.osc = shell.osc
        /\ shell'.cwd = shell.cwd /\ shell'.prompt = TRUE /\ shell'.late = shell.late
        /\ gui'.pendingResume => gui.pendingResume
        /\ shell'.agent => s.agent \/ s.prompt
        /\ shell'.resumed + gui'.writes + Waits(gui') <= shell.resumed + gui.writes + Waits(gui)
        /\ shell'.typedInto => shell.typedInto \/ (gui.pendingResume /\ shell.n # gui.spawned)
        /\ gui'.writes = gui.writes
    <3>1. /\ gui' \in Guis /\ shell' \in Shells
          /\ gui'.phase = g.phase /\ gui'.link = g.link /\ gui'.spawned = g.spawned
          /\ gui'.shellCwd = g.shellCwd
          /\ shell'.n = s.n /\ shell'.alive = s.alive /\ shell'.osc = s.osc
          /\ shell'.cwd = s.cwd /\ shell'.prompt = s.prompt /\ shell'.late = s.late
          /\ gui'.pendingResume => g.pendingResume
          /\ shell'.agent => s.agent \/ s.prompt
      BY <1>1, <1>2, <2>1, InjectKeeps
    <3>2. /\ shell'.resumed + gui'.writes + Waits(gui') <= s.resumed + g.writes + Waits(g)
          /\ shell'.typedInto => s.typedInto \/ (g.pendingResume /\ s.n # gui.spawned)
          /\ gui'.writes = g.writes
      BY <1>1, <1>2, <1>4, <2>1, InjectKeeps
    <3>3. shell'.resumed + gui'.writes + Waits(gui') <= shell.resumed + gui.writes + Waits(gui)
      BY <1>1, <1>2, <3>2
    <3>4. shell'.typedInto => shell.typedInto \/ (gui.pendingResume /\ shell.n # gui.spawned)
      BY <1>1, <1>2, <3>2
    <3>5. gui'.writes = gui.writes
      BY <1>2, <3>2
    <3> QED  BY <1>1, <1>2, <3>1, <3>3, <3>4, <3>5
  <2>3. shell'.resumed \in 0 .. 2 /\ gui'.writes \in 0 .. 2 /\ Waits(gui') \in 0 .. 1
        /\ Waits(gui) \in 0 .. 1
    BY <2>2 DEF Shells, Guis, Waits
  <2>4. RunShapes'
    BY <1>3, <2>1, <2>2 DEF ResumeInv, RunShapes
  <2>5. ForOwnShell'
    BY <1>0, <1>3, <1>4, <2>1, <2>2, <2>3 DEF ResumeInv, ForOwnShell
  <2>6. OneResume'
    BY <1>0, <1>3, <1>4, <2>1, <2>2, <2>3 DEF ResumeInv, OneResume
  <2>7. Linked'
    BY <1>0, <1>3, <1>4, <2>1, <2>2, <2>3 DEF ResumeInv, Linked
  <2>8. Prompted'
    BY <1>0, <1>3, <1>4, <2>1, <2>2, <2>3 DEF ResumeInv, Prompted
  <2>9. ReportedHere'
    BY <1>0, <1>3, <1>4, <2>1, <2>2, <2>3 DEF ResumeInv, ReportedHere, Seen, Linked
  <2>10. StoredOnly'
    BY <1>0, <1>3, <1>4, <2>1, <2>2, <2>3 DEF ResumeInv, StoredOnly, Linked,
       Resume!ResumeAssumption
  <2>11. ClosesWell'
    BY <1>0, <1>3, <1>4, <2>1, <2>2, <2>3 DEF ResumeInv, ClosesWell, Seen,
       Resume!ResumeAssumption
  <2>12. ClosedWell'
    BY <1>0, <1>3, <1>4, <2>1, <2>2, <2>3 DEF ResumeInv, ClosedWell
  <2> QED  BY <2>4, <2>5, <2>6, <2>7, <2>8, <2>9, <2>10, <2>11, <2>12 DEF ResumeInv
<1>5. CASE ~reports
  <2>1. shell' = s /\ gui' = gui /\ leaf' = leaf
    BY <1>5 DEF Resume!Prompt
  <2> HIDE DEF s
  <2>2. RunShapes'
    BY <1>1, <1>3, <2>1 DEF ResumeInv, RunShapes
  <2>3. ForOwnShell'
    BY <1>0, <1>1, <1>3, <1>5, <2>1 DEF ResumeInv, ForOwnShell
  <2>4. OneResume'
    BY <1>0, <1>1, <1>3, <1>5, <2>1 DEF ResumeInv, OneResume, Waits
  <2>5. Linked'
    BY <1>0, <1>1, <1>3, <1>5, <2>1 DEF ResumeInv, Linked
  <2>6. Prompted'
    BY <1>0, <1>1, <1>3, <1>5, <2>1 DEF ResumeInv, Prompted
  <2>7. ReportedHere'
    BY <1>0, <1>1, <1>3, <1>5, <2>1 DEF ResumeInv, ReportedHere, Seen, Linked
  <2>8. StoredOnly'
    BY <1>0, <1>1, <1>3, <1>5, <2>1 DEF ResumeInv, StoredOnly, Linked,
       Resume!ResumeAssumption
  <2>9. ClosesWell'
    BY <1>0, <1>1, <1>3, <1>5, <2>1 DEF ResumeInv, ClosesWell, Seen,
       Resume!ResumeAssumption
  <2>10. ClosedWell'
    BY <1>0, <1>1, <1>3, <1>5, <2>1 DEF ResumeInv, ClosedWell
  <2> QED  BY <2>2, <2>3, <2>4, <2>5, <2>6, <2>7, <2>8, <2>9, <2>10 DEF ResumeInv
<1> QED  BY <1>4, <1>5

LEMMA ReattachKeeps ==
  ASSUME Resume!ResumeAssumption, ResumeInv, Resume!Reattached
  PROVE  ResumeInv'
<1>0. /\ shell.n \in 1 .. MaxShells /\ shell.resumed \in 0 .. 2 /\ gui.writes \in 0 .. 2
      /\ gui.spawned \in 0 .. MaxShells /\ leaf.cwd \in Dir \cup {None} /\ shell.cwd \in Dir
      /\ shell \in Shells /\ gui \in Guis /\ leaf \in Leaves
  BY DEF ResumeInv, RunShapes, Shells, Guis, Leaves
<1> DEFINE s == Resume!Typed(shell, gui.writes)
           g == [gui EXCEPT !.link = "up", !.writes = 0]
           h == [g EXCEPT !.shellCwd = shell.cwd]
           reports == shell.osc /\ shell.prompt
<1>1. /\ s \in Shells /\ s.n = shell.n /\ s.alive = shell.alive /\ s.osc = shell.osc
      /\ s.cwd = shell.cwd /\ s.prompt = shell.prompt /\ s.late = shell.late
      /\ s.resumed <= shell.resumed + gui.writes
      /\ gui.writes = 0 => s = shell
      /\ s.agent => shell.agent \/ shell.prompt
      /\ s.typedInto => shell.typedInto \/ (gui.writes # 0 /\ shell.n # gui.spawned)
  BY <1>0, TypedIs
<1>2. /\ g \in Guis
      /\ g.phase = gui.phase /\ g.spawned = gui.spawned /\ g.shellCwd = gui.shellCwd
      /\ g.pendingResume = gui.pendingResume /\ g.link = "up" /\ g.writes = 0
  <2>1. 0 \in 0 .. 2
    OBVIOUS
  <2> QED  BY <1>0, <2>1 DEF Guis
<1>3. /\ gui.phase # "off" /\ shell.alive /\ cwdSnapshot' = cwdSnapshot /\ agentSnapshot' = agentSnapshot
      /\ raced' = raced /\ events' = events
  BY DEF Resume!Reattached
<1>4. \/ /\ reports /\ Resume!Inject(h, s)
         /\ leaf' = [leaf EXCEPT !.cwd = IF gui.shellCwd # shell.cwd THEN shell.cwd ELSE @]
      \/ /\ ~reports \/ Seen
         /\ shell' = s /\ gui' = g /\ leaf' = leaf
  BY DEF Resume!Reattached, Seen
<1> HIDE DEF g, s
<1>9. Waits(g) = Waits(gui)
  BY <1>2 DEF Waits
<1>5. /\ h \in Guis /\ Waits(h) = Waits(g) /\ h.phase = g.phase /\ h.link = g.link
      /\ h.spawned = g.spawned /\ h.pendingResume = g.pendingResume /\ h.writes = g.writes
      /\ h.shellCwd = shell.cwd
  BY <1>0, <1>2 DEF Guis, Waits
<1> HIDE DEF h
<1>6. s.resumed \in 0 .. 2 /\ Waits(gui) \in 0 .. 1
  BY <1>1 DEF Shells, Waits
<1>7. CASE reports /\ Resume!Inject(h, s)
           /\ leaf' = [leaf EXCEPT !.cwd = IF gui.shellCwd # shell.cwd THEN shell.cwd ELSE @]
  <2>1. leaf' \in Leaves /\ leaf'.agent = leaf.agent /\ leaf'.cwd \in {leaf.cwd, shell.cwd}
    BY <1>0, <1>7 DEF Leaves
  <2>13. h.writes = 0 /\ Waits(h) = Waits(gui) /\ h.phase = gui.phase /\ h.link = "up"
        /\ h.spawned = gui.spawned /\ h.pendingResume = gui.pendingResume
    BY <1>2, <1>5, <1>9
  <2>14. shell'.resumed + gui'.writes + Waits(gui') <= s.resumed + h.writes + Waits(h)
    BY <1>1, <1>5, <1>7, InjectKeeps
  <2>2. /\ gui' \in Guis /\ shell' \in Shells
        /\ gui'.phase = gui.phase /\ gui'.link = "up" /\ gui'.spawned = gui.spawned
        /\ gui'.shellCwd = shell.cwd
        /\ shell'.n = shell.n /\ shell'.alive = shell.alive /\ shell'.osc = shell.osc
        /\ shell'.cwd = shell.cwd /\ shell'.prompt = shell.prompt /\ shell'.late = shell.late
        /\ gui'.pendingResume => gui.pendingResume
        /\ shell'.agent => shell.agent \/ shell.prompt
        /\ ~gui.pendingResume => shell' = s
        /\ shell'.typedInto => s.typedInto \/ (gui.pendingResume /\ shell.n # gui.spawned)
        /\ gui'.writes = 0
    <3>1. /\ gui' \in Guis /\ shell' \in Shells
          /\ gui'.phase = h.phase /\ gui'.link = h.link /\ gui'.spawned = h.spawned
          /\ gui'.shellCwd = h.shellCwd
          /\ shell'.n = s.n /\ shell'.alive = s.alive /\ shell'.osc = s.osc
          /\ shell'.cwd = s.cwd /\ shell'.prompt = s.prompt /\ shell'.late = s.late
          /\ gui'.pendingResume => h.pendingResume
          /\ shell'.agent => s.agent \/ s.prompt
      BY <1>1, <1>5, <1>7, InjectKeeps
    <3>2. /\ ~h.pendingResume => shell' = s
          /\ shell'.typedInto => s.typedInto \/ (h.pendingResume /\ s.n # gui.spawned)
          /\ gui'.writes = h.writes
      BY <1>1, <1>5, <1>7, <2>13, InjectKeeps
    <3>3. /\ ~gui.pendingResume => shell' = s
          /\ shell'.typedInto => s.typedInto \/ (gui.pendingResume /\ shell.n # gui.spawned)
          /\ gui'.writes = 0
      BY <1>1, <2>13, <3>2
    <3> QED  BY <1>1, <1>5, <2>13, <3>1, <3>3
  <2>3. shell'.resumed \in 0 .. 2 /\ Waits(gui') \in 0 .. 1
    BY <2>2 DEF Shells, Waits
  <2>4. RunShapes'
    BY <1>3, <2>1, <2>2 DEF ResumeInv, RunShapes
  <2>5. ForOwnShell'
    BY <1>0, <1>1, <1>3, <1>6, <1>7, <2>1, <2>2, <2>3, <2>13, <2>14 DEF ResumeInv,
       ForOwnShell
  <2>6. OneResume'
    BY <1>0, <1>1, <1>3, <1>6, <1>7, <2>1, <2>2, <2>3, <2>13, <2>14 DEF ResumeInv,
       OneResume
  <2>7. Linked'
    BY <1>0, <1>1, <1>3, <1>6, <1>7, <2>1, <2>2, <2>3, <2>13, <2>14 DEF ResumeInv, Linked
  <2>8. Prompted'
    BY <1>0, <1>1, <1>3, <1>6, <1>7, <2>1, <2>2, <2>3, <2>13, <2>14 DEF ResumeInv,
       Prompted
  <2>9. ReportedHere'
    BY <1>0, <1>1, <1>3, <1>6, <1>7, <2>1, <2>2, <2>3, <2>13, <2>14 DEF ResumeInv,
       ReportedHere, Seen, Linked
  <2>10. StoredOnly'
    BY <1>0, <1>1, <1>3, <1>6, <1>7, <2>1, <2>2, <2>3, <2>13, <2>14 DEF ResumeInv,
       StoredOnly, Linked, Resume!ResumeAssumption
  <2>11. ClosesWell'
    BY <1>0, <1>1, <1>3, <1>6, <1>7, <2>1, <2>2, <2>3, <2>13, <2>14 DEF ResumeInv,
       ClosesWell, Seen, Resume!ResumeAssumption
  <2>12. ClosedWell'
    BY <1>0, <1>1, <1>3, <1>6, <1>7, <2>1, <2>2, <2>3, <2>13, <2>14 DEF ResumeInv,
       ClosedWell
  <2> QED  BY <2>4, <2>5, <2>6, <2>7, <2>8, <2>9, <2>10, <2>11, <2>12 DEF ResumeInv
<1>8. CASE /\ ~reports \/ Seen
           /\ shell' = s /\ gui' = g /\ leaf' = leaf
  <2>1. Waits(gui') = Waits(gui) /\ gui'.writes = 0
    BY <1>2, <1>8, <1>9
  <2>2. RunShapes'
    BY <1>1, <1>2, <1>3, <1>8 DEF ResumeInv, RunShapes
  <2>3. ForOwnShell'
    BY <1>0, <1>1, <1>2, <1>3, <1>6, <1>8, <2>1 DEF ResumeInv, ForOwnShell
  <2>4. OneResume'
    BY <1>0, <1>1, <1>2, <1>3, <1>6, <1>8, <2>1 DEF ResumeInv, OneResume
  <2>5. Linked'
    BY <1>0, <1>1, <1>2, <1>3, <1>6, <1>8, <2>1 DEF ResumeInv, Linked
  <2>6. Prompted'
    BY <1>0, <1>1, <1>2, <1>3, <1>6, <1>8, <2>1 DEF ResumeInv, Prompted
  <2>7. ReportedHere'
    BY <1>0, <1>1, <1>2, <1>3, <1>6, <1>8, <2>1 DEF ResumeInv, ReportedHere, Seen, Linked
  <2>8. StoredOnly'
    BY <1>0, <1>1, <1>2, <1>3, <1>6, <1>8, <2>1 DEF ResumeInv, StoredOnly, Linked,
       Resume!ResumeAssumption
  <2>9. ClosesWell'
    BY <1>0, <1>1, <1>2, <1>3, <1>6, <1>8, <2>1 DEF ResumeInv, ClosesWell, Seen,
       Resume!ResumeAssumption
  <2>10. ClosedWell'
    BY <1>0, <1>1, <1>2, <1>3, <1>6, <1>8, <2>1 DEF ResumeInv, ClosedWell
  <2> QED  BY <2>2, <2>3, <2>4, <2>5, <2>6, <2>7, <2>8, <2>9, <2>10 DEF ResumeInv
<1> QED  BY <1>4, <1>7, <1>8

LEMMA RespawnKeeps ==
  ASSUME Resume!ResumeAssumption, ResumeInv, Resume!Respawned
  PROVE  ResumeInv'
<1>0. /\ shell.n \in 1 .. MaxShells /\ shell.resumed \in 0 .. 2 /\ gui.writes \in 0 .. 2
      /\ gui.spawned \in 0 .. MaxShells /\ leaf.cwd \in Dir \cup {None} /\ shell.cwd \in Dir
      /\ shell \in Shells /\ gui \in Guis /\ leaf \in Leaves
  BY DEF ResumeInv, RunShapes, Shells, Guis, Leaves
<1> DEFINE m == shell.n + 1
           c == IF gui.cwd = None THEN Resume!Home ELSE gui.cwd
           w == gui.writes # 0
           fresh == [shell EXCEPT !.n = m, !.alive = TRUE, !.agent = FALSE, !.cwd = c,
                                  !.prompt = FALSE, !.resumed = 0, !.typedInto = FALSE,
                                  !.input = w, !.late = w]
           g == [gui EXCEPT !.link = "up", !.writes = 0, !.spawned = fresh.n]
<1>1. /\ gui' = Resume!Armed(g) /\ shell' = [fresh EXCEPT !.resumed = gui.writes]
      /\ gui.phase # "off" /\ ~shell.alive /\ shell.n < MaxShells
      /\ leaf' = leaf /\ cwdSnapshot' = cwdSnapshot /\ agentSnapshot' = agentSnapshot
      /\ raced' = raced /\ events' = events
  BY DEF Resume!Respawned
<1>2. m \in 1 .. MaxShells /\ m \in 0 .. MaxShells /\ 0 \in 0 .. 2
  BY <1>0, <1>1 DEF Resume!ResumeAssumption
<1>3. c \in Dir
  BY <1>0 DEF Guis, Resume!Home, Resume!ResumeAssumption
<1>4. w \in BOOLEAN /\ (~w <=> gui.writes = 0)
  OBVIOUS
<1> HIDE DEF m, c, w
<1>5. fresh \in Shells /\ fresh.n = m /\ fresh.alive /\ fresh.osc = shell.osc /\ ~fresh.agent
      /\ fresh.cwd = c /\ ~fresh.prompt /\ ~fresh.typedInto /\ fresh.late = w
  BY <1>0, <1>2, <1>3, <1>4 DEF Shells
<1>6. /\ g \in Guis
      /\ g.phase = gui.phase /\ g.shellCwd = gui.shellCwd
      /\ g.pendingResume = gui.pendingResume /\ g.link = "up" /\ g.writes = 0
      /\ g.spawned = m
  BY <1>0, <1>2, <1>5 DEF Guis
<1> HIDE DEF fresh, g
<1>7. /\ shell' \in Shells /\ shell'.n = m /\ shell'.alive /\ shell'.osc = shell.osc
      /\ ~shell'.agent /\ shell'.cwd = c /\ ~shell'.prompt /\ ~shell'.typedInto
      /\ shell'.late = w /\ shell'.resumed = gui.writes
  BY <1>0, <1>1, <1>5 DEF Shells
<1>8. /\ gui' \in Guis /\ gui'.phase = gui.phase /\ gui'.link = "up" /\ gui'.writes = 0
      /\ gui'.spawned = m /\ gui'.shellCwd = gui.shellCwd
  BY <1>1, <1>6 DEF Guis, Resume!Armed
<1>9. Waits(gui') \in 0 .. 1
  BY DEF Waits
<1>10. RunShapes'
  BY <1>1, <1>7, <1>8 DEF ResumeInv, RunShapes
<1>11. ForOwnShell'
  BY <1>0, <1>1, <1>2, <1>4, <1>7, <1>8, <1>9 DEF ResumeInv, ForOwnShell
<1>12. OneResume'
  BY <1>0, <1>1, <1>2, <1>4, <1>7, <1>8, <1>9 DEF ResumeInv, OneResume
<1>13. Linked'
  BY <1>0, <1>1, <1>2, <1>4, <1>7, <1>8, <1>9 DEF ResumeInv, Linked
<1>14. Prompted'
  BY <1>0, <1>1, <1>2, <1>4, <1>7, <1>8, <1>9 DEF ResumeInv, Prompted
<1>15. ReportedHere'
  BY <1>0, <1>1, <1>2, <1>4, <1>7, <1>8, <1>9 DEF ResumeInv, ReportedHere, Seen, Linked
<1>16. StoredOnly'
  BY <1>0, <1>1, <1>2, <1>4, <1>7, <1>8, <1>9 DEF ResumeInv, StoredOnly, Linked,
     Resume!ResumeAssumption
<1>17. ClosesWell'
  BY <1>0, <1>1, <1>2, <1>4, <1>7, <1>8, <1>9 DEF ResumeInv, ClosesWell, Seen,
     Resume!ResumeAssumption
<1>18. ClosedWell'
  BY <1>0, <1>1, <1>2, <1>4, <1>7, <1>8, <1>9 DEF ResumeInv, ClosedWell
<1> QED  BY <1>10, <1>11, <1>12, <1>13, <1>14, <1>15, <1>16, <1>17, <1>18 DEF ResumeInv

\* Each step keeps the invariant.
LEMMA StepResume ==
  ASSUME Resume!ResumeAssumption, ResumeInv, [Resume!Next]_(Resume!resumeVars)
  PROVE  ResumeInv'
<1>1. CASE UNCHANGED Resume!resumeVars
  BY <1>1 DEF Resume!resumeVars, ResumeInv, RunShapes, ForOwnShell, OneResume, Waits,
     Linked, Prompted,
              ReportedHere, Seen, StoredOnly, ClosesWell, ClosedWell
<1>2. CASE Resume!Prompt \/ Resume!Fallback \/ Resume!Reattached \/ Resume!Respawned
  BY <1>2, PromptKeeps, FallbackKeeps, ReattachKeeps, RespawnKeeps
<1>3. CASE Resume!Connecting \/ Resume!CloseWindow \/ Resume!Closed \/ Resume!Killed \/ Resume!LinkLost \/ Resume!Start
  <2>1. shell' = shell /\ leaf' = leaf
    BY <1>3 DEF Resume!Connecting, Resume!CloseWindow, Resume!Closed, Resume!Killed,
       Resume!LinkLost, Resume!Start
  <2> QED  BY <1>3, <2>1, WindowKeeps
<1>4. CASE Resume!CwdAnswer \/ Resume!CwdRecorded \/ Resume!TreeAnswer \/ Resume!AgentRecorded \/ Resume!Observe \/ Resume!SnapshotCwds
             \/ Resume!SnapshotAgents
  <2>1. shell' = shell /\ gui' = gui
    BY <1>4 DEF Resume!CwdAnswer, Resume!CwdRecorded, Resume!TreeAnswer,
       Resume!AgentRecorded, Resume!Observe, Resume!SnapshotCwds,
                Resume!SnapshotAgents
  <2> QED  BY <1>4, <2>1, LookKeeps
<1>5. CASE (\E d \in Dir : Resume!Cd(d)) \/ Resume!AgentStarts \/ Resume!AgentEnds
  BY <1>5, UserKeeps
<1>6. CASE Resume!DaemonDies
  BY <1>6, DaemonKeeps
<1> QED  BY <1>1, <1>2, <1>3, <1>4, <1>5, <1>6 DEF Resume!Next, Resume!Returns

-----------------------------------------------------------------------------
(* Scrollback snapshots                                                    *)

Sessions == [text : Snaps!Texts, busy : BOOLEAN]

Commands ==
  [cmd : {"save"}, pane : SavedPane, text : Snaps!Texts] \cup [cmd : {"clear"}, pane : SavedPane]
    \cup [cmd : {"prune"}, live : SUBSET SavedPane]

StoreShapes ==
  /\ open \subseteq SavedPane /\ saving \subseteq Snaps!Mounted /\ Snaps!Mounted \subseteq open
  /\ session \in [SavedPane -> Sessions \cup {None}]
  /\ cache \in [SavedPane -> Snaps!Texts \cup {None}] /\ db \in [SavedPane -> Snaps!Texts \cup {None}]
  /\ legacy \in [SavedPane -> Snaps!Texts \cup {None}] /\ due \in [SavedPane -> Snaps!Texts \cup {None}]
  /\ kept \in [SavedPane -> Snaps!Texts] /\ calls \in Seq(Commands)
  /\ phase \in {"boot", "migrating", "ready", "closing", "destroying"}
  /\ failed \in BOOLEAN

\* A parser that works has room for what it parses.
Room == \A p \in Snaps!Mounted : session[p].busy => session[p].text < MaxTexts

Starting == phase \in {"boot", "migrating"}

\* Before the first pane opens nothing is on its way, and an entry of the older
\* version is gone once the panes open.
Phased ==
  /\ Starting => calls = <<>> /\ saving = {} /\ \A p \in SavedPane : session[p] = None
  /\ phase \in {"boot", "migrating", "ready"} => \A p \in SavedPane : due[p] = None
  /\ ~Starting => \A p \in SavedPane : legacy[p] = None
  /\ \A p \in SavedPane : legacy[p] # None => legacy[p] = 1 /\ db[p] \in {None, 1}
  /\ phase = "migrating" /\ ~failed => cache = db
  /\ phase = "destroying" => saving = {}

\* No command on its way takes a row of an open pane.
Spared ==
  \A i \in 1 .. Len(calls) :
    /\ calls[i].cmd = "clear" => calls[i].pane \notin open
    /\ calls[i].cmd = "prune" => open \subseteq calls[i].live

IsSave(c, p) == c.cmd = "save" /\ c.pane = p

\* What is stored of a pane, the saves on their way, the cache and the terminal hold
\* ever more of its history.
Line(p) ==
  /\ Snaps!Saved(db[p]) <= Snaps!Saved(cache[p])
  /\ p \in Snaps!Mounted => Snaps!Saved(cache[p]) <= session[p].text
  /\ \A i \in 1 .. Len(calls) : IsSave(calls[i], p) =>
       Snaps!Saved(db[p]) <= calls[i].text /\ calls[i].text <= Snaps!Saved(cache[p])
  /\ \A i, j \in 1 .. Len(calls) : i < j /\ IsSave(calls[i], p) /\ IsSave(calls[j], p) =>
       calls[i].text <= calls[j].text

Ascends == ~Starting /\ ~failed => \A p \in open : Line(p)

KeptStored ==
  ~failed => \A p \in open : kept[p] <= Snaps!Larger(Snaps!Saved(db[p]), Snaps!Saved(legacy[p]))

\* What is due of a pane is shown by a terminal that is still to be saved, on its way,
\* or stored.
Coming(p) ==
  \/ p \in saving /\ due[p] <= session[p].text
  \/ due[p] <= Snaps!Saved(db[p])
  \/ \E i \in 1 .. Len(calls) : IsSave(calls[i], p) /\ due[p] <= calls[i].text

DueComes == ~failed => \A p \in open : due[p] # None => Coming(p)

SnapInv ==
  StoreShapes /\ Room /\ Phased /\ Spared /\ Ascends /\ KeptStored /\ DueComes

LEMMA SavedIs ==
  ASSUME Snaps!SnapshotsAssumption
  PROVE  /\ \A x \in Snaps!Texts \cup {None} : Snaps!Saved(x) \in Snaps!Texts
         /\ \A x \in Snaps!Texts : Snaps!Saved(x) = x
         /\ Snaps!Saved(None) = 0
         /\ None \notin Snaps!Texts /\ None \notin Sessions /\ Snaps!Texts \subseteq Nat /\ 1 \in Snaps!Texts
         /\ \A x, y \in Snaps!Texts : /\ Snaps!Larger(x, y) \in Snaps!Texts /\ x <= Snaps!Larger(x, y) /\ y <= Snaps!Larger(x, y)
                                /\ \A z \in Snaps!Texts : x <= z /\ y <= z => Snaps!Larger(x, y) <= z
<1>1. Snaps!Texts \subseteq Nat /\ 0 \in Snaps!Texts /\ 1 \in Snaps!Texts
  BY DEF Snaps!SnapshotsAssumption, Snaps!Texts
<1>2. None \notin Snaps!Texts /\ None \notin Sessions
  BY <1>1 DEF Snaps!SnapshotsAssumption, Sessions
<1>3. \A x \in Snaps!Texts \cup {None} : Snaps!Saved(x) \in Snaps!Texts /\ (x \in Snaps!Texts => Snaps!Saved(x) = x)
  BY <1>1, <1>2 DEF Snaps!Saved
<1>4. \A x, y \in Snaps!Texts : /\ Snaps!Larger(x, y) \in Snaps!Texts /\ x <= Snaps!Larger(x, y) /\ y <= Snaps!Larger(x, y)
                          /\ \A z \in Snaps!Texts : x <= z /\ y <= z => Snaps!Larger(x, y) <= z
  BY <1>1 DEF Snaps!Larger
<1> QED  BY <1>1, <1>2, <1>3, <1>4 DEF Snaps!Saved

LEMMA SnapHolds ==
  Snaps!SnapshotsAssumption /\ SnapInv => Snaps!TypeOK /\ Snaps!HistoryComesBack
<1> SUFFICES ASSUME Snaps!SnapshotsAssumption, SnapInv PROVE Snaps!TypeOK /\ Snaps!HistoryComesBack
  OBVIOUS
<1>1. Snaps!TypeOK
  <2>1. \A p \in Snaps!Mounted : session[p] \in Sessions
    BY DEF SnapInv, StoreShapes, Snaps!Mounted
  <2>2. \A p \in Snaps!Mounted : session[p].text \in Snaps!Texts /\ session[p].busy \in BOOLEAN
    BY <2>1 DEF Sessions
  <2> QED  BY <2>2 DEF SnapInv, StoreShapes, Snaps!TypeOK
<1>2. ASSUME ~failed, NEW p \in open \cap Snaps!Mounted PROVE session[p].text >= kept[p]
  <2>1. p \in SavedPane /\ session[p] \in Sessions /\ session[p] # None
    BY <1>2 DEF SnapInv, StoreShapes, Snaps!Mounted
  <2>2. ~Starting /\ legacy[p] = None
    BY <2>1 DEF SnapInv, Phased
  <2>3. Line(p) /\ kept[p] <= Snaps!Larger(Snaps!Saved(db[p]), Snaps!Saved(legacy[p]))
    BY <1>2, <2>2 DEF SnapInv, Ascends, KeptStored
  <2>4. Snaps!Saved(db[p]) <= Snaps!Saved(cache[p]) /\ Snaps!Saved(cache[p]) <= session[p].text
    BY <1>2, <2>3 DEF Line
  <2>5. /\ Snaps!Saved(db[p]) \in Nat /\ Snaps!Saved(cache[p]) \in Nat /\ session[p].text \in Nat
        /\ kept[p] \in Nat /\ Snaps!Saved(legacy[p]) = 0
    BY <2>1, <2>2, SavedIs DEF SnapInv, StoreShapes, Sessions
  <2> QED  BY <2>3, <2>4, <2>5 DEF Snaps!Larger
<1> QED  BY <1>1, <1>2 DEF Snaps!HistoryComesBack

LEMMA InitSnap ==
  ASSUME Snaps!SnapshotsAssumption, Snaps!Init
  PROVE  SnapInv
<1>1. Snaps!Mounted = {}
  BY DEF Snaps!Init, Snaps!Nothing, Snaps!Mounted
<1>2. StoreShapes
  <2>1. db \in [SavedPane -> Snaps!Texts \cup {None}] /\ legacy \in [SavedPane -> Snaps!Texts \cup {None}]
    BY SavedIs DEF Snaps!Init
  <2>2. kept \in [SavedPane -> Snaps!Texts]
    BY <2>1, SavedIs DEF Snaps!Init
  <2>3. calls \in Seq(Commands)
    BY DEF Snaps!Init
  <2> QED  BY <1>1, <2>1, <2>2, <2>3 DEF Snaps!Init, Snaps!Nothing, StoreShapes
<1>7. Room
  BY <1>1 DEF Room
<1>3. Phased
  BY DEF Snaps!Init, Snaps!Nothing, Phased, Starting
<1>4. Spared /\ Ascends
  BY DEF Snaps!Init, Spared, Ascends, Starting
<1>5. KeptStored
  <2>1. \A p \in SavedPane : kept[p] = Snaps!Larger(Snaps!Saved(db[p]), Snaps!Saved(legacy[p])) /\ kept[p] \in Nat
    BY <1>2, SavedIs DEF Snaps!Init, StoreShapes
  <2> QED  BY <1>2, <2>1 DEF KeptStored, StoreShapes
<1>6. DueComes
  BY <1>2, <1>3 DEF DueComes, Phased, Snaps!Init, StoreShapes
<1> QED  BY <1>2, <1>3, <1>4, <1>5, <1>6, <1>7 DEF SnapInv

-----------------------------------------------------------------------------
(* The line of one pane.                                                   *)

\* The typed facts of a state.
LEMMA SnapFacts ==
  ASSUME Snaps!SnapshotsAssumption, StoreShapes
  PROVE  /\ calls \in Seq(Commands) /\ Len(calls) \in Nat
         /\ \A i \in 1 .. Len(calls) : calls[i] \in Commands
         /\ \A i \in 1 .. Len(calls) : calls[i].cmd = "save" => calls[i].text \in Snaps!Texts
         /\ \A p \in SavedPane : Snaps!Saved(db[p]) \in Nat /\ Snaps!Saved(cache[p]) \in Nat
                            /\ (due[p] # None => due[p] \in Snaps!Texts) /\ kept[p] \in Snaps!Texts
         /\ \A p \in Snaps!Mounted : /\ p \in open /\ p \in SavedPane /\ session[p] \in Sessions
                               /\ session[p].text \in Snaps!Texts /\ session[p].busy \in BOOLEAN
         /\ Snaps!Texts \subseteq Nat
<1>1. calls \in Seq(Commands) /\ Len(calls) \in Nat /\ \A i \in 1 .. Len(calls) : calls[i] \in Commands
  BY DEF StoreShapes
<1>2. \A c \in Commands : c.cmd = "save" => c.text \in Snaps!Texts
  BY DEF Commands
<1>3. \A p \in SavedPane : Snaps!Saved(db[p]) \in Nat /\ Snaps!Saved(cache[p]) \in Nat
                     /\ (due[p] # None => due[p] \in Snaps!Texts) /\ kept[p] \in Snaps!Texts
  BY SavedIs DEF StoreShapes
<1>4. \A p \in Snaps!Mounted : p \in open /\ p \in SavedPane /\ session[p] \in Sessions
  BY DEF StoreShapes, Snaps!Mounted
<1>5. \A x \in Sessions : x.text \in Snaps!Texts /\ x.busy \in BOOLEAN
  BY DEF Sessions
<1> QED  BY <1>1, <1>2, <1>3, <1>4, <1>5, SavedIs

LEMMA CallAppended ==
  ASSUME calls \in Seq(Commands), NEW e \in Commands, calls' = Append(calls, e)
  PROVE  /\ calls' \in Seq(Commands) /\ Len(calls) \in Nat /\ Len(calls') = Len(calls) + 1
         /\ \A i \in 1 .. Len(calls) : calls'[i] = calls[i] /\ i \in 1 .. Len(calls')
         /\ calls'[Len(calls) + 1] = e /\ Len(calls) + 1 \in 1 .. Len(calls')
         /\ \A i \in 1 .. Len(calls') : i \in 1 .. Len(calls) \/ i = Len(calls) + 1
OBVIOUS

\* The terminal goes on, or goes; or the cache is as it was.
LEMMA LineKept ==
  ASSUME NEW p, Line(p), calls' = calls, Snaps!Saved(db[p])' = Snaps!Saved(db[p]),
         Snaps!Saved(cache[p])' = Snaps!Saved(cache[p]),
         (p \in Snaps!Mounted)' =>
           \/ p \in Snaps!Mounted /\ session[p].text \in Nat /\ session'[p].text \in Nat
              /\ session[p].text <= session'[p].text
           \/ session'[p].text = Snaps!Saved(cache[p]),
         Snaps!Saved(cache[p]) \in Nat
  PROVE  Line(p)'
BY DEF Line, IsSave

LEMMA LineSaves ==
  ASSUME Snaps!SnapshotsAssumption, StoreShapes, NEW p \in Snaps!Mounted, Line(p), Snaps!saveScrollback(p),
         db' = db, (p \in Snaps!Mounted)' => session'[p].text = session[p].text
  PROVE  Line(p)' /\ calls' \in Seq(Commands) /\ cache' \in [SavedPane -> Snaps!Texts \cup {None}]
<1> DEFINE t == session[p].text
           e == [cmd |-> "save", pane |-> p, text |-> t]
<1>1. t \in Snaps!Texts /\ t \in Nat /\ p \in SavedPane
  BY SnapFacts
<1>2. e \in Commands /\ e.text = t /\ IsSave(e, p)
  BY <1>1 DEF Commands, IsSave
<1>3. calls' = Append(calls, e) /\ cache' = [cache EXCEPT ![p] = t]
  BY DEF Snaps!saveScrollback
<1>4. Snaps!Saved(cache[p])' = t /\ cache' \in [SavedPane -> Snaps!Texts \cup {None}]
  BY <1>1, <1>3, SavedIs DEF StoreShapes
<1> HIDE DEF t, e
<1>5. /\ calls' \in Seq(Commands) /\ Len(calls) \in Nat /\ Len(calls') = Len(calls) + 1
      /\ \A i \in 1 .. Len(calls) : calls'[i] = calls[i]
      /\ calls'[Len(calls) + 1] = e
      /\ \A i \in 1 .. Len(calls') : i \in 1 .. Len(calls) \/ i = Len(calls) + 1
  BY <1>2, <1>3, CallAppended DEF StoreShapes
<1>6. Snaps!Saved(db[p]) \in Nat /\ Snaps!Saved(cache[p]) \in Nat /\ Snaps!Saved(cache[p]) <= t
      /\ Snaps!Saved(db[p]) <= t /\ Snaps!Saved(db[p])' = Snaps!Saved(db[p])
  <2>1. Snaps!Saved(db[p]) <= Snaps!Saved(cache[p]) /\ Snaps!Saved(cache[p]) <= t
    BY DEF Line, t
  <2>2. Snaps!Saved(db[p]) \in Nat /\ Snaps!Saved(cache[p]) \in Nat
    BY <1>1, SnapFacts
  <2> QED  BY <1>1, <2>1, <2>2
<1>7. \A i \in 1 .. Len(calls) : IsSave(calls[i], p) =>
        Snaps!Saved(db[p]) <= calls[i].text /\ calls[i].text <= t
  <2>1. \A i \in 1 .. Len(calls) : IsSave(calls[i], p) => calls[i].text \in Nat
    BY SnapFacts DEF IsSave
  <2> QED  BY <1>1, <1>6, <2>1 DEF Line
<1>8. \A i \in 1 .. Len(calls') : IsSave(calls'[i], p) =>
        Snaps!Saved(db[p]) <= calls'[i].text /\ calls'[i].text <= t
  BY <1>1, <1>2, <1>5, <1>6, <1>7
<1>9. \A i, j \in 1 .. Len(calls') :
        i < j /\ IsSave(calls'[i], p) /\ IsSave(calls'[j], p) => calls'[i].text <= calls'[j].text
  <2> SUFFICES ASSUME NEW i \in 1 .. Len(calls'), NEW j \in 1 .. Len(calls'),
                      i < j, IsSave(calls'[i], p), IsSave(calls'[j], p)
               PROVE  calls'[i].text <= calls'[j].text
    OBVIOUS
  <2>1. CASE j \in 1 .. Len(calls)
    <3>1. i \in 1 .. Len(calls)
      BY <1>5, <2>1
    <3> QED  BY <1>5, <2>1, <3>1 DEF Line
  <2>2. CASE j = Len(calls) + 1
    BY <1>2, <1>5, <1>8, <2>2
  <2> QED  BY <1>5, <2>1, <2>2
<1>10. \A i \in 1 .. Len(calls') : IsSave(calls'[i], p) <=> IsSave(calls[i], p)'
  BY DEF IsSave
<1>11. (p \in Snaps!Mounted)' => session'[p].text = t
  BY DEF t
<1> QED  BY <1>1, <1>4, <1>5, <1>6, <1>8, <1>9, <1>10, <1>11 DEF Line

\* A command that does not save this pane.
LEMMA LineBeside ==
  ASSUME NEW q, Line(q), NEW e \in Commands, ~IsSave(e, q), calls \in Seq(Commands),
         calls' = Append(calls, e), db'[q] = db[q], cache'[q] = cache[q],
         (q \in Snaps!Mounted)' => q \in Snaps!Mounted /\ session'[q] = session[q]
  PROVE  Line(q)'
<1>1. /\ Len(calls) \in Nat /\ Len(calls') = Len(calls) + 1
      /\ \A i \in 1 .. Len(calls) : calls'[i] = calls[i]
      /\ calls'[Len(calls) + 1] = e
      /\ \A i \in 1 .. Len(calls') : i \in 1 .. Len(calls) \/ i = Len(calls) + 1
  BY CallAppended
<1>2. \A i \in 1 .. Len(calls') : IsSave(calls'[i], q) =>
        i \in 1 .. Len(calls) /\ IsSave(calls[i], q) /\ calls'[i] = calls[i]
  BY <1>1
<1>3. Snaps!Saved(db[q])' = Snaps!Saved(db[q]) /\ Snaps!Saved(cache[q])' = Snaps!Saved(cache[q])
  BY DEF Snaps!Saved
<1>4. \A i : IsSave(calls'[i], q) <=> IsSave(calls[i], q)'
  BY DEF IsSave
<1> QED  BY <1>2, <1>3, <1>4 DEF Line

\* What is due stays on its way.
LEMMA ComingKept ==
  ASSUME NEW p, Coming(p), due'[p] = due[p], Snaps!Saved(db[p])' = Snaps!Saved(db[p]), calls' = calls,
         due[p] \in Nat,
         p \in saving => /\ p \in saving' /\ session[p].text \in Nat /\ session'[p].text \in Nat
                         /\ session[p].text <= session'[p].text
  PROVE  Coming(p)'
BY DEF Coming, IsSave

LEMMA ComingBeside ==
  ASSUME NEW p, Coming(p), due'[p] = due[p], db'[p] = db[p], NEW e \in Commands,
         calls \in Seq(Commands), calls' = Append(calls, e),
         p \in saving => p \in saving' /\ session'[p] = session[p]
  PROVE  Coming(p)'
<1>1. \A i \in 1 .. Len(calls) : calls'[i] = calls[i] /\ i \in 1 .. Len(calls')
  BY CallAppended
<1>2. Snaps!Saved(db[p])' = Snaps!Saved(db[p])
  BY DEF Snaps!Saved
<1>3. CASE p \in saving /\ due[p] <= session[p].text
  BY <1>3 DEF Coming
<1>4. CASE due[p] <= Snaps!Saved(db[p])
  BY <1>2, <1>4 DEF Coming
<1>5. CASE \E i \in 1 .. Len(calls) : IsSave(calls[i], p) /\ due[p] <= calls[i].text
  <2>1. PICK i \in 1 .. Len(calls) : IsSave(calls[i], p) /\ due[p] <= calls[i].text
    BY <1>5
  <2>2. IsSave(calls[i], p)'
    BY <1>1, <2>1 DEF IsSave
  <2> QED  BY <1>1, <2>1, <2>2 DEF Coming
<1> QED  BY <1>3, <1>4, <1>5 DEF Coming

-----------------------------------------------------------------------------
(* The actions.                                                            *)

LEMMA PreloadKeeps ==
  ASSUME Snaps!SnapshotsAssumption, SnapInv, Snaps!preloadScrollbacks
  PROVE  SnapInv'
<1>1. /\ phase = "boot" /\ phase' = "migrating" /\ open' = open /\ session' = session
      /\ db' = db /\ legacy' = legacy /\ calls' = calls /\ saving' = saving /\ kept' = kept
      /\ due' = due
      /\ \/ cache' = db /\ failed' = failed
         \/ cache' = Snaps!Nothing /\ failed' = TRUE
  BY DEF Snaps!preloadScrollbacks
<1>2. StoreShapes'
  BY <1>1 DEF SnapInv, StoreShapes, Snaps!Mounted, Snaps!Nothing
<1>3. Room' /\ Spared' /\ Ascends'
  BY <1>1 DEF SnapInv, Room, Snaps!Mounted, Spared, Ascends, Starting
<1>4. Phased'
  BY <1>1 DEF SnapInv, Phased, Starting
<1>5. KeptStored'
  BY <1>1 DEF SnapInv, KeptStored, Snaps!Saved
<1>6. DueComes'
  BY <1>1 DEF SnapInv, StoreShapes, Phased, DueComes
<1> QED  BY <1>2, <1>3, <1>4, <1>5, <1>6 DEF SnapInv

LEMMA MigrateKeeps ==
  ASSUME Snaps!SnapshotsAssumption, SnapInv, NEW p \in SavedPane, Snaps!migrateFromLocalStorage(p)
  PROVE  SnapInv'
<1>1. /\ phase = "migrating" /\ phase' = phase /\ open' = open /\ session' = session
      /\ calls' = calls /\ saving' = saving /\ kept' = kept /\ due' = due
      /\ legacy[p] # None /\ legacy' = [legacy EXCEPT ![p] = None]
      /\ \/ cache[p] # None /\ cache' = cache /\ db' = db /\ failed' = failed
         \/ /\ cache[p] = None /\ cache' = [cache EXCEPT ![p] = legacy[p]]
            /\ \/ db' = [db EXCEPT ![p] = legacy[p]] /\ failed' = failed
               \/ db' = db /\ failed' = TRUE
  BY DEF Snaps!migrateFromLocalStorage
<1>2. legacy[p] = 1 /\ db[p] \in {None, 1} /\ legacy[p] \in Snaps!Texts
  BY <1>1, SavedIs DEF SnapInv, Phased
<1>3. StoreShapes'
  BY <1>1, <1>2 DEF SnapInv, StoreShapes, Snaps!Mounted
<1>4. Room' /\ Spared' /\ Ascends'
  BY <1>1 DEF SnapInv, Room, Snaps!Mounted, Spared, Ascends, Starting
<1>5. \A q \in SavedPane : /\ legacy'[q] = (IF q = p THEN None ELSE legacy[q])
                      /\ (db'[q] = db[q] \/ (q = p /\ db'[q] = 1))
  BY <1>1, <1>2 DEF SnapInv, StoreShapes
<1>6. Phased'
  <2>1. ~failed' => cache' = db'
    <3>1. ~failed => cache = db
      BY <1>1 DEF SnapInv, Phased
    <3> QED  BY <1>1, <3>1
  <2>2. \A q \in SavedPane : legacy'[q] # None => legacy'[q] = 1 /\ db'[q] \in {None, 1}
    BY <1>5 DEF SnapInv, Phased
  <2> QED  BY <1>1, <2>1, <2>2 DEF SnapInv, Phased, Starting
<1>7. KeptStored'
  <2> SUFFICES ASSUME ~failed', NEW q \in open
               PROVE  kept[q] <= Snaps!Larger(Snaps!Saved(db'[q]), Snaps!Saved(legacy'[q]))
    BY <1>1 DEF KeptStored, Snaps!Saved
  <2>1. ~failed /\ q \in SavedPane /\ kept[q] <= Snaps!Larger(Snaps!Saved(db[q]), Snaps!Saved(legacy[q]))
    BY <1>1 DEF SnapInv, StoreShapes, KeptStored
  <2>2. CASE q # p
    BY <1>5, <2>1, <2>2
  <2>3. CASE q = p
    <3>1. db'[p] = 1
      <4>1. cache = db
        BY <1>1, <2>1 DEF SnapInv, Phased
      <4> QED  BY <1>1, <1>2, <1>5, <4>1 DEF SnapInv, StoreShapes
    <3>2. legacy'[p] = None
      BY <1>5
    <3>3. Snaps!Saved(db'[p]) = 1 /\ Snaps!Saved(legacy'[p]) = 0 /\ Snaps!Saved(legacy[p]) = 1
          /\ Snaps!Saved(db[p]) \in {0, 1} /\ kept[p] \in Nat
      BY <1>2, <2>1, <2>3, <3>1, <3>2, SavedIs DEF SnapInv, StoreShapes
    <3> QED  BY <2>1, <2>3, <3>3 DEF Snaps!Larger
  <2> QED  BY <2>2, <2>3
<1>8. DueComes'
  BY <1>1 DEF SnapInv, StoreShapes, Phased, DueComes
<1> QED  BY <1>3, <1>4, <1>6, <1>7, <1>8 DEF SnapInv

LEMMA PruneKeeps ==
  ASSUME Snaps!SnapshotsAssumption, SnapInv, Snaps!pruneScrollback
  PROVE  SnapInv'
<1> DEFINE e == [cmd |-> "prune", live |-> open]
<1>1. /\ phase = "migrating" /\ phase' = "ready" /\ open' = open /\ session' = session
      /\ db' = db /\ legacy' = legacy /\ saving' = saving /\ kept' = kept /\ due' = due
      /\ failed' = failed /\ legacy = Snaps!Nothing
      /\ cache' = [p \in SavedPane |-> IF p \in open THEN cache[p] ELSE None]
      /\ calls' = Append(calls, e)
  BY DEF Snaps!pruneScrollback, Snaps!ghosts
<1>2. e \in Commands /\ e.cmd = "prune" /\ e.live = open
  BY DEF SnapInv, StoreShapes, Commands
<1> HIDE DEF e
<1>3. calls = <<>> /\ Len(calls) = 0 /\ calls \in Seq(Commands)
  BY <1>1 DEF SnapInv, Phased, Starting
<1>4. calls' \in Seq(Commands) /\ Len(calls') = 1 /\ calls'[1] = e
  BY <1>1, <1>2, <1>3, CallAppended
<1>5. StoreShapes'
  BY <1>1, <1>4 DEF SnapInv, StoreShapes, Snaps!Mounted
<1>6. Room' /\ Spared'
  BY <1>1, <1>2, <1>4 DEF SnapInv, Room, Snaps!Mounted, Spared
<1>7. Phased'
  BY <1>1 DEF SnapInv, Phased, Starting, Snaps!Nothing
<1>8. KeptStored' /\ DueComes'
  BY <1>1 DEF SnapInv, KeptStored, Snaps!Saved, StoreShapes, Phased, DueComes
<1>9. Ascends'
  <2> SUFFICES ASSUME ~failed', NEW p \in open PROVE Line(p)'
    BY <1>1 DEF Ascends
  <2>1. p \in SavedPane /\ session[p] = None /\ cache'[p] = db'[p]
    BY <1>1 DEF SnapInv, StoreShapes, Phased, Starting
  <2>2. Snaps!Saved(db[p])' = Snaps!Saved(cache[p])' /\ Snaps!Saved(db[p])' \in Nat
    BY <1>1, <2>1, SnapFacts DEF Snaps!Saved, SnapInv
  <2>3. \A i \in 1 .. Len(calls') : ~IsSave(calls[i], p)'
    BY <1>2, <1>4 DEF IsSave
  <2>4. ~(p \in Snaps!Mounted)'
    BY <1>1, <2>1 DEF Snaps!Mounted
  <2> QED  BY <2>2, <2>3, <2>4 DEF Line
<1> QED  BY <1>5, <1>6, <1>7, <1>8, <1>9 DEF SnapInv

\* The backend stores what the first call says.
LEMMA RunKeeps ==
  ASSUME Snaps!SnapshotsAssumption, SnapInv, Snaps!RunCommand
  PROVE  SnapInv'
<1> DEFINE c == Head(calls)
<1>1. /\ calls # <<>> /\ calls' = Tail(calls) /\ open' = open /\ session' = session
      /\ cache' = cache /\ legacy' = legacy /\ saving' = saving /\ phase' = phase
      /\ due' = due
      /\ \/ /\ db' = Snaps!Stored(c) /\ failed' = failed
            /\ kept' = IF c.cmd = "save" THEN [kept EXCEPT ![c.pane] = Snaps!Larger(@, c.text)]
                                         ELSE kept
         \/ db' = db /\ kept' = kept /\ failed' = TRUE
  BY DEF Snaps!RunCommand
<1>2. /\ calls \in Seq(Commands) /\ Len(calls) \in Nat /\ Len(calls) >= 1 /\ c = calls[1]
      /\ calls' \in Seq(Commands) /\ Len(calls') = Len(calls) - 1
      /\ \A i \in 1 .. Len(calls') : calls'[i] = calls[i + 1] /\ i + 1 \in 1 .. Len(calls)
      /\ c \in Commands
  BY <1>1 DEF SnapInv, StoreShapes
<1> HIDE DEF c
<1>3. ~Starting /\ ~Starting' /\ \A p \in SavedPane : legacy[p] = None
  BY <1>1 DEF SnapInv, Phased, Starting
<1>4. /\ db' \in [SavedPane -> Snaps!Texts \cup {None}]
      /\ kept' \in [SavedPane -> Snaps!Texts]
      /\ ~failed' => \A p \in open :
           /\ IsSave(c, p) => /\ c.text \in Snaps!Texts /\ db'[p] = c.text
                              /\ kept'[p] = Snaps!Larger(kept[p], c.text)
           /\ ~IsSave(c, p) => db'[p] = db[p] /\ kept'[p] = kept[p]
  <2>1. CASE db' = db /\ kept' = kept /\ failed' = TRUE
    BY <2>1 DEF SnapInv, StoreShapes
  <2>2. CASE /\ db' = Snaps!Stored(c) /\ failed' = failed
             /\ kept' = IF c.cmd = "save" THEN [kept EXCEPT ![c.pane] = Snaps!Larger(@, c.text)]
                                          ELSE kept
    <3>1. CASE c.cmd = "save"
      <4>1. c.pane \in SavedPane /\ c.text \in Snaps!Texts
        BY <1>2, <3>1 DEF Commands
      <4>2. db' = [db EXCEPT ![c.pane] = c.text]
        BY <2>2, <3>1 DEF Snaps!Stored
      <4>3. kept' = [kept EXCEPT ![c.pane] = Snaps!Larger(kept[c.pane], c.text)]
        BY <2>2, <3>1
      <4>4. Snaps!Larger(kept[c.pane], c.text) \in Snaps!Texts
        BY <4>1, SavedIs DEF SnapInv, StoreShapes
      <4> QED  BY <3>1, <4>1, <4>2, <4>3, <4>4 DEF SnapInv, StoreShapes, IsSave
    <3>2. CASE c.cmd = "clear"
      <4>1. c.pane \in SavedPane /\ c.pane \notin open
        BY <1>2, <3>2 DEF Commands, SnapInv, Spared
      <4>2. db' = [db EXCEPT ![c.pane] = None] /\ kept' = kept
        BY <2>2, <3>2 DEF Snaps!Stored
      <4> QED  BY <3>2, <4>1, <4>2 DEF SnapInv, StoreShapes, IsSave
    <3>3. CASE c.cmd = "prune"
      <4>1. open \subseteq c.live
        BY <1>2, <3>3 DEF SnapInv, Spared
      <4>2. db' = [p \in SavedPane |-> IF p \in c.live THEN db[p] ELSE None] /\ kept' = kept
        BY <2>2, <3>3 DEF Snaps!Stored
      <4> QED  BY <3>3, <4>1, <4>2 DEF SnapInv, StoreShapes, IsSave
    <3> QED  BY <1>2, <3>1, <3>2, <3>3 DEF Commands
  <2> QED  BY <1>1, <2>1, <2>2
<1>5. StoreShapes'
  BY <1>1, <1>2, <1>4 DEF SnapInv, StoreShapes, Snaps!Mounted
<1>6. Room' /\ Spared'
  BY <1>1, <1>2 DEF SnapInv, Room, Snaps!Mounted, Spared
<1>7. Phased'
  BY <1>1, <1>3 DEF SnapInv, Phased, Starting
<1>8. ASSUME ~failed', NEW p \in open
      PROVE  /\ p \in SavedPane /\ Line(p) /\ Snaps!Saved(db[p]) <= Snaps!Saved(db[p])'
             /\ Snaps!Saved(db[p])' <= Snaps!Saved(cache[p])
             /\ Snaps!Saved(db[p]) \in Nat /\ Snaps!Saved(db[p])' \in Nat /\ Snaps!Saved(cache[p]) \in Nat
             /\ IsSave(c, p) => Snaps!Saved(db[p])' = c.text /\ c.text \in Nat
             /\ ~IsSave(c, p) => Snaps!Saved(db[p])' = Snaps!Saved(db[p])
  <2>1. ~failed /\ p \in SavedPane /\ Line(p)
    BY <1>1, <1>3, <1>8 DEF SnapInv, StoreShapes, Ascends
  <2>2. Snaps!Saved(db[p]) \in Nat /\ Snaps!Saved(cache[p]) \in Nat
    BY <2>1, SnapFacts DEF SnapInv
  <2>3. IsSave(c, p) => /\ Snaps!Saved(db[p])' = c.text /\ c.text \in Nat /\ Snaps!Saved(db[p]) <= c.text
                        /\ c.text <= Snaps!Saved(cache[p])
    <3>1. IsSave(c, p) => db'[p] = c.text /\ c.text \in Snaps!Texts
      BY <1>4, <1>8
    <3>2. IsSave(c, p) => Snaps!Saved(db[p]) <= c.text /\ c.text <= Snaps!Saved(cache[p])
      BY <1>2, <2>1 DEF Line
    <3> QED  BY <3>1, <3>2, SavedIs
  <2>4. ~IsSave(c, p) => Snaps!Saved(db[p])' = Snaps!Saved(db[p])
    BY <1>4, <1>8 DEF Snaps!Saved
  <2>5. Snaps!Saved(db[p]) <= Snaps!Saved(cache[p])
    BY <2>1 DEF Line
  <2> QED  BY <2>1, <2>2, <2>3, <2>4, <2>5
<1>9. Ascends'
  <2> SUFFICES ASSUME ~failed', NEW p \in open PROVE Line(p)'
    BY <1>1 DEF Ascends
  <2>1. \A i \in 1 .. Len(calls') : IsSave(calls[i], p)' =>
          /\ i + 1 \in 1 .. Len(calls) /\ IsSave(calls[i + 1], p) /\ calls'[i] = calls[i + 1]
    BY <1>2 DEF IsSave
  <2>2. \A i \in 1 .. Len(calls') : IsSave(calls[i], p)' =>
          Snaps!Saved(db[p])' <= calls'[i].text /\ calls'[i].text <= Snaps!Saved(cache[p])
    <3> SUFFICES ASSUME NEW i \in 1 .. Len(calls'), IsSave(calls[i], p)'
                 PROVE  Snaps!Saved(db[p])' <= calls'[i].text /\ calls'[i].text <= Snaps!Saved(cache[p])
      OBVIOUS
    <3>1. /\ Snaps!Saved(db[p]) <= calls'[i].text /\ calls'[i].text <= Snaps!Saved(cache[p])
      BY <1>8, <2>1 DEF Line
    <3>2. CASE IsSave(c, p)
      <4>1. 1 \in 1 .. Len(calls) /\ 1 < i + 1
        BY <1>2
      <4>2. IsSave(calls[1], p)
        BY <1>2, <3>2
      <4>3. calls[1].text <= calls[i + 1].text
        BY <1>8, <2>1, <4>1, <4>2 DEF Line
      <4> QED  BY <1>2, <1>8, <2>1, <3>1, <3>2, <4>3
    <3> QED  BY <1>8, <3>1, <3>2
  <2>3. ASSUME NEW i \in 1 .. Len(calls'), NEW j \in 1 .. Len(calls'),
               i < j, IsSave(calls[i], p)', IsSave(calls[j], p)'
        PROVE  calls'[i].text <= calls'[j].text
    <3>1. i + 1 < j + 1
      BY <1>2, <2>3
    <3> QED  BY <1>8, <2>1, <2>3, <3>1 DEF Line
  <2>4. Snaps!Saved(cache[p])' = Snaps!Saved(cache[p]) /\ ((p \in Snaps!Mounted)' <=> p \in Snaps!Mounted)
    BY <1>1 DEF Snaps!Saved, Snaps!Mounted
  <2>5. p \in Snaps!Mounted => Snaps!Saved(cache[p]) <= session[p].text
    BY <1>8 DEF Line
  <2> QED  BY <1>1, <1>8, <2>2, <2>3, <2>4, <2>5 DEF Line
<1>10. KeptStored'
  <2> SUFFICES ASSUME ~failed', NEW p \in open
               PROVE  kept'[p] <= Snaps!Larger(Snaps!Saved(db[p]), Snaps!Saved(legacy[p]))'
    BY <1>1 DEF KeptStored
  <2>1. kept[p] <= Snaps!Larger(Snaps!Saved(db[p]), Snaps!Saved(legacy[p]))
    BY <1>1 DEF SnapInv, KeptStored
  <2>2. Snaps!Saved(legacy[p]) = 0 /\ Snaps!Saved(legacy[p])' = 0 /\ kept[p] \in Nat
    BY <1>1, <1>3, <1>8, SavedIs, SnapFacts DEF Snaps!Saved, SnapInv
  <2>3. kept[p] <= Snaps!Saved(db[p])
    BY <1>8, <2>1, <2>2 DEF Snaps!Larger
  <2>4. kept'[p] <= Snaps!Saved(db[p])'
    <3>1. CASE IsSave(c, p)
      BY <1>4, <1>8, <2>2, <2>3, <3>1 DEF Snaps!Larger
    <3>2. CASE ~IsSave(c, p)
      BY <1>4, <1>8, <2>3, <3>2
    <3> QED  BY <3>1, <3>2
  <2>5. Snaps!Larger(Snaps!Saved(db[p]), Snaps!Saved(legacy[p]))' = Snaps!Saved(db[p])'
    BY <1>8, <2>2 DEF Snaps!Larger
  <2> QED  BY <2>4, <2>5
<1>11. DueComes'
  <2> SUFFICES ASSUME ~failed', NEW p \in open, due[p] # None PROVE Coming(p)'
    BY <1>1 DEF DueComes
  <2>1. Coming(p) /\ due[p] \in Nat
    BY <1>1, <1>8, SnapFacts DEF SnapInv, DueComes
  <2>2. CASE p \in saving /\ due[p] <= session[p].text
    BY <1>1, <2>2 DEF Coming
  <2>3. CASE due[p] <= Snaps!Saved(db[p])
    BY <1>1, <1>8, <2>1, <2>3 DEF Coming
  <2>4. CASE \E i \in 1 .. Len(calls) : IsSave(calls[i], p) /\ due[p] <= calls[i].text
    <3>1. PICK i \in 1 .. Len(calls) : IsSave(calls[i], p) /\ due[p] <= calls[i].text
      BY <2>4
    <3>2. CASE i = 1
      BY <1>1, <1>2, <1>8, <3>1, <3>2 DEF Coming
    <3>3. CASE i # 1
      <4>1. i - 1 \in 1 .. Len(calls') /\ calls'[i - 1] = calls[i]
        BY <1>2, <3>3
      <4> DEFINE k == i - 1
      <4>2. k \in 1 .. Len(calls') /\ IsSave(calls[k], p)' /\ due'[p] <= calls'[k].text
        BY <1>1, <3>1, <4>1 DEF IsSave
      <4> HIDE DEF k
      <4> QED  BY <4>2 DEF Coming
    <3> QED  BY <3>2, <3>3
  <2> QED  BY <2>1, <2>2, <2>3, <2>4 DEF Coming
<1> QED  BY <1>5, <1>6, <1>7, <1>9, <1>10, <1>11 DEF SnapInv

\* A terminal opens, works or is to be saved; nothing is stored or sent.
LEMMA TerminalKeeps ==
  ASSUME Snaps!SnapshotsAssumption, SnapInv, NEW p \in SavedPane,
         Snaps!getOrCreateSession(p) \/ Snaps!Output(p) \/ Snaps!Parsed(p)
  PROVE  SnapInv'
<1>1. /\ open' = open /\ cache' = cache /\ db' = db /\ legacy' = legacy /\ calls' = calls
      /\ saving' = saving /\ phase' = phase /\ kept' = kept /\ due' = due
      /\ failed' = failed /\ phase \in {"ready", "closing"}
  BY DEF Snaps!getOrCreateSession, Snaps!Output, Snaps!Parsed, Snaps!ghosts, Snaps!Running
<1>2. ~Starting /\ ~Starting'
  BY <1>1 DEF Starting
<1>3. /\ p \in open
      /\ \E x \in Sessions :
           /\ session' = [session EXCEPT ![p] = x]
           /\ x.busy => x.text < MaxTexts
           /\ \/ p \in Snaps!Mounted /\ session[p].text \in Nat /\ x.text \in Nat
                 /\ session[p].text <= x.text
              \/ p \notin Snaps!Mounted /\ x.text = Snaps!Saved(cache[p])
  <2>1. CASE Snaps!getOrCreateSession(p)
    <3> DEFINE x == [text |-> Snaps!Saved(cache[p]), busy |-> FALSE]
    <3>1. Snaps!Saved(cache[p]) \in Snaps!Texts
      BY SavedIs DEF SnapInv, StoreShapes
    <3>2. x \in Sessions /\ ~x.busy /\ x.text = Snaps!Saved(cache[p])
      BY <3>1 DEF Sessions
    <3>3. p \in open /\ p \notin Snaps!Mounted /\ session' = [session EXCEPT ![p] = x]
      BY <2>1 DEF Snaps!getOrCreateSession
    <3> HIDE DEF x
    <3> QED  BY <3>2, <3>3
  <2>2. CASE Snaps!Output(p)
    <3> DEFINE x == [session[p] EXCEPT !.busy = TRUE]
    <3>1. /\ p \in Snaps!Mounted /\ session[p].text < MaxTexts
          /\ session' = [session EXCEPT ![p] = x]
      BY <2>2 DEF Snaps!Output
    <3>2. /\ session[p] \in Sessions /\ p \in open
          /\ session[p].text \in Snaps!Texts /\ Snaps!Texts \subseteq Nat
      BY <3>1, SnapFacts DEF SnapInv
    <3>3. x \in Sessions /\ x.text = session[p].text
      BY <3>2 DEF Sessions
    <3> HIDE DEF x
    <3>4. session[p].text \in Nat /\ x.text \in Nat /\ session[p].text <= x.text
      <4>1. \A n \in Nat : n <= n
        OBVIOUS
      <4>2. x.text = session[p].text /\ session[p].text \in Nat
        BY <3>2, <3>3
      <4> QED  BY <4>1, <4>2
    <3>5. x.text < MaxTexts
      <4>1. x.text = session[p].text /\ session[p].text < MaxTexts
        BY <3>1, <3>3
      <4> QED  BY <4>1
    <3> QED  BY <3>1, <3>2, <3>3, <3>4, <3>5
  <2>3. CASE Snaps!Parsed(p)
    <3> DEFINE x == [text |-> session[p].text + 1, busy |-> FALSE]
    <3>1. /\ p \in Snaps!Mounted /\ session[p].busy /\ session' = [session EXCEPT ![p] = x]
      BY <2>3 DEF Snaps!Parsed
    <3>2. /\ session[p] \in Sessions /\ p \in open /\ session[p].text < MaxTexts
          /\ session[p].text \in Snaps!Texts
      BY <3>1, SnapFacts DEF SnapInv, Room
    <3>3. session[p].text \in Nat /\ session[p].text + 1 \in Snaps!Texts
          /\ session[p].text + 1 \in Nat
      BY <3>2 DEF Snaps!Texts, Snaps!SnapshotsAssumption
    <3>4. x \in Sessions /\ x.text = session[p].text + 1 /\ ~x.busy
      BY <3>3 DEF Sessions
    <3> HIDE DEF x
    <3>5. session[p].text \in Nat /\ x.text \in Nat /\ session[p].text <= x.text
      BY <3>3, <3>4
    <3> QED  BY <3>1, <3>2, <3>4, <3>5
  <2> QED  BY <2>1, <2>2, <2>3
<1>4. PICK x \in Sessions :
        /\ session' = [session EXCEPT ![p] = x]
        /\ x.busy => x.text < MaxTexts
        /\ \/ p \in Snaps!Mounted /\ session[p].text \in Nat /\ x.text \in Nat
              /\ session[p].text <= x.text
           \/ p \notin Snaps!Mounted /\ x.text = Snaps!Saved(cache[p])
  BY <1>3
<1>5. /\ session' \in [SavedPane -> Sessions \cup {None}] /\ session'[p] = x /\ x # None
      /\ \A q \in SavedPane : q # p => session'[q] = session[q]
  BY <1>4, SavedIs DEF SnapInv, StoreShapes
<1>6. Snaps!Mounted' = Snaps!Mounted \cup {p}
  BY <1>5 DEF Snaps!Mounted
<1>7. StoreShapes'
  BY <1>1, <1>3, <1>5, <1>6 DEF SnapInv, StoreShapes
<1>8. Room'
  BY <1>4, <1>5, <1>6 DEF SnapInv, Room, Snaps!Mounted
<1>9. Phased' /\ Spared'
  BY <1>1, <1>2 DEF SnapInv, Phased, Spared, Starting
<1>10. KeptStored'
  BY <1>1 DEF SnapInv, KeptStored, Snaps!Saved
<1>11. Ascends'
  <2> SUFFICES ASSUME ~failed', NEW q \in open PROVE Line(q)'
    BY <1>1 DEF Ascends
  <2>1. q \in SavedPane /\ Line(q) /\ Snaps!Saved(cache[q]) \in Nat
        /\ Snaps!Saved(db[q])' = Snaps!Saved(db[q]) /\ Snaps!Saved(cache[q])' = Snaps!Saved(cache[q])
    BY <1>1, <1>2, SnapFacts DEF SnapInv, StoreShapes, Ascends, Snaps!Saved
  <2>2. q \in Snaps!Mounted /\ q # p => /\ session[q].text \in Nat /\ session'[q].text \in Nat
                                 /\ session[q].text <= session'[q].text
    BY <1>5, <2>1, SnapFacts DEF SnapInv
  <2> QED  BY <1>1, <1>4, <1>5, <1>6, <2>1, <2>2, LineKept
<1>12. DueComes'
  <2> SUFFICES ASSUME ~failed', NEW q \in open, due[q] # None PROVE Coming(q)'
    BY <1>1 DEF DueComes
  <2>1. q \in SavedPane /\ Coming(q) /\ due[q] \in Nat /\ Snaps!Saved(db[q])' = Snaps!Saved(db[q])
    BY <1>1, SnapFacts DEF SnapInv, StoreShapes, DueComes, Snaps!Saved
  <2>2. q \in saving => /\ session[q].text \in Nat /\ session'[q].text \in Nat
                        /\ session[q].text <= session'[q].text
    <3>1. saving \subseteq Snaps!Mounted
      BY DEF SnapInv, StoreShapes
    <3>2. q \in Snaps!Mounted => session[q].text \in Nat
      BY SnapFacts DEF SnapInv
    <3>3. CASE q = p
      BY <1>4, <1>5, <3>1, <3>3
    <3>4. CASE q # p
      BY <1>5, <2>1, <3>1, <3>2, <3>4
    <3> QED  BY <3>3, <3>4
  <2> QED  BY <1>1, <2>1, <2>2, ComingKept
<1> QED  BY <1>7, <1>8, <1>9, <1>10, <1>11, <1>12 DEF SnapInv

LEMMA AutosaveKeeps ==
  ASSUME Snaps!SnapshotsAssumption, SnapInv, Snaps!persistAllSessions \/ \E p \in SavedPane : Snaps!detachSession(p)
  PROVE  SnapInv'
<1>1. /\ open' = open /\ cache' = cache /\ db' = db /\ legacy' = legacy /\ calls' = calls
      /\ session' = session /\ phase' = phase /\ kept' = kept /\ due' = due
      /\ failed' = failed /\ phase = "ready" /\ saving' \subseteq Snaps!Mounted
  <2>1. saving \subseteq Snaps!Mounted
    BY DEF SnapInv, StoreShapes
  <2> QED  BY <2>1 DEF Snaps!persistAllSessions, Snaps!detachSession, Snaps!ghosts
<1>2. ~Starting /\ ~Starting'
  BY <1>1 DEF Starting
<1>3. Snaps!Mounted' = Snaps!Mounted
  BY <1>1 DEF Snaps!Mounted
<1>4. StoreShapes' /\ Room'
  BY <1>1, <1>3 DEF SnapInv, StoreShapes, Room
<1>5. Phased' /\ Spared'
  BY <1>1, <1>2 DEF SnapInv, Phased, Spared, Starting
<1>6. KeptStored'
  BY <1>1 DEF SnapInv, KeptStored, Snaps!Saved
<1>7. Ascends'
  <2> SUFFICES ASSUME ~failed', NEW q \in open PROVE Line(q)'
    BY <1>1 DEF Ascends
  <2>1. Line(q)
    BY <1>1, <1>2 DEF SnapInv, Ascends
  <2> QED  BY <1>1, <1>3, <2>1 DEF Line, Snaps!Saved, IsSave
<1>8. DueComes'
  BY <1>1 DEF SnapInv, StoreShapes, Phased, DueComes
<1> QED  BY <1>4, <1>5, <1>6, <1>7, <1>8 DEF SnapInv

LEMMA PersistKeeps ==
  ASSUME Snaps!SnapshotsAssumption, SnapInv, NEW p \in SavedPane, Snaps!persist(p)
  PROVE  SnapInv'
<1>1. /\ open' = open /\ db' = db /\ legacy' = legacy /\ session' = session
      /\ phase' = phase /\ kept' = kept /\ failed' = failed /\ phase \in {"ready", "closing"}
      /\ p \in saving /\ saving' = saving \ {p}
      /\ \/ /\ session[p].busy /\ due' = [due EXCEPT ![p] = None]
            /\ cache' = cache /\ calls' = calls
         \/ Snaps!saveScrollback(p) /\ due' = due
  BY DEF Snaps!persist, Snaps!Running
<1>2. p \in Snaps!Mounted /\ Snaps!Mounted' = Snaps!Mounted /\ ~Starting /\ ~Starting'
  BY <1>1 DEF SnapInv, StoreShapes, Starting, Snaps!Mounted
<1>3. Room' /\ KeptStored'
  BY <1>1, <1>2 DEF SnapInv, Room, KeptStored, Snaps!Saved
<1>4. CASE /\ due' = [due EXCEPT ![p] = None] /\ cache' = cache /\ calls' = calls
  <2>1. StoreShapes'
    BY <1>1, <1>2, <1>4 DEF SnapInv, StoreShapes
  <2>2. \A q \in SavedPane : due'[q] = IF q = p THEN None ELSE due[q]
    BY <1>4 DEF SnapInv, StoreShapes
  <2>3. Phased' /\ Spared'
    BY <1>1, <1>2, <1>4, <2>2 DEF SnapInv, Phased, Spared, Starting
  <2>4. Ascends'
    <3> SUFFICES ASSUME ~failed', NEW q \in open PROVE Line(q)'
      BY <1>1 DEF Ascends
    <3>1. Line(q)
      BY <1>1, <1>2 DEF SnapInv, Ascends
    <3> QED  BY <1>1, <1>2, <1>4, <3>1 DEF Line, Snaps!Saved, IsSave
  <2>5. DueComes'
    <3> SUFFICES ASSUME ~failed', NEW q \in open, due'[q] # None PROVE Coming(q)'
      BY <1>1 DEF DueComes
    <3>1. q # p /\ due'[q] = due[q] /\ Coming(q) /\ due[q] \in Nat /\ q \in SavedPane
      BY <1>1, <2>2, SnapFacts DEF SnapInv, StoreShapes, DueComes
    <3>2. Snaps!Saved(db[q])' = Snaps!Saved(db[q])
      BY <1>1 DEF Snaps!Saved
    <3>3. q \in saving => /\ q \in saving' /\ session[q].text \in Nat
                          /\ session'[q].text \in Nat /\ session[q].text <= session'[q].text
      BY <1>1, <3>1, SnapFacts DEF SnapInv, StoreShapes
    <3> QED  BY <1>4, <3>1, <3>2, <3>3, ComingKept
  <2> QED  BY <1>3, <2>1, <2>3, <2>4, <2>5 DEF SnapInv
<1>5. CASE Snaps!saveScrollback(p) /\ due' = due
  <2> DEFINE e == [cmd |-> "save", pane |-> p, text |-> session[p].text]
  <2>1. /\ calls' = Append(calls, e) /\ cache' = [cache EXCEPT ![p] = session[p].text]
    BY <1>5 DEF Snaps!saveScrollback
  <2>2. session[p].text \in Snaps!Texts /\ session[p].text \in Nat
    BY <1>2, SnapFacts DEF SnapInv
  <2>3. e \in Commands /\ e.cmd = "save" /\ e.pane = p /\ e.text = session[p].text
    BY <2>2 DEF Commands
  <2> HIDE DEF e
  <2>4. /\ calls \in Seq(Commands) /\ calls' \in Seq(Commands) /\ Len(calls) \in Nat
        /\ Len(calls') = Len(calls) + 1
        /\ \A i \in 1 .. Len(calls) : calls'[i] = calls[i]
        /\ calls'[Len(calls) + 1] = e /\ Len(calls) + 1 \in 1 .. Len(calls')
        /\ \A i \in 1 .. Len(calls') : i \in 1 .. Len(calls) \/ i = Len(calls) + 1
    BY <2>1, <2>3, CallAppended DEF SnapInv, StoreShapes
  <2>5. cache' \in [SavedPane -> Snaps!Texts \cup {None}] /\ \A q \in SavedPane : q # p => cache'[q] = cache[q]
    BY <2>1, <2>2 DEF SnapInv, StoreShapes
  <2>6. StoreShapes'
    BY <1>1, <1>2, <1>5, <2>4, <2>5 DEF SnapInv, StoreShapes
  <2>7. Phased'
    BY <1>1, <1>2, <1>5 DEF SnapInv, Phased, Starting
  <2>8. Spared'
    BY <1>1, <2>3, <2>4 DEF SnapInv, Spared
  <2>9. Ascends'
    <3> SUFFICES ASSUME ~failed', NEW q \in open PROVE Line(q)'
      BY <1>1 DEF Ascends
    <3>1. q \in SavedPane /\ Line(q)
      BY <1>1, <1>2 DEF SnapInv, StoreShapes, Ascends
    <3>2. CASE q = p
      BY <1>1, <1>2, <1>5, <3>1, <3>2, LineSaves DEF SnapInv
    <3>3. CASE q # p
      BY <1>1, <1>2, <2>1, <2>3, <2>4, <2>5, <3>1, <3>3, LineBeside DEF IsSave
    <3> QED  BY <3>2, <3>3
  <2>10. DueComes'
    <3> SUFFICES ASSUME ~failed', NEW q \in open, due[q] # None PROVE Coming(q)'
      BY <1>1, <1>5 DEF DueComes
    <3>1. Coming(q)
      BY <1>1 DEF SnapInv, DueComes
    <3>2. CASE q = p /\ due[p] <= session[p].text
      <4>1. PICK k \in 1 .. Len(calls') : k = Len(calls) + 1
        BY <2>4
      <4>2. calls'[k] = e
        BY <2>4, <4>1
      <4>3. IsSave(calls[k], p)' /\ due'[p] <= calls'[k].text
        BY <1>5, <2>3, <3>2, <4>2 DEF IsSave
      <4> QED  BY <3>2, <4>1, <4>3 DEF Coming
    <3>3. CASE q = p /\ ~(due[p] <= session[p].text)
      <4>1. CASE due[p] <= Snaps!Saved(db[p])
        BY <1>1, <1>5, <3>3, <4>1 DEF Coming, Snaps!Saved
      <4>2. CASE \E i \in 1 .. Len(calls) : IsSave(calls[i], p) /\ due[p] <= calls[i].text
        <5>1. PICK i \in 1 .. Len(calls) : IsSave(calls[i], p) /\ due[p] <= calls[i].text
          BY <4>2
        <5>2. i \in 1 .. Len(calls') /\ IsSave(calls[i], p)' /\ due'[p] <= calls'[i].text
          BY <1>5, <2>4, <5>1 DEF IsSave
        <5> QED  BY <3>3, <5>2 DEF Coming
      <4> QED  BY <3>1, <3>3, <4>1, <4>2 DEF Coming
    <3>4. CASE q # p
      BY <1>1, <1>5, <2>1, <2>3, <2>4, <3>1, <3>4, ComingBeside
    <3> QED  BY <3>2, <3>3, <3>4
  <2> QED  BY <1>3, <2>6, <2>7, <2>8, <2>9, <2>10 DEF SnapInv
<1> QED  BY <1>1, <1>4, <1>5

\* A terminal leaves without its pane: what it showed is saved at once.
LEMMA UnloadKeeps ==
  ASSUME Snaps!SnapshotsAssumption, SnapInv, NEW p \in SavedPane, Snaps!unloadSession(p)
  PROVE  SnapInv'
<1> DEFINE e == [cmd |-> "save", pane |-> p, text |-> session[p].text]
<1>1. /\ open' = open /\ db' = db /\ legacy' = legacy /\ phase' = phase /\ kept' = kept
      /\ due' = due /\ failed' = failed /\ phase = "ready" /\ p \in Snaps!Mounted
      /\ saving' = saving \ {p} /\ session' = [session EXCEPT ![p] = None]
      /\ Snaps!saveScrollback(p)
      /\ calls' = Append(calls, e) /\ cache' = [cache EXCEPT ![p] = session[p].text]
  BY DEF Snaps!unloadSession, Snaps!saveScrollback, Snaps!ghosts
<1>2. session[p].text \in Snaps!Texts
  BY <1>1, SnapFacts DEF SnapInv
<1>3. e \in Commands /\ e.cmd = "save" /\ e.pane = p
  BY <1>2 DEF Commands
<1> HIDE DEF e
<1>4. /\ calls \in Seq(Commands) /\ calls' \in Seq(Commands) /\ Len(calls) \in Nat
      /\ \A i \in 1 .. Len(calls) : calls'[i] = calls[i]
      /\ calls'[Len(calls) + 1] = e
      /\ \A i \in 1 .. Len(calls') : i \in 1 .. Len(calls) \/ i = Len(calls) + 1
  BY <1>1, <1>3, CallAppended DEF SnapInv, StoreShapes
<1>5. /\ cache' \in [SavedPane -> Snaps!Texts \cup {None}]
      /\ session' \in [SavedPane -> Sessions \cup {None}] /\ session'[p] = None
      /\ \A q \in SavedPane : q # p => cache'[q] = cache[q] /\ session'[q] = session[q]
  BY <1>1, <1>2 DEF SnapInv, StoreShapes
<1>6. Snaps!Mounted' = Snaps!Mounted \ {p} /\ ~Starting /\ ~Starting'
  BY <1>1, <1>5 DEF Snaps!Mounted, Starting
<1>7. StoreShapes'
  BY <1>1, <1>4, <1>5, <1>6 DEF SnapInv, StoreShapes
<1>8. Room'
  BY <1>5, <1>6 DEF SnapInv, Room, Snaps!Mounted
<1>9. Phased' /\ KeptStored' /\ DueComes'
  BY <1>1, <1>6 DEF SnapInv, StoreShapes, Phased, Starting, KeptStored, DueComes,
     Snaps!Saved
<1>10. Spared'
  BY <1>1, <1>3, <1>4 DEF SnapInv, Spared
<1>11. Ascends'
  <2> SUFFICES ASSUME ~failed', NEW q \in open PROVE Line(q)'
    BY <1>1 DEF Ascends
  <2>1. q \in SavedPane /\ Line(q)
    BY <1>1, <1>6 DEF SnapInv, StoreShapes, Ascends
  <2>2. CASE q = p
    BY <1>1, <1>6, <2>1, <2>2, LineSaves DEF SnapInv
  <2>3. CASE q # p
    BY <1>1, <1>3, <1>4, <1>5, <1>6, <2>1, <2>3, LineBeside DEF IsSave
  <2> QED  BY <2>2, <2>3
<1> QED  BY <1>7, <1>8, <1>9, <1>10, <1>11 DEF SnapInv

\* A pane that is closed takes its row along; only panes that are open count.
LEMMA DisposeKeeps ==
  ASSUME Snaps!SnapshotsAssumption, SnapInv, NEW p \in SavedPane, Snaps!disposeSession(p)
  PROVE  SnapInv'
<1> DEFINE e == [cmd |-> "clear", pane |-> p]
<1>1. /\ db' = db /\ legacy' = legacy /\ phase' = phase /\ kept' = kept
      /\ due' = due /\ failed' = failed /\ phase = "ready" /\ p \in open
      /\ saving' = saving \ {p} /\ open' = open \ {p}
      /\ \/ /\ p \notin Snaps!Mounted
            /\ session' = session /\ cache' = cache /\ calls' = calls
         \/ /\ session' = [session EXCEPT ![p] = None]
            /\ cache' = [cache EXCEPT ![p] = None]
            /\ calls' = Append(calls, e)
  BY DEF Snaps!disposeSession, Snaps!ghosts
<1>2. e \in Commands /\ e.cmd = "clear" /\ e.pane = p /\ e.cmd # "save"
  BY DEF Commands
<1> HIDE DEF e
<1>3. calls \in Seq(Commands)
  BY DEF SnapInv, StoreShapes
<1>4. /\ calls' \in Seq(Commands)
      /\ calls' = Append(calls, e) =>
           /\ Len(calls) \in Nat
           /\ \A i \in 1 .. Len(calls) : calls'[i] = calls[i]
           /\ calls'[Len(calls) + 1] = e
           /\ \A i \in 1 .. Len(calls') : i \in 1 .. Len(calls) \/ i = Len(calls) + 1
  <2>1. CASE calls' = Append(calls, e)
    BY <1>2, <1>3, <2>1, CallAppended
  <2>2. CASE calls' = calls /\ ~(calls' = Append(calls, e))
    BY <1>3, <2>2
  <2> QED  BY <1>1, <2>1, <2>2
<1>5. /\ cache' \in [SavedPane -> Snaps!Texts \cup {None}]
      /\ session' \in [SavedPane -> Sessions \cup {None}]
      /\ session'[p] = None
      /\ \A q \in SavedPane : q # p => cache'[q] = cache[q] /\ session'[q] = session[q]
  BY <1>1 DEF SnapInv, StoreShapes, Snaps!Mounted
<1>6. Snaps!Mounted' = Snaps!Mounted \ {p} /\ ~Starting /\ ~Starting'
  BY <1>1, <1>5 DEF Snaps!Mounted, Starting
<1>7. StoreShapes'
  BY <1>1, <1>4, <1>5, <1>6 DEF SnapInv, StoreShapes
<1>8. Room'
  BY <1>5, <1>6 DEF SnapInv, Room, Snaps!Mounted
<1>9. Phased' /\ KeptStored' /\ DueComes'
  BY <1>1, <1>6 DEF SnapInv, StoreShapes, Phased, Starting, KeptStored, DueComes,
     Snaps!Saved
<1>10. Spared'
  <2>1. CASE calls' = calls
    BY <1>1, <2>1 DEF SnapInv, Spared
  <2>2. CASE calls' = Append(calls, e)
    BY <1>1, <1>2, <1>4, <2>2 DEF SnapInv, Spared
  <2> QED  BY <1>1, <2>1, <2>2
<1>11. Ascends'
  <2> SUFFICES ASSUME ~failed', NEW q \in open, q # p PROVE Line(q)'
    BY <1>1 DEF Ascends
  <2>1. q \in SavedPane /\ Line(q)
    BY <1>1, <1>6 DEF SnapInv, StoreShapes, Ascends
  <2>2. CASE calls' = calls
    <3>1. /\ Snaps!Saved(db[q])' = Snaps!Saved(db[q]) /\ Snaps!Saved(cache[q])' = Snaps!Saved(cache[q])
          /\ (q \in Snaps!Mounted)' => q \in Snaps!Mounted /\ session'[q] = session[q]
      BY <1>1, <1>5, <1>6, <2>1 DEF Snaps!Saved
    <3> QED  BY <2>1, <2>2, <3>1 DEF Line, IsSave
  <2>3. CASE calls' = Append(calls, e)
    <3>1. /\ db'[q] = db[q] /\ cache'[q] = cache[q] /\ ~IsSave(e, q)
          /\ (q \in Snaps!Mounted)' => q \in Snaps!Mounted /\ session'[q] = session[q]
      BY <1>1, <1>2, <1>5, <1>6, <2>1 DEF IsSave
    <3> QED  BY <1>2, <1>3, <2>1, <2>3, <3>1, LineBeside
  <2> QED  BY <1>1, <2>2, <2>3
<1> QED  BY <1>7, <1>8, <1>9, <1>10, <1>11 DEF SnapInv

\* The window is asked to close, and goes once every terminal was saved.
LEMMA WindowCloseKeeps ==
  ASSUME Snaps!SnapshotsAssumption, SnapInv, Snaps!CloseRequested
  PROVE  SnapInv'
<1>1. /\ open' = open /\ cache' = cache /\ db' = db /\ legacy' = legacy /\ calls' = calls
      /\ session' = session /\ kept' = kept /\ failed' = failed
      /\ phase = "ready" /\ phase' = "closing" /\ saving' = Snaps!Mounted
      /\ due' = [q \in SavedPane |-> IF q \in Snaps!Mounted /\ ~session[q].busy
                                THEN session[q].text ELSE None]
  BY DEF Snaps!CloseRequested
<1>2. ~Starting /\ ~Starting' /\ Snaps!Mounted' = Snaps!Mounted
  BY <1>1 DEF Starting, Snaps!Mounted
<1>3. due' \in [SavedPane -> Snaps!Texts \cup {None}]
  <2>1. \A q \in Snaps!Mounted : session[q].text \in Snaps!Texts
    BY SnapFacts DEF SnapInv
  <2> QED  BY <1>1, <2>1
<1>4. StoreShapes' /\ Room'
  BY <1>1, <1>2, <1>3 DEF SnapInv, StoreShapes, Room
<1>5. Phased' /\ Spared' /\ KeptStored'
  BY <1>1, <1>2 DEF SnapInv, Phased, Spared, Starting, KeptStored, Snaps!Saved
<1>6. Ascends'
  <2> SUFFICES ASSUME ~failed', NEW q \in open PROVE Line(q)'
    BY <1>1 DEF Ascends
  <2>1. Line(q)
    BY <1>1, <1>2 DEF SnapInv, Ascends
  <2> QED  BY <1>1, <1>2, <2>1 DEF Line, Snaps!Saved, IsSave
<1>7. DueComes'
  <2> SUFFICES ASSUME NEW q \in open, due'[q] # None PROVE Coming(q)'
    BY <1>1 DEF DueComes
  <2>1. q \in Snaps!Mounted /\ due'[q] = session[q].text
    BY <1>1 DEF SnapInv, StoreShapes
  <2>2. session[q].text \in Nat
    BY <2>1, SnapFacts DEF SnapInv
  <2>3. \A n \in Nat : n <= n
    OBVIOUS
  <2> QED  BY <1>1, <2>1, <2>2, <2>3 DEF Coming
<1> QED  BY <1>4, <1>5, <1>6, <1>7 DEF SnapInv

LEMMA DestroyKeeps ==
  ASSUME Snaps!SnapshotsAssumption, SnapInv, Snaps!Destroy
  PROVE  SnapInv'
<1>1. /\ open' = open /\ cache' = cache /\ db' = db /\ legacy' = legacy /\ calls' = calls
      /\ session' = session /\ kept' = kept /\ due' = due /\ failed' = failed
      /\ phase = "closing" /\ phase' = "destroying" /\ saving' = saving /\ saving = {}
  BY DEF Snaps!Destroy, Snaps!ghosts
<1>2. ~Starting /\ ~Starting' /\ Snaps!Mounted' = Snaps!Mounted
  BY <1>1 DEF Starting, Snaps!Mounted
<1>3. StoreShapes' /\ Room'
  BY <1>1, <1>2 DEF SnapInv, StoreShapes, Room
<1>4. Phased' /\ Spared' /\ KeptStored'
  BY <1>1, <1>2 DEF SnapInv, Phased, Spared, Starting, KeptStored, Snaps!Saved
<1>5. Ascends'
  <2> SUFFICES ASSUME ~failed', NEW q \in open PROVE Line(q)'
    BY <1>1 DEF Ascends
  <2>1. Line(q)
    BY <1>1, <1>2 DEF SnapInv, Ascends
  <2> QED  BY <1>1, <1>2, <2>1 DEF Line, Snaps!Saved, IsSave
<1>6. DueComes'
  BY <1>1 DEF SnapInv, DueComes, Coming, Snaps!Saved, IsSave
<1> QED  BY <1>3, <1>4, <1>5, <1>6 DEF SnapInv

\* The window is gone: what was due is stored by then, unless a command failed.
LEMMA EndedKeeps ==
  ASSUME Snaps!SnapshotsAssumption, SnapInv, Snaps!Destroyed \/ Snaps!Crash
  PROVE  SnapInv'
<1>1. /\ open' = open /\ db' = db /\ legacy' = legacy /\ failed' = failed
      /\ phase' = "boot" /\ phase # "boot"
      /\ session' = Snaps!Nothing /\ cache' = Snaps!Nothing /\ due' = Snaps!Nothing
      /\ calls' = <<>> /\ saving' = {}
      /\ \/ kept' = kept
         \/ /\ phase = "destroying" /\ calls = <<>>
            /\ kept' = [p \in SavedPane |-> Snaps!Larger(kept[p], Snaps!Saved(due[p]))]
  BY DEF Snaps!Destroyed, Snaps!Crash, Snaps!Ended
<1>2. Snaps!Mounted' = {} /\ \A p \in SavedPane : session'[p] = None /\ due'[p] = None
  BY <1>1 DEF Snaps!Mounted, Snaps!Nothing
<1>3. \A p \in SavedPane : /\ kept[p] \in Snaps!Texts /\ Snaps!Saved(due[p]) \in Snaps!Texts /\ Snaps!Saved(db[p]) \in Snaps!Texts
                      /\ Snaps!Larger(kept[p], Snaps!Saved(due[p])) \in Snaps!Texts
  BY SavedIs DEF SnapInv, StoreShapes
<1>4. StoreShapes'
  <2>1. kept' \in [SavedPane -> Snaps!Texts]
    BY <1>1, <1>3 DEF SnapInv, StoreShapes
  <2>2. calls' \in Seq(Commands)
    BY <1>1
  <2> QED  BY <1>1, <1>2, <2>1, <2>2 DEF SnapInv, StoreShapes, Snaps!Nothing
<1>5. Room'
  BY <1>2 DEF Room
<1>6. Phased' /\ Spared' /\ Ascends'
  BY <1>1, <1>2 DEF SnapInv, Phased, Spared, Ascends, Starting
<1>7. DueComes'
  BY <1>1, <1>2 DEF SnapInv, StoreShapes, DueComes
<1>8. KeptStored'
  <2>1. CASE kept' = kept
    BY <1>1, <2>1 DEF SnapInv, KeptStored, Snaps!Saved
  <2>2. CASE /\ phase = "destroying" /\ calls = <<>>
             /\ kept' = [p \in SavedPane |-> Snaps!Larger(kept[p], Snaps!Saved(due[p]))]
    <3> SUFFICES ASSUME ~failed, NEW p \in open
                 PROVE  kept'[p] <= Snaps!Larger(Snaps!Saved(db[p]), Snaps!Saved(legacy[p]))
      BY <1>1 DEF KeptStored, Snaps!Saved
    <3>1. p \in SavedPane /\ legacy[p] = None
      BY <2>2 DEF SnapInv, StoreShapes, Phased, Starting
    <3>2. /\ kept[p] \in Snaps!Texts /\ Snaps!Saved(due[p]) \in Snaps!Texts /\ Snaps!Saved(db[p]) \in Snaps!Texts
          /\ Snaps!Saved(legacy[p]) = 0
      BY <1>3, <3>1, SavedIs
    <3>3. Snaps!Larger(Snaps!Saved(db[p]), Snaps!Saved(legacy[p])) = Snaps!Saved(db[p])
      BY <3>2, SavedIs DEF Snaps!Larger
    <3>4. kept[p] <= Snaps!Saved(db[p])
      BY <3>3 DEF SnapInv, KeptStored
    <3>5. Snaps!Saved(due[p]) <= Snaps!Saved(db[p])
      <4>1. CASE due[p] = None
        BY <3>2, <4>1, SavedIs
      <4>2. CASE due[p] # None
        <5>1. Coming(p) /\ saving = {} /\ Len(calls) = 0
          BY <2>2, <4>2 DEF SnapInv, DueComes, Phased
        <5>2. due[p] <= Snaps!Saved(db[p])
          BY <5>1 DEF Coming
        <5>3. Snaps!Saved(due[p]) = due[p]
          BY <4>2 DEF Snaps!Saved
        <5> QED  BY <5>2, <5>3
      <4> QED  BY <4>1, <4>2
    <3> QED  BY <2>2, <3>1, <3>2, <3>3, <3>4, <3>5, SavedIs
  <2> QED  BY <1>1, <2>1, <2>2
<1> QED  BY <1>4, <1>5, <1>6, <1>7, <1>8 DEF SnapInv

LEMMA StepSnap ==
  ASSUME Snaps!SnapshotsAssumption, SnapInv, [Snaps!Next]_(Snaps!vars)
  PROVE  SnapInv'
<1>1. CASE UNCHANGED Snaps!vars
  BY <1>1 DEF Snaps!vars, SnapInv, StoreShapes, Snaps!Mounted, Room, Phased, Starting,
     Spared, Ascends,
              Line, IsSave, Snaps!Saved, KeptStored, DueComes, Coming
<1>2. CASE Snaps!Next
  BY <1>2, PreloadKeeps, PruneKeeps, RunKeeps, AutosaveKeeps, WindowCloseKeeps,
     DestroyKeeps,
     EndedKeeps, MigrateKeeps, TerminalKeeps, PersistKeeps, UnloadKeeps, DisposeKeeps
  DEF Snaps!Next
<1> QED  BY <1>1, <1>2

-----------------------------------------------------------------------------
(* Settings                                                                *)

Stores == [theme : Theme, lines : Prefs!Lines, proxy : Proxy, sound : BOOLEAN]

FileText == {Bad, Blank} \cup Prefs!Config \cup Edited

Reloads == [cmd : {"read"}, why : {"start", "focus"}] \cup [cmd : {"write"}, text : Prefs!Config]

Answers == [why : {"start", "focus"}, works : BOOLEAN, text : FileText]

FileShapes ==
  /\ store \in Stores /\ disk \in FileText
  /\ calls \in Seq(Reloads) /\ answers \in Seq(Answers)
  /\ phase \in {"boot", "loading", "loaded", "painting", "ready"}
  /\ panel # None => panel \in [draft : Prefs!Lines, seen : [theme : Theme, lines : Prefs!Lines]]
  /\ token \in Nat
  /\ \A l \in loads : l.token \in 1..token /\ l.theme \in Theme
  /\ shown \in Theme \cup {None}
  /\ unread \in BOOLEAN /\ failed \in BOOLEAN /\ crossed \in BOOLEAN

Reads == {k \in 1..Len(calls) : calls[k].cmd = "read"}
Writes == {k \in 1..Len(calls) : calls[k].cmd = "write"}
Works == {k \in 1..Len(answers) : answers[k].works}

\* At startup the file is read once, then the appearance applied, then the first
\* terminals open; the panel comes after that, and its effect has run.
Staged ==
  /\ phase = "boot" => calls = <<>> /\ answers = <<>>
  /\ phase \in {"boot", "loading", "loaded"} => loads = {}
  /\ phase = "loading" =>
       \/ calls = <<Prefs!readConfig("start")>> /\ answers = <<>>
       \/ calls = <<>> /\ Len(answers) = 1 /\ answers[1].why = "start"
  /\ phase \in {"loaded", "painting"} => Reads = {} /\ answers = <<>>
  /\ phase = "painting" => loads = {[token |-> token, theme |-> store.theme]}
  /\ phase = "ready" => /\ \A k \in Reads : calls[k].why = "focus"
                        /\ \A k \in 1..Len(answers) : answers[k].why = "focus"
  /\ (shown # None) <=> phase = "ready"
  /\ panel # None => phase = "ready" /\ panel.seen = Prefs!Watched(store)

\* The newest application of the appearance has the theme of the store, or was shown.
Painted ==
  phase = "ready" =>
    /\ \A l \in loads : l.token = token => l.theme = store.theme
    /\ (\A l \in loads : l.token # token) => shown = store.theme

Means(text, c) == Prefs!Parses(text) => Prefs!parseConfig(text) = c

\* While reloads overlap, or follow a write of their own, the file, what was read of
\* it and what is to be written have one meaning, and the store has it or gets it.
OneValue(c) ==
  /\ \A k \in Writes : calls[k].text = c
  /\ unread \/ Means(disk, c)
  /\ \A k \in Works : Means(answers[k].text, c)
  /\ \/ c = Prefs!configFromStore(store)
     \/ /\ unread \/ Prefs!Parses(disk)
        /\ Works # {}
        /\ \A k \in Works : Prefs!Parses(answers[k].text)

Overlaps == Works # {} \/ \E i \in Reads, j \in Writes : i < j

\* With no read to come the last write has the store, or the file has it.
Settled ==
  Reads = {} =>
    /\ calls # <<>> => calls[Len(calls)].text = Prefs!configFromStore(store)
    /\ calls = <<>> /\ ~unread /\ ~failed => Means(disk, Prefs!configFromStore(store))

Agreed ==
  phase # "boot" /\ ~crossed =>
    IF Overlaps THEN \E c \in Prefs!Config : OneValue(c) ELSE Settled

PrefsInv == FileShapes /\ Staged /\ Painted /\ Agreed

LEMMA ParseIs ==
  ASSUME Prefs!SettingsAssumption
  PROVE  /\ \A text \in FileText : Prefs!Parses(text) => Prefs!parseConfig(text) \in Prefs!Config
         /\ \A c \in Prefs!Config : Prefs!Parses(c) /\ Prefs!parseConfig(c) = c
         /\ \A s \in Stores : Prefs!configFromStore(s) \in Prefs!Config
         /\ \A n \in Int : Prefs!Clamp(n) \in Prefs!Lines /\ Prefs!clampScrollback(n) \in Prefs!Lines
<1>1. \A n \in Int : Prefs!Clamp(n) \in Prefs!Lines /\ Prefs!clampScrollback(n) \in Prefs!Lines
  BY DEF Prefs!Clamp, Prefs!clampScrollback, Prefs!Lines, Prefs!MinLines,
     Prefs!MostLines, Prefs!Unlimited
<1>2. \A text \in FileText : Prefs!Parses(text) => Prefs!parseConfig(text) \in Prefs!Config
  <2> SUFFICES ASSUME NEW text \in FileText, Prefs!Parses(text) PROVE Prefs!parseConfig(text) \in Prefs!Config
    OBVIOUS
  <2>1. text.lines \in Int
    BY DEF FileText, Prefs!Parses, Prefs!Config, Prefs!Lines, Prefs!MinLines,
       Prefs!MostLines, Prefs!Unlimited, Prefs!SettingsAssumption
  <2>2. Prefs!clampScrollback(text.lines) \in Prefs!Lines
    BY <1>1, <2>1
  <2> QED  BY <2>2 DEF Prefs!parseConfig, Prefs!Config, Prefs!SettingsAssumption
<1>3. \A c \in Prefs!Config : Prefs!Parses(c) /\ Prefs!parseConfig(c) = c
  <2> SUFFICES ASSUME NEW c \in Prefs!Config PROVE Prefs!Parses(c) /\ Prefs!parseConfig(c) = c
    OBVIOUS
  <2>1. c.theme \in Theme /\ c.lines \in Prefs!Lines /\ c.proxy \in Proxy
        /\ c = [theme |-> c.theme, lines |-> c.lines, proxy |-> c.proxy]
    BY DEF Prefs!Config
  <2>2. Prefs!clampScrollback(c.lines) = c.lines
    BY <2>1 DEF Prefs!clampScrollback, Prefs!Clamp, Prefs!Lines, Prefs!MinLines,
       Prefs!MostLines, Prefs!Unlimited
  <2> QED  BY <2>1, <2>2 DEF Prefs!parseConfig, Prefs!Parses, Prefs!SettingsAssumption
<1>4. \A s \in Stores : Prefs!configFromStore(s) \in Prefs!Config
  BY DEF Stores, Prefs!configFromStore, Prefs!Config
<1> QED  BY <1>1, <1>2, <1>3, <1>4

LEMMA PrefsHolds ==
  Prefs!SettingsAssumption /\ PrefsInv => Prefs!TypeOK /\ Prefs!FileIsStore /\ Prefs!ShownIsStored
<1> SUFFICES ASSUME Prefs!SettingsAssumption, PrefsInv PROVE Prefs!TypeOK /\ Prefs!FileIsStore /\ Prefs!ShownIsStored
  OBVIOUS
<1>1. Prefs!TypeOK
  <2>1. Prefs!configFromStore(store) \in Prefs!Config /\ store.sound \in BOOLEAN
    BY ParseIs DEF PrefsInv, FileShapes, Stores
  <2> QED  BY <2>1 DEF PrefsInv, FileShapes, Staged, FileText, Prefs!TypeOK
<1>2. Prefs!FileIsStore
  <2> SUFFICES ASSUME Prefs!Quiet, Prefs!Parses(disk), ~unread, ~failed, ~crossed
               PROVE  Prefs!parseConfig(disk) = Prefs!configFromStore(store)
    BY DEF Prefs!FileIsStore
  <2>1. phase # "boot" /\ calls = <<>> /\ Reads = {} /\ Works = {} /\ Writes = {}
    BY DEF Prefs!Quiet, Reads, Works, Writes
  <2>2. Settled
    BY <2>1 DEF PrefsInv, Agreed, Overlaps
  <2> QED  BY <2>1, <2>2 DEF Settled, Means
<1>3. Prefs!ShownIsStored
  BY DEF PrefsInv, Painted, Prefs!ShownIsStored, Prefs!Quiet
<1> QED  BY <1>1, <1>2, <1>3

LEMMA InitPrefs ==
  ASSUME Prefs!SettingsAssumption, Prefs!Init
  PROVE  PrefsInv
<1>1. Prefs!DefaultLines \in Prefs!Lines /\ DefaultTheme \in Theme /\ DefaultProxy \in Proxy
  BY DEF Prefs!SettingsAssumption, Prefs!DefaultLines, Prefs!Lines, Prefs!MinLines,
     Prefs!MostLines
<1>2. store \in Stores /\ disk \in FileText
  BY <1>1 DEF Prefs!Init, Stores, FileText, Prefs!Defaults, Prefs!Config
<1>3. calls \in Seq(Reloads) /\ answers \in Seq(Answers)
  BY DEF Prefs!Init
<1>4. FileShapes
  BY <1>2, <1>3 DEF Prefs!Init, FileShapes
<1>5. Staged /\ Painted /\ Agreed
  BY DEF Prefs!Init, Staged, Painted, Agreed
<1> QED  BY <1>4, <1>5 DEF PrefsInv

-----------------------------------------------------------------------------
(* Queues.                                                                 *)

LEMMA Added ==
  ASSUME NEW S, NEW s \in Seq(S), NEW e \in S, NEW t, t = Append(s, e)
  PROVE  /\ t \in Seq(S) /\ Len(s) \in Nat /\ Len(t) = Len(s) + 1
         /\ \A i \in 1..Len(s) : t[i] = s[i] /\ i \in 1..Len(t)
         /\ t[Len(s) + 1] = e /\ Len(s) + 1 \in 1..Len(t)
         /\ \A i \in 1..Len(t) : i \in 1..Len(s) \/ i = Len(s) + 1
OBVIOUS

LEMMA Taken ==
  ASSUME NEW S, NEW s \in Seq(S), s # <<>>, NEW t, t = Tail(s)
  PROVE  /\ t \in Seq(S) /\ Len(s) \in Nat /\ Len(s) >= 1 /\ Len(t) = Len(s) - 1
         /\ Head(s) = s[1] /\ s[1] \in S /\ 1 \in 1..Len(s)
         /\ \A i \in 1..Len(t) : t[i] = s[i + 1] /\ i + 1 \in 1..Len(s)
         /\ \A i \in 1..Len(s) : i = 1 \/ (i - 1 \in 1..Len(t) /\ t[i - 1] = s[i])
OBVIOUS

\* One more command.
LEMMA Queued ==
  ASSUME calls \in Seq(Reloads), NEW e \in Reloads, calls' = Append(calls, e)
  PROVE  /\ calls' \in Seq(Reloads) /\ Len(calls') = Len(calls) + 1 /\ Len(calls) \in Nat
         /\ calls'[Len(calls')] = e /\ calls' # <<>>
         /\ e.cmd = "read" => Reads' = Reads \cup {Len(calls')} /\ Writes' = Writes
         /\ e.cmd = "write" => Writes' = Writes \cup {Len(calls')} /\ Reads' = Reads
         /\ \A k \in 1..Len(calls) : calls'[k] = calls[k] /\ k < Len(calls')
<1>1. /\ calls' \in Seq(Reloads) /\ Len(calls) \in Nat /\ Len(calls') = Len(calls) + 1
      /\ \A i \in 1..Len(calls) : calls'[i] = calls[i] /\ i \in 1..Len(calls')
      /\ calls'[Len(calls) + 1] = e /\ Len(calls) + 1 \in 1..Len(calls')
      /\ \A i \in 1..Len(calls') : i \in 1..Len(calls) \/ i = Len(calls) + 1
  BY Added
<1>2. \A k \in 1..Len(calls) : k < Len(calls')
  BY <1>1
<1>3. calls'[Len(calls')] = e /\ calls' # <<>>
  BY <1>1
<1>4. e.cmd = "read" => Reads' = Reads \cup {Len(calls')} /\ Writes' = Writes
  BY <1>1 DEF Reads, Writes
<1>5. e.cmd = "write" => Writes' = Writes \cup {Len(calls')} /\ Reads' = Reads
  BY <1>1 DEF Reads, Writes
<1> QED  BY <1>1, <1>2, <1>3, <1>4, <1>5

\* One command less.
LEMMA Unqueued ==
  ASSUME calls \in Seq(Reloads), calls # <<>>, calls' = Tail(calls)
  PROVE  /\ calls' \in Seq(Reloads) /\ Len(calls') \in Nat /\ Len(calls) = Len(calls') + 1
         /\ Head(calls) = calls[1] /\ Head(calls) \in Reloads
         /\ \A k \in Reads' : k \in Nat /\ k + 1 \in Reads /\ calls'[k] = calls[k + 1]
         /\ \A k \in Writes' : k \in Nat /\ k + 1 \in Writes /\ calls'[k] = calls[k + 1]
         /\ Head(calls).cmd = "read" => 1 \in Reads
         /\ Head(calls).cmd = "write" => 1 \in Writes
         /\ \A k \in Reads : k = 1 \/ k - 1 \in Reads'
         /\ \A k \in Writes : k = 1 \/ k - 1 \in Writes'
         /\ calls' # <<>> => calls'[Len(calls')] = calls[Len(calls)]
<1>1. /\ calls' \in Seq(Reloads) /\ Len(calls) \in Nat /\ Len(calls) >= 1
      /\ Len(calls') = Len(calls) - 1
      /\ Head(calls) = calls[1] /\ calls[1] \in Reloads /\ 1 \in 1..Len(calls)
      /\ \A i \in 1..Len(calls') : calls'[i] = calls[i + 1] /\ i + 1 \in 1..Len(calls)
      /\ \A i \in 1..Len(calls) : i = 1 \/ (i - 1 \in 1..Len(calls') /\ calls'[i - 1] = calls[i])
  BY Taken
<1>2. /\ \A k \in Reads' : k \in Nat /\ k + 1 \in Reads /\ calls'[k] = calls[k + 1]
      /\ \A k \in Writes' : k \in Nat /\ k + 1 \in Writes /\ calls'[k] = calls[k + 1]
  BY <1>1 DEF Reads, Writes
<1>3. /\ Head(calls).cmd = "read" => 1 \in Reads
      /\ Head(calls).cmd = "write" => 1 \in Writes
  BY <1>1 DEF Reads, Writes
<1>4. \A k \in Reads : k = 1 \/ k - 1 \in Reads'
  <2> SUFFICES ASSUME NEW k \in Reads, k # 1 PROVE k - 1 \in Reads'
    OBVIOUS
  <2>1. k - 1 \in 1..Len(calls') /\ calls'[k - 1] = calls[k] /\ calls[k].cmd = "read"
    BY <1>1 DEF Reads
  <2> DEFINE j == k - 1
  <2>2. j \in 1..Len(calls') /\ calls'[j].cmd = "read"
    BY <2>1
  <2> HIDE DEF j
  <2>3. j \in Reads'
    BY <2>2 DEF Reads
  <2> QED  BY <2>3 DEF j
<1>5. \A k \in Writes : k = 1 \/ k - 1 \in Writes'
  <2> SUFFICES ASSUME NEW k \in Writes, k # 1 PROVE k - 1 \in Writes'
    OBVIOUS
  <2>1. k - 1 \in 1..Len(calls') /\ calls'[k - 1] = calls[k] /\ calls[k].cmd = "write"
    BY <1>1 DEF Writes
  <2> DEFINE j == k - 1
  <2>2. j \in 1..Len(calls') /\ calls'[j].cmd = "write"
    BY <2>1
  <2> HIDE DEF j
  <2>3. j \in Writes'
    BY <2>2 DEF Writes
  <2> QED  BY <2>3 DEF j
<1>6. calls' # <<>> => calls'[Len(calls')] = calls[Len(calls)]
  <2> SUFFICES ASSUME calls' # <<>> PROVE calls'[Len(calls')] = calls[Len(calls)]
    OBVIOUS
  <2>1. Len(calls') \in 1..Len(calls')
    BY <1>1
  <2>2. PICK m \in 1..Len(calls') : m = Len(calls')
    BY <2>1
  <2>3. calls'[m] = calls[m + 1] /\ m + 1 = Len(calls)
    BY <1>1, <2>2
  <2>4. calls[m + 1] = calls[Len(calls)]
    BY <2>3
  <2>5. calls'[Len(calls')] = calls'[m]
    BY <2>2
  <2> QED  BY <2>3, <2>4, <2>5
<1>7. calls' \in Seq(Reloads) /\ Len(calls') \in Nat /\ Len(calls) = Len(calls') + 1
  BY <1>1
<1>8. Head(calls) = calls[1] /\ Head(calls) \in Reloads
  BY <1>1
<1> QED  BY <1>2, <1>3, <1>4, <1>5, <1>6, <1>7, <1>8

LEMMA CallsFacts ==
  ASSUME Prefs!SettingsAssumption, FileShapes
  PROVE  /\ \A k \in 1..Len(calls) : k \in Reads \/ k \in Writes
         /\ Reads \cap Writes = {} /\ Len(calls) \in Nat /\ Len(answers) \in Nat
         /\ Reads \cup Writes \subseteq Nat
         /\ \A k \in Writes : calls[k].text \in Prefs!Config
         /\ \A k \in 1..Len(answers) : answers[k] \in Answers
         /\ calls # <<>> => Len(calls) \in 1..Len(calls)
         /\ Prefs!configFromStore(store) \in Prefs!Config
         /\ Prefs!Parses(disk) => Prefs!parseConfig(disk) \in Prefs!Config
         /\ \A e \in Reloads : e.cmd = "read" \/ (e.cmd = "write" /\ e.text \in Prefs!Config)
<1>1. \A e \in Reloads : e.cmd = "read" \/ (e.cmd = "write" /\ e.text \in Prefs!Config)
  BY DEF Reloads
<1>2. /\ \A k \in 1..Len(calls) : calls[k] \in Reloads
      /\ Len(calls) \in Nat /\ Len(answers) \in Nat
      /\ \A k \in 1..Len(answers) : answers[k] \in Answers
      /\ calls # <<>> => Len(calls) \in 1..Len(calls)
  BY DEF FileShapes
<1>3. Prefs!configFromStore(store) \in Prefs!Config /\ (Prefs!Parses(disk) => Prefs!parseConfig(disk) \in Prefs!Config)
  BY ParseIs DEF FileShapes
<1>4. /\ \A k \in 1..Len(calls) : k \in Reads \/ k \in Writes
      /\ Reads \cap Writes = {} /\ Reads \cup Writes \subseteq Nat
      /\ \A k \in Writes : calls[k].text \in Prefs!Config
  BY <1>1, <1>2 DEF Reads, Writes
<1> QED  BY <1>1, <1>2, <1>3, <1>4

-----------------------------------------------------------------------------
(* The actions.                                                            *)

LEMMA BootKeeps ==
  ASSUME Prefs!SettingsAssumption, PrefsInv, Prefs!Boot
  PROVE  PrefsInv'
<1> DEFINE e == Prefs!readConfig("start")
<1>1. /\ phase = "boot" /\ phase' = "loading" /\ calls' = Append(calls, e)
      /\ store' = store /\ disk' = disk /\ answers' = answers /\ panel' = panel
      /\ unread' = unread /\ failed' = failed /\ crossed' = crossed
      /\ token' = token /\ loads' = loads /\ shown' = shown
  BY DEF Prefs!Boot, Prefs!LookUnchanged
<1>2. calls = <<>> /\ answers = <<>> /\ loads = {} /\ panel = None /\ shown = None
  BY <1>1 DEF PrefsInv, Staged
<1>3. e \in Reloads /\ e.cmd = "read"
  BY DEF Reloads, Prefs!readConfig
<1>4. calls' = <<Prefs!readConfig("start")>>
  BY <1>1, <1>2
<1> HIDE DEF e
<1>5. calls' \in Seq(Reloads) /\ Reads' # {} /\ Writes' = {}
  <2>1. calls \in Seq(Reloads) /\ Writes = {}
    BY <1>2 DEF PrefsInv, FileShapes, Writes
  <2> QED  BY <1>1, <1>3, <2>1, Queued
<1>6. FileShapes'
  BY <1>1, <1>5 DEF PrefsInv, FileShapes
<1>7. Staged' /\ Painted'
  BY <1>1, <1>2, <1>4 DEF Staged, Painted
<1>8. Agreed'
  BY <1>1, <1>2, <1>5 DEF Agreed, Overlaps, Works, Settled
<1> QED  BY <1>6, <1>7, <1>8 DEF PrefsInv

\* What the queues and the file have agreed on does not depend on the look.
LEMMA AgreedKept ==
  ASSUME Agreed, calls' = calls, answers' = answers, disk' = disk, unread' = unread,
         failed' = failed, crossed' = crossed, phase # "boot",
         Prefs!configFromStore(store)' = Prefs!configFromStore(store)
  PROVE  Agreed'
<1>1. Reads' = Reads /\ Writes' = Writes /\ Works' = Works
  BY DEF Reads, Writes, Works
<1>2. \A c : OneValue(c) => OneValue(c)'
  BY <1>1 DEF OneValue, Means
<1>3. Overlaps' = Overlaps /\ (Settled => Settled')
  BY <1>1 DEF Overlaps, Settled, Means
<1> QED  BY <1>2, <1>3 DEF Agreed

LEMMA AppearanceEffect ==
  ASSUME NEW s, s.theme \in Theme, token \in Nat, Prefs!applyAppearance(s),
         \A l \in loads : l.token \in 1..token /\ l.theme \in Theme
  PROVE  /\ token' \in Nat /\ \A l \in loads' : l.token \in 1..token' /\ l.theme \in Theme
         /\ \A l \in loads' : l.token = token' => l.theme = s.theme
         /\ \E l \in loads' : l.token = token'
         /\ loads = {} => loads' = {[token |-> token', theme |-> s.theme]}
<1> DEFINE n == [token |-> token + 1, theme |-> s.theme]
<1>1. token' = token + 1 /\ loads' = loads \cup {n} /\ token + 1 \in Nat
  BY DEF Prefs!applyAppearance
<1>2. n.token = token + 1 /\ n.theme = s.theme
  OBVIOUS
<1>3. loads = {} => loads' = {[token |-> token', theme |-> s.theme]}
  BY <1>1
<1> HIDE DEF n
<1>4. \A l \in loads : l.token \in 1..token' /\ l.token # token'
  BY <1>1
<1>5. token + 1 \in 1..token'
  BY <1>1
<1> QED  BY <1>1, <1>2, <1>3, <1>4, <1>5

LEMMA PaintKeeps ==
  ASSUME Prefs!SettingsAssumption, PrefsInv, Prefs!Paint
  PROVE  PrefsInv'
<1>1. /\ phase = "loaded" /\ phase' = "painting" /\ Prefs!applyAppearance(store)
      /\ store' = store /\ disk' = disk /\ calls' = calls /\ answers' = answers
      /\ panel' = panel /\ shown' = shown /\ unread' = unread /\ failed' = failed
      /\ crossed' = crossed
  BY DEF Prefs!Paint
<1>2. /\ loads = {} /\ Reads = {} /\ answers = <<>> /\ shown = None /\ panel = None
  BY <1>1 DEF PrefsInv, Staged
<1>3. store.theme \in Theme
  BY DEF PrefsInv, FileShapes, Stores
<1>4. /\ token' \in Nat /\ \A l \in loads' : l.token \in 1..token' /\ l.theme \in Theme
      /\ loads' = {[token |-> token', theme |-> store.theme]}
  BY <1>1, <1>2, <1>3, AppearanceEffect DEF PrefsInv, FileShapes
<1>5. FileShapes'
  BY <1>1, <1>4 DEF PrefsInv, FileShapes
<1>6. Staged' /\ Painted'
  BY <1>1, <1>2, <1>4 DEF Staged, Painted, Reads
<1>7. Agreed'
  BY <1>1, AgreedKept DEF PrefsInv
<1> QED  BY <1>5, <1>6, <1>7 DEF PrefsInv

LEMMA FontKeeps ==
  ASSUME Prefs!SettingsAssumption, PrefsInv, NEW l \in loads, Prefs!FontLoaded(l)
  PROVE  PrefsInv'
<1>1. /\ loads' = loads \ {l} /\ store' = store /\ disk' = disk /\ calls' = calls
      /\ answers' = answers /\ panel' = panel /\ token' = token /\ unread' = unread
      /\ failed' = failed /\ crossed' = crossed
      /\ \/ phase = "painting" /\ phase' = "ready" /\ shown' = store.theme
         \/ /\ phase # "painting" /\ phase' = phase
            /\ shown' = IF l.token = token THEN l.theme ELSE shown
  BY DEF Prefs!FontLoaded
<1>2. phase \in {"painting", "ready"} /\ phase' = "ready"
  BY <1>1 DEF PrefsInv, FileShapes, Staged
<1>3. store.theme \in Theme /\ l.theme \in Theme /\ None \notin Theme
  BY DEF PrefsInv, FileShapes, Stores, Prefs!SettingsAssumption
<1>4. shown' \in Theme
  BY <1>1, <1>2, <1>3 DEF PrefsInv, FileShapes, Staged
<1>5. FileShapes'
  BY <1>1, <1>2, <1>4 DEF PrefsInv, FileShapes
<1>6. Staged'
  <2>1. \A k \in Reads : calls[k].why = "focus"
    BY <1>2 DEF PrefsInv, Staged
  <2>2. \A k \in 1..Len(answers) : answers[k].why = "focus"
    BY <1>2 DEF PrefsInv, Staged
  <2>3. Reads' = Reads
    BY <1>1 DEF Reads
  <2> QED  BY <1>1, <1>2, <1>3, <1>4, <2>1, <2>2, <2>3 DEF PrefsInv, Staged
<1>7. Painted'
  <2>1. CASE phase = "painting"
    <3>1. loads' = {} /\ shown' = store.theme
      BY <1>1, <2>1 DEF PrefsInv, Staged
    <3> QED  BY <1>1, <3>1 DEF Painted
  <2>2. CASE phase = "ready" /\ l.token = token
    <3>1. l.theme = store.theme /\ shown' = store.theme
      BY <1>1, <2>2 DEF PrefsInv, Painted
    <3> QED  BY <1>1, <2>2, <3>1 DEF PrefsInv, Painted
  <2>3. CASE phase = "ready" /\ l.token # token
    BY <1>1, <2>3 DEF PrefsInv, Painted
  <2> QED  BY <1>2, <2>1, <2>2, <2>3
<1>8. Agreed'
  BY <1>1, <1>2, AgreedKept DEF PrefsInv
<1> QED  BY <1>5, <1>6, <1>7, <1>8 DEF PrefsInv

LEMMA PanelClosed ==
  ASSUME Prefs!SettingsAssumption, PrefsInv, Prefs!ClosePanel
  PROVE  PrefsInv'
<1>1. /\ panel # None /\ panel' = None /\ store' = store /\ disk' = disk /\ calls' = calls
      /\ answers' = answers /\ phase' = phase /\ token' = token /\ loads' = loads
      /\ shown' = shown /\ unread' = unread /\ failed' = failed /\ crossed' = crossed
  BY DEF Prefs!ClosePanel, Prefs!LookUnchanged
<1>2. phase = "ready"
  BY <1>1 DEF PrefsInv, Staged
<1>3. FileShapes' /\ Staged' /\ Painted'
  BY <1>1, <1>2 DEF PrefsInv, FileShapes, Staged, Painted, Reads
<1> QED  BY <1>1, <1>2, <1>3, AgreedKept DEF PrefsInv

LEMMA PanelOpened ==
  ASSUME Prefs!SettingsAssumption, PrefsInv, Prefs!OpenPanel
  PROVE  PrefsInv'
<1>1. /\ panel' = [draft |-> store.lines, seen |-> Prefs!Watched(store)] /\ store' = store
      /\ disk' = disk /\ calls' = calls /\ answers' = answers /\ phase' = phase
      /\ Prefs!applyAppearance(store) /\ phase = "ready"
      /\ shown' = shown /\ unread' = unread /\ failed' = failed /\ crossed' = crossed
  BY DEF Prefs!OpenPanel
<1>2. store.theme \in Theme /\ store.lines \in Prefs!Lines
  BY DEF PrefsInv, FileShapes, Stores
<1>3. panel' \in [draft : Prefs!Lines, seen : [theme : Theme, lines : Prefs!Lines]]
      /\ panel'.seen = Prefs!Watched(store)
  BY <1>1, <1>2 DEF Prefs!Watched
<1>4. /\ token' \in Nat /\ \A l \in loads' : l.token \in 1..token' /\ l.theme \in Theme
      /\ \A l \in loads' : l.token = token' => l.theme = store.theme
      /\ \E l \in loads' : l.token = token'
  BY <1>1, <1>2, AppearanceEffect DEF PrefsInv, FileShapes
<1>5. FileShapes'
  BY <1>1, <1>3, <1>4 DEF PrefsInv, FileShapes
<1>6. Staged'
  BY <1>1, <1>3 DEF PrefsInv, Staged, Reads, Prefs!Watched
<1>7. Painted'
  BY <1>1, <1>4 DEF Painted
<1> QED  BY <1>1, <1>5, <1>6, <1>7, AgreedKept DEF PrefsInv

\* An edit by hand is known to be unread.
LEMMA EditKeeps ==
  ASSUME Prefs!SettingsAssumption, PrefsInv, NEW text \in Edited, Prefs!EditFile(text)
  PROVE  PrefsInv'
<1>1. /\ disk' = text /\ unread' = TRUE /\ store' = store /\ calls' = calls
      /\ answers' = answers /\ phase' = phase /\ panel' = panel /\ token' = token
      /\ loads' = loads /\ shown' = shown /\ failed' = failed /\ crossed' = crossed
  BY DEF Prefs!EditFile, Prefs!LookUnchanged
<1>2. FileShapes' /\ Staged' /\ Painted'
  BY <1>1 DEF PrefsInv, FileShapes, FileText, Staged, Painted, Reads
<1>3. Reads' = Reads /\ Writes' = Writes /\ Works' = Works
  BY <1>1 DEF Reads, Writes, Works
<1>4. \A c : OneValue(c) => OneValue(c)'
  BY <1>1, <1>3 DEF OneValue, Means
<1>5. Overlaps' = Overlaps /\ (Settled => Settled')
  BY <1>1, <1>3 DEF Overlaps, Settled
<1>6. Agreed'
  BY <1>1, <1>4, <1>5 DEF PrefsInv, Agreed
<1> QED  BY <1>2, <1>6 DEF PrefsInv

LEMMA RestartKeeps ==
  ASSUME Prefs!SettingsAssumption, PrefsInv, Prefs!Restart
  PROVE  PrefsInv'
<1>1. /\ phase' = "boot" /\ calls' = <<>> /\ answers' = <<>> /\ panel' = None
      /\ token' = 0 /\ loads' = {} /\ shown' = None /\ crossed' = FALSE
      /\ store' = store /\ disk' = disk /\ unread' = unread /\ failed' = failed
  BY DEF Prefs!Restart
<1>2. calls' \in Seq(Reloads) /\ answers' \in Seq(Answers)
  BY <1>1
<1>3. FileShapes' /\ Staged' /\ Painted' /\ Agreed'
  BY <1>1, <1>2 DEF PrefsInv, FileShapes, Staged, Painted, Agreed
<1> QED  BY <1>3 DEF PrefsInv

\* A read more is one more that may come to agree.
LEMMA FocusKeeps ==
  ASSUME Prefs!SettingsAssumption, PrefsInv, Prefs!Focus
  PROVE  PrefsInv'
<1> DEFINE e == Prefs!readConfig("focus")
<1>1. /\ phase = "ready" /\ phase' = phase /\ calls' = Append(calls, e)
      /\ crossed' = (crossed /\ Prefs!Reading) /\ store' = store /\ disk' = disk
      /\ answers' = answers /\ panel' = panel /\ unread' = unread /\ failed' = failed
      /\ token' = token /\ loads' = loads /\ shown' = shown
  BY DEF Prefs!Focus, Prefs!LookUnchanged
<1>2. e \in Reloads /\ e.cmd = "read" /\ e.why = "focus"
  BY DEF Reloads, Prefs!readConfig
<1> HIDE DEF e
<1>3. /\ calls' \in Seq(Reloads) /\ Len(calls') = Len(calls) + 1 /\ Len(calls) \in Nat
      /\ calls'[Len(calls')] = e
      /\ Reads' = Reads \cup {Len(calls')} /\ Writes' = Writes
      /\ \A k \in 1..Len(calls) : calls'[k] = calls[k] /\ k < Len(calls')
  BY <1>1, <1>2, Queued DEF PrefsInv, FileShapes
<1>4. \A k \in Reads \cup Writes : calls'[k] = calls[k] /\ k < Len(calls') /\ k \in Nat
  BY <1>3 DEF Reads, Writes
<1>5. FileShapes'
  <2>1. crossed' \in BOOLEAN
    BY <1>1 DEF Prefs!Reading
  <2> QED  BY <1>1, <1>3, <2>1 DEF PrefsInv, FileShapes
<1>6. Staged'
  <2>1. \A k \in Reads' : calls'[k].why = "focus"
    BY <1>1, <1>2, <1>3, <1>4 DEF PrefsInv, Staged
  <2> QED  BY <1>1, <2>1 DEF PrefsInv, Staged
<1>7. Painted'
  BY <1>1 DEF PrefsInv, Painted
<1>8. Works' = Works /\ Reads' # {} /\ (Overlaps' <=> Overlaps)
  <2>1. Works' = Works /\ Reads' # {}
    BY <1>1, <1>3 DEF Works
  <2>2. \A j \in Writes : ~(Len(calls') < j)
    BY <1>3, <1>4
  <2> QED  BY <1>3, <2>1, <2>2 DEF Overlaps
<1>9. \A c : OneValue(c) => OneValue(c)'
  BY <1>1, <1>3, <1>4, <1>8 DEF OneValue, Means
<1>10. Agreed'
  <2> SUFFICES ASSUME ~crossed'
               PROVE  IF Overlaps' THEN \E c \in Prefs!Config : OneValue(c)' ELSE Settled'
    BY DEF Agreed
  <2>1. CASE ~crossed
    BY <1>1, <1>8, <1>9, <2>1 DEF PrefsInv, Agreed, Settled
  <2>2. CASE crossed
    <3>1. ~Prefs!Reading
      BY <1>1, <2>2
    <3>2. answers = <<>> /\ Reads = {}
      BY <3>1 DEF Prefs!Reading, Reads
    <3>3. ~Overlaps
      BY <3>2 DEF Overlaps, Works
    <3> QED  BY <1>8, <3>3 DEF Settled
  <2> QED  BY <1>1, <2>1, <2>2 DEF PrefsInv, FileShapes
<1> QED  BY <1>5, <1>6, <1>7, <1>10 DEF PrefsInv

\* The backend answers a read with what the file holds, or with a failure.
LEMMA ReadKeeps ==
  ASSUME Prefs!SettingsAssumption, PrefsInv, Prefs!RunRead
  PROVE  PrefsInv'
<1> DEFINE e == Head(calls)
<1>1. /\ calls # <<>> /\ e.cmd = "read" /\ calls' = Tail(calls)
      /\ store' = store /\ disk' = disk /\ phase' = phase /\ panel' = panel
      /\ token' = token /\ loads' = loads /\ shown' = shown
  BY DEF Prefs!RunRead, Prefs!LookUnchanged
<1>2. PICK works \in BOOLEAN :
        /\ answers' = Append(answers, [why |-> e.why, works |-> works,
                                       text |-> IF works THEN disk ELSE Blank])
        /\ failed' = (failed \/ ~works)
        /\ unread' = (unread /\ ~works)
        /\ crossed' = (crossed \/ (works /\ unread /\ Prefs!Unfinished))
  BY DEF Prefs!RunRead
<1>3. /\ calls' \in Seq(Reloads) /\ Len(calls') \in Nat /\ Len(calls) = Len(calls') + 1
      /\ e = calls[1] /\ e \in Reloads /\ 1 \in Reads
      /\ \A k \in Reads' : k \in Nat /\ k + 1 \in Reads /\ calls'[k] = calls[k + 1]
      /\ \A k \in Writes' : k \in Nat /\ k + 1 \in Writes /\ calls'[k] = calls[k + 1]
      /\ \A k \in Reads : k = 1 \/ k - 1 \in Reads'
      /\ \A k \in Writes : k = 1 \/ k - 1 \in Writes'
      /\ calls' # <<>> => calls'[Len(calls')] = calls[Len(calls)]
  BY <1>1, Unqueued DEF PrefsInv, FileShapes
<1>4. e.why \in {"start", "focus"} /\ phase \in {"loading", "ready"}
      /\ (phase = "ready" => e.why = "focus") /\ (phase = "loading" => e.why = "start")
      /\ (phase = "loading" => calls' = <<>> /\ answers = <<>>)
  <2>1. e.why \in {"start", "focus"}
    BY <1>1, <1>3 DEF Reloads
  <2>2. phase \in {"loading", "ready"}
    BY <1>1, <1>3 DEF PrefsInv, FileShapes, Staged
  <2>3. phase = "ready" => e.why = "focus"
    BY <1>3 DEF PrefsInv, Staged
  <2>4. phase = "loading" => calls = <<Prefs!readConfig("start")>> /\ answers = <<>>
    BY <1>1 DEF PrefsInv, Staged
  <2>5. phase = "loading" => e.why = "start" /\ calls' = <<>> /\ answers = <<>>
    BY <1>1, <2>4 DEF Prefs!readConfig
  <2> QED  BY <2>1, <2>2, <2>3, <2>5
<1> DEFINE r == [why |-> e.why, works |-> works, text |-> IF works THEN disk ELSE Blank]
<1>5. r \in Answers /\ r.why = e.why /\ r.works = works /\ (works => r.text = disk)
  BY <1>4 DEF Answers, FileText, PrefsInv, FileShapes
<1>6. answers' = Append(answers, r)
  BY <1>2
<1> HIDE DEF e, r
<1>7. /\ answers' \in Seq(Answers) /\ Len(answers) \in Nat /\ Len(answers') = Len(answers) + 1
      /\ \A i \in 1..Len(answers) : answers'[i] = answers[i] /\ i \in 1..Len(answers')
      /\ answers'[Len(answers) + 1] = r /\ Len(answers) + 1 \in 1..Len(answers')
      /\ \A i \in 1..Len(answers') : i \in 1..Len(answers) \/ i = Len(answers) + 1
  <2>1. answers \in Seq(Answers)
    BY DEF PrefsInv, FileShapes
  <2> QED  BY <1>5, <1>6, <2>1, Added
<1>8. FileShapes'
  <2>1. failed' \in BOOLEAN /\ unread' \in BOOLEAN /\ crossed' \in BOOLEAN
    BY <1>2 DEF Prefs!Unfinished
  <2> QED  BY <1>1, <1>3, <1>7, <2>1 DEF PrefsInv, FileShapes
<1>9. Staged'
  <2>1. CASE phase = "loading"
    <3>1. Len(answers') = 1 /\ answers'[1] = r /\ r.why = "start" /\ calls' = <<>>
      <4>1. Len(answers) = 0
        BY <1>4, <2>1
      <4>2. Len(answers') = 1 /\ answers'[0 + 1] = r
        BY <1>7, <4>1
      <4> QED  BY <1>4, <1>5, <2>1, <4>2
    <3> QED  BY <1>1, <2>1, <3>1 DEF PrefsInv, Staged
  <2>2. CASE phase = "ready"
    <3>1. \A k \in Reads' : calls'[k].why = "focus"
      BY <1>3, <2>2 DEF PrefsInv, Staged
    <3>2. \A k \in 1..Len(answers') : answers'[k].why = "focus"
      BY <1>4, <1>5, <1>7, <2>2 DEF PrefsInv, Staged
    <3> QED  BY <1>1, <2>2, <3>1, <3>2 DEF PrefsInv, Staged
  <2> QED  BY <1>4, <2>1, <2>2
<1>10. Painted'
  BY <1>1 DEF PrefsInv, Painted
<1>11. /\ \A k \in Works : k \in Works' /\ answers'[k] = answers[k]
       /\ \A k \in Works' : (k \in Works /\ answers'[k] = answers[k]) \/ (works /\ answers'[k] = r)
       /\ works => Len(answers) + 1 \in Works'
       /\ ~works => Works' = Works
  BY <1>5, <1>7 DEF Works
<1>15. phase' = phase
  BY <1>1
<1>12. ASSUME works = TRUE PROVE Agreed'
  <2>1. Overlaps'
    BY <1>11, <1>12 DEF Overlaps
  <2> SUFFICES ASSUME ~crossed', phase' # "boot" PROVE \E c \in Prefs!Config : OneValue(c)'
    BY <2>1 DEF Agreed
  <2>2. ~crossed /\ ~unread' /\ ~(unread /\ Prefs!Unfinished)
    BY <1>2, <1>12
  <2>3. CASE Overlaps
    <3>1. PICK c \in Prefs!Config : OneValue(c)
      BY <1>15, <2>2, <2>3 DEF PrefsInv, Agreed
    <3>2. ~unread
      <4>1. Prefs!Unfinished
        <5>1. CASE Works # {}
          <6>1. Len(answers) >= 1
            BY <5>1, <1>7 DEF Works
          <6> QED  BY <6>1 DEF Prefs!Unfinished
        <5>2. CASE \E i \in Reads, j \in Writes : i < j
          <6>1. PICK i \in Reads, j \in Writes : i < j
            BY <5>2
          <6>2. j \in 2..Len(calls) /\ calls[j].cmd = "write"
            BY <6>1 DEF Reads, Writes
          <6> QED  BY <6>2 DEF Prefs!Unfinished
        <5> QED  BY <2>3, <5>1, <5>2 DEF Overlaps
      <4> QED  BY <2>2, <4>1
    <3>3. Means(disk, c)
      BY <3>1, <3>2 DEF OneValue
    <3>4. /\ \A k \in Writes' : calls'[k].text = c
          /\ \A k \in Works' : Means(answers'[k].text, c)
      BY <1>3, <1>5, <1>11, <1>12, <3>1, <3>3 DEF OneValue
    <3>5. c = Prefs!configFromStore(store)'
          \/ (Prefs!Parses(disk)' /\ Works' # {} /\ \A k \in Works' : Prefs!Parses(answers'[k].text))
      <4>1. CASE c = Prefs!configFromStore(store)
        BY <1>1, <4>1 DEF Prefs!configFromStore
      <4>2. CASE c # Prefs!configFromStore(store)
        <5>1. Prefs!Parses(disk) /\ \A k \in Works : Prefs!Parses(answers[k].text)
          BY <3>1, <3>2, <4>2 DEF OneValue
        <5> QED  BY <1>1, <1>5, <1>11, <1>12, <5>1 DEF Prefs!Parses
      <4> QED  BY <4>1, <4>2
    <3>6. Means(disk, c)' /\ \A k \in Works' : Means(answers[k].text, c)'
      BY <1>1, <3>3, <3>4 DEF Means, Prefs!Parses
    <3>7. \A k \in Works' : Prefs!Parses(answers'[k].text) = Prefs!Parses(answers[k].text)'
      BY DEF Prefs!Parses
    <3> QED  BY <3>4, <3>5, <3>6, <3>7 DEF OneValue
  <2>4. CASE ~Overlaps
    <3>1. Works = {} /\ Writes' = {}
      <4>1. Works = {} /\ \A j \in Writes : ~(1 < j)
        BY <1>3, <2>4 DEF Overlaps
      <4>2. \A k \in Writes' : 1 < k + 1
        <5>1. \A k \in Writes' : k \in 1..Len(calls')
          BY DEF Writes
        <5> QED  BY <1>3, <5>1
      <4> QED  BY <1>3, <4>1, <4>2
    <3>2. PICK c \in Prefs!Config :
            Means(disk, c) /\ (c = Prefs!configFromStore(store) \/ Prefs!Parses(disk))
      BY CallsFacts DEF PrefsInv, Means
    <3>3. Means(disk, c) /\ (c = Prefs!configFromStore(store) \/ Prefs!Parses(disk))
      BY <3>2
    <3>4. \A k \in Works' : answers'[k].text = disk
      BY <1>5, <1>11, <1>12, <3>1
    <3>5. Means(disk, c)' /\ \A k \in Works' : Means(answers[k].text, c)'
      BY <1>1, <3>3, <3>4 DEF Means, Prefs!Parses
    <3>6. c = Prefs!configFromStore(store)'
          \/ (Prefs!Parses(disk)' /\ Works' # {} /\ \A k \in Works' : Prefs!Parses(answers[k].text)')
      BY <1>1, <1>11, <1>12, <3>3, <3>4 DEF Prefs!Parses, Prefs!configFromStore
    <3>7. OneValue(c)'
      BY <3>1, <3>5, <3>6 DEF OneValue
    <3> QED  BY <3>2, <3>7
  <2> QED  BY <2>3, <2>4
<1>13. ASSUME works = FALSE PROVE Agreed'
  <2> SUFFICES ASSUME ~crossed', phase' # "boot"
               PROVE  IF Overlaps' THEN \E c \in Prefs!Config : OneValue(c)' ELSE Settled'
    BY DEF Agreed
  <2>1. ~crossed /\ failed' /\ unread' = unread /\ Works' = Works
        /\ \A k \in Works : answers'[k] = answers[k]
    <3>1. unread \in BOOLEAN
      BY DEF PrefsInv, FileShapes
    <3> QED  BY <1>2, <1>11, <1>13, <3>1
  <2>2. CASE Overlaps
    <3>1. PICK c \in Prefs!Config : OneValue(c)
      BY <1>15, <2>1, <2>2 DEF PrefsInv, Agreed
    <3>2. \A k \in Writes' : calls'[k].text = c
      BY <1>3, <3>1 DEF OneValue
    <3>3. OneValue(c)'
      BY <1>1, <2>1, <3>1, <3>2 DEF OneValue, Means, Prefs!Parses, Prefs!configFromStore
    <3>4. CASE Overlaps'
      BY <3>3, <3>4
    <3>5. CASE ~Overlaps'
      <4>1. Works = {} /\ c = Prefs!configFromStore(store)
        BY <2>1, <3>1, <3>5 DEF Overlaps, OneValue
      <4>2. Settled'
        <5> SUFFICES ASSUME Reads' = {}, calls' # <<>>
                     PROVE  calls'[Len(calls')].text = Prefs!configFromStore(store)'
          BY <2>1 DEF Settled
        <5>1. Len(calls') \in 1..Len(calls')
          BY <1>3
        <5>2. Len(calls') \in Writes'
          <6>1. \A k \in 1..Len(calls') : calls'[k] \in Reloads
            BY <1>3
          <6> QED  BY <5>1, <6>1 DEF Reads, Writes, Reloads
        <5> QED  BY <1>1, <3>2, <4>1, <5>2 DEF Prefs!configFromStore
      <4> QED  BY <3>5, <4>2
    <3> QED  BY <3>4, <3>5
  <2>3. CASE ~Overlaps
    <3>1. Works' = {} /\ Writes' = {}
      <4>1. Works = {} /\ \A j \in Writes : ~(1 < j)
        BY <1>3, <2>3 DEF Overlaps
      <4>2. \A k \in Writes' : 1 < k + 1
        <5>1. \A k \in Writes' : k \in 1..Len(calls')
          BY DEF Writes
        <5> QED  BY <1>3, <5>1
      <4> QED  BY <1>3, <2>1, <4>1, <4>2
    <3>2. Reads' = {} => calls' = <<>>
      <4>1. \A k \in 1..Len(calls') : calls'[k] \in Reloads
        BY <1>3
      <4>2. calls' # <<>> => 1 \in 1..Len(calls')
        BY <1>3
      <4> QED  BY <3>1, <4>1, <4>2 DEF Reads, Writes, Reloads
    <3> QED  BY <2>1, <3>1, <3>2 DEF Overlaps, Settled
  <2> QED  BY <2>2, <2>3
<1>16. works = TRUE \/ works = FALSE
  OBVIOUS
<1>14. Agreed'
  BY <1>16, <1>12, <1>13
<1> QED  BY <1>8, <1>9, <1>10, <1>14 DEF PrefsInv

\* The last of the commands, when none of them is a read.
LEMMA LastWrites ==
  ASSUME NEW q \in Seq(Reloads), q # <<>>, \A k \in 1..Len(q) : q[k].cmd # "read"
  PROVE  Len(q) \in 1..Len(q) /\ q[Len(q)].cmd = "write"
<1>1. Len(q) \in 1..Len(q)
  OBVIOUS
<1>2. q[Len(q)] \in Reloads
  BY <1>1
<1>3. \A e \in Reloads : e.cmd = "read" \/ e.cmd = "write"
  BY DEF Reloads
<1> QED  BY <1>1, <1>2, <1>3

LEMMA WriteKeeps ==
  ASSUME Prefs!SettingsAssumption, PrefsInv, Prefs!RunWrite
  PROVE  PrefsInv'
<1> DEFINE e == Head(calls)
<1>1. /\ calls # <<>> /\ e.cmd = "write" /\ calls' = Tail(calls)
      /\ store' = store /\ answers' = answers /\ phase' = phase /\ panel' = panel
      /\ token' = token /\ loads' = loads /\ shown' = shown /\ crossed' = crossed
      /\ \/ disk' = e.text /\ failed' = FALSE /\ unread' = FALSE
         \/ failed' = TRUE /\ disk' = disk /\ unread' = unread
  BY DEF Prefs!RunWrite, Prefs!LookUnchanged
<1>2. /\ calls' \in Seq(Reloads) /\ Len(calls') \in Nat /\ Len(calls) = Len(calls') + 1
      /\ e = calls[1] /\ e \in Reloads /\ 1 \in Writes
      /\ \A k \in Reads' : k \in Nat /\ k + 1 \in Reads /\ calls'[k] = calls[k + 1]
      /\ \A k \in Writes' : k \in Nat /\ k + 1 \in Writes /\ calls'[k] = calls[k + 1]
      /\ \A k \in Reads : k = 1 \/ k - 1 \in Reads'
      /\ \A k \in Writes : k = 1 \/ k - 1 \in Writes'
      /\ calls' # <<>> => calls'[Len(calls')] = calls[Len(calls)]
  BY <1>1, Unqueued DEF PrefsInv, FileShapes
<1>3. e.text \in Prefs!Config /\ 1 \notin Reads /\ phase \in {"loaded", "painting", "ready"}
  <2>1. e.text \in Prefs!Config
    BY <1>1, <1>2, CallsFacts DEF PrefsInv
  <2>2. 1 \notin Reads
    BY <1>2, CallsFacts DEF PrefsInv
  <2>3. phase # "boot"
    BY <1>1 DEF PrefsInv, Staged
  <2>4. phase # "loading"
    <3>1. phase = "loading" => calls = <<Prefs!readConfig("start")>>
      BY <1>1 DEF PrefsInv, Staged
    <3>2. calls = <<Prefs!readConfig("start")>> => Head(calls).cmd = "read"
      BY DEF Prefs!readConfig
    <3> QED  BY <1>1, <3>1, <3>2
  <2> QED  BY <2>1, <2>2, <2>3, <2>4 DEF PrefsInv, FileShapes
<1> HIDE DEF e
<1>4. FileShapes'
  <2>1. disk' \in FileText /\ unread' \in BOOLEAN /\ failed' \in BOOLEAN
    BY <1>1, <1>3 DEF PrefsInv, FileShapes, FileText
  <2> QED  BY <1>1, <1>2, <2>1 DEF PrefsInv, FileShapes
<1>5. Staged' /\ Painted'
  <2>1. Reads = {} => Reads' = {}
    BY <1>2
  <2>2. phase = "ready" => \A k \in Reads' : calls'[k].why = "focus"
    BY <1>2 DEF PrefsInv, Staged
  <2> QED  BY <1>1, <1>3, <2>1, <2>2 DEF PrefsInv, Staged, Painted
<1>6. Works' = Works /\ Prefs!configFromStore(store)' = Prefs!configFromStore(store)
  BY <1>1 DEF Works, Prefs!configFromStore
<1>7. ASSUME ~crossed', Overlaps
      PROVE  \E c \in Prefs!Config : OneValue(c)' /\ (~Overlaps' => Settled')
  <2>1. PICK c \in Prefs!Config : OneValue(c)
    BY <1>1, <1>3, <1>7 DEF PrefsInv, Agreed
  <2>2. e.text = c /\ \A k \in Writes' : calls'[k].text = c
    BY <1>2, <2>1 DEF OneValue
  <2>3. Prefs!Parses(c) /\ Prefs!parseConfig(c) = c
    BY ParseIs
  <2>4. (unread \/ Means(disk, c))' /\ (disk' = c \/ (disk' = disk /\ unread' = unread))
    BY <1>1, <2>1, <2>2, <2>3 DEF OneValue, Means, Prefs!Parses
  <2>5. \A k \in Works' : Means(answers[k].text, c)'
    BY <1>1, <1>6, <2>1 DEF OneValue, Means, Prefs!Parses
  <2>6. c = Prefs!configFromStore(store)'
        \/ ((unread \/ Prefs!Parses(disk))' /\ Works' # {} /\ \A k \in Works' : Prefs!Parses(answers[k].text)')
    BY <1>1, <1>6, <2>1, <2>3, <2>4 DEF OneValue, Prefs!Parses
  <2>7. OneValue(c)'
    BY <2>2, <2>4, <2>5, <2>6 DEF OneValue
  <2>8. ~Overlaps' => Settled'
    <3> SUFFICES ASSUME ~Overlaps', Reads' = {}
                 PROVE  /\ calls' # <<>> => calls'[Len(calls')].text = Prefs!configFromStore(store)'
                        /\ calls' = <<>> /\ ~unread' /\ ~failed' =>
                             Means(disk, Prefs!configFromStore(store))'
      BY DEF Settled
    <3>1. c = Prefs!configFromStore(store)'
      BY <2>6 DEF Overlaps
    <3>2. calls' # <<>> => Len(calls') \in Writes'
      BY <1>2, LastWrites DEF Reads, Writes
    <3> QED  BY <2>2, <2>4, <3>1, <3>2
  <2> QED  BY <2>7, <2>8
<1>8. ASSUME ~crossed', ~Overlaps
      PROVE  ~Overlaps' /\ Settled'
  <2>1. ~Overlaps'
    <3>1. Works' = {}
      BY <1>6, <1>8 DEF Overlaps
    <3>2. ASSUME NEW i \in Reads', NEW j \in Writes', i < j PROVE FALSE
      <4>1. i + 1 \in Reads /\ j + 1 \in Writes /\ i + 1 < j + 1
        BY <1>2, <3>2
      <4> QED  BY <1>8, <4>1 DEF Overlaps
    <3> QED  BY <3>1, <3>2 DEF Overlaps
  <2>2. Settled
    BY <1>1, <1>3, <1>8 DEF PrefsInv, Agreed
  <2>3. Settled'
    <3> SUFFICES ASSUME Reads' = {}
                 PROVE  /\ calls' # <<>> => calls'[Len(calls')].text = Prefs!configFromStore(store)'
                        /\ calls' = <<>> /\ ~unread' /\ ~failed' =>
                             Means(disk, Prefs!configFromStore(store))'
      BY DEF Settled
    <3>1. Reads = {}
      BY <1>2, <1>3
    <3>2. calls[Len(calls)].text = Prefs!configFromStore(store)
      BY <1>1, <2>2, <3>1 DEF Settled
    <3>3. ASSUME calls' = <<>>, ~failed' PROVE Means(disk, Prefs!configFromStore(store))'
      <4>1. Len(calls) = 1 /\ disk' = e.text
        BY <1>1, <1>2, <3>3
      <4>2. disk' = Prefs!configFromStore(store) /\ Prefs!configFromStore(store) \in Prefs!Config
        BY <1>2, <1>3, <3>2, <4>1
      <4> QED  BY <1>6, <4>2, ParseIs DEF Means
    <3> QED  BY <1>2, <1>6, <3>2, <3>3
  <2> QED  BY <2>1, <2>3
<1>9. Agreed'
  BY <1>7, <1>8 DEF Agreed
<1> QED  BY <1>4, <1>5, <1>9 DEF PrefsInv

\* What was read is applied.
LEMMA AnswerKeeps ==
  ASSUME Prefs!SettingsAssumption, PrefsInv, Prefs!Loaded
  PROVE  PrefsInv'
<1> DEFINE a == Head(answers)
           changed == a.works /\ Prefs!Parses(a.text)
           new == IF changed THEN Prefs!applyConfigToStore(Prefs!parseConfig(a.text)) ELSE store
           seen == panel # None /\ panel.seen # Prefs!Watched(new)
<1>1. /\ answers # <<>> /\ answers' = Tail(answers) /\ store' = new
      /\ panel' = IF seen THEN [panel EXCEPT !.seen = Prefs!Watched(new)] ELSE panel
      /\ calls' = IF seen \/ (a.works /\ a.text = Blank)
                  THEN Append(calls, Prefs!writeConfig(new)) ELSE calls
      /\ phase' = IF a.why = "start" THEN "loaded" ELSE phase
      /\ \/ changed /\ a.why = "focus" /\ Prefs!applyAppearance(new)
         \/ ~(changed /\ a.why = "focus") /\ token' = token /\ loads' = loads
      /\ disk' = disk /\ shown' = shown /\ unread' = unread /\ failed' = failed
      /\ crossed' = crossed
  BY DEF Prefs!Loaded
<1>2. /\ answers' \in Seq(Answers) /\ Len(answers) \in Nat /\ Len(answers) >= 1
      /\ Len(answers') = Len(answers) - 1
      /\ a = answers[1] /\ a \in Answers /\ 1 \in 1..Len(answers)
      /\ \A i \in 1..Len(answers') : answers'[i] = answers[i + 1] /\ i + 1 \in 1..Len(answers)
      /\ \A i \in 1..Len(answers) :
           i = 1 \/ (i - 1 \in 1..Len(answers') /\ answers'[i - 1] = answers[i])
  <2>1. answers \in Seq(Answers)
    BY DEF PrefsInv, FileShapes
  <2> QED  BY <1>1, <2>1, Taken
<1>3. a.why \in {"start", "focus"} /\ a.works \in BOOLEAN /\ a.text \in FileText
  BY <1>2 DEF Answers
<1>4. /\ phase \in {"loading", "ready"}
      /\ phase = "loading" => a.why = "start" /\ Len(answers) = 1 /\ calls = <<>> /\ panel = None
      /\ phase = "ready" => a.why = "focus"
  BY <1>1, <1>2 DEF PrefsInv, FileShapes, Staged
<1>5. /\ new \in Stores
      /\ changed => Prefs!configFromStore(new) = Prefs!parseConfig(a.text)
      /\ ~changed => new = store
  <2>1. CASE changed
    <3>1. Prefs!parseConfig(a.text) \in Prefs!Config
      BY <1>3, <2>1, ParseIs
    <3>2. PICK cfg \in Prefs!Config : cfg = Prefs!parseConfig(a.text)
      BY <3>1
    <3>3. new = [store EXCEPT !.theme = cfg.theme, !.lines = cfg.lines, !.proxy = cfg.proxy]
      BY <2>1, <3>2 DEF Prefs!applyConfigToStore
    <3>4. cfg.theme \in Theme /\ cfg.lines \in Prefs!Lines /\ cfg.proxy \in Proxy
          /\ cfg = [theme |-> cfg.theme, lines |-> cfg.lines, proxy |-> cfg.proxy]
      BY DEF Prefs!Config
    <3>5. store \in Stores
      BY DEF PrefsInv, FileShapes
    <3>6. new \in Stores /\ new.theme = cfg.theme /\ new.lines = cfg.lines
          /\ new.proxy = cfg.proxy
      BY <3>3, <3>4, <3>5 DEF Stores
    <3> HIDE DEF new
    <3> QED  BY <2>1, <3>2, <3>4, <3>6 DEF Prefs!configFromStore
  <2>2. CASE ~changed
    BY <2>2 DEF PrefsInv, FileShapes
  <2> QED  BY <2>1, <2>2
<1>6. Prefs!Watched(new) \in [theme : Theme, lines : Prefs!Lines] /\ new.theme \in Theme
      /\ Prefs!configFromStore(new) \in Prefs!Config
  <2>1. \A s \in Stores : Prefs!Watched(s) \in [theme : Theme, lines : Prefs!Lines] /\ s.theme \in Theme
    BY DEF Stores, Prefs!Watched
  <2> QED  BY <1>5, <2>1, ParseIs
<1>7. ~changed => ~seen
  BY <1>5 DEF PrefsInv, Staged
<1> HIDE DEF a, new, seen, changed
<1>8. /\ calls' \in Seq(Reloads) /\ Reads' = Reads
      /\ \A k \in Reads : calls'[k] = calls[k]
      /\ \A k \in Writes' : (k \in Writes /\ calls'[k] = calls[k])
                            \/ calls'[k].text = Prefs!configFromStore(new)
      /\ calls' = calls \/ calls' # <<>>
  <2> DEFINE e == Prefs!writeConfig(new)
  <2>1. CASE calls' = Append(calls, e)
    <3>1. e \in Reloads /\ e.cmd = "write" /\ e.text = Prefs!configFromStore(new)
      BY <1>6 DEF Prefs!writeConfig, Reloads
    <3> HIDE DEF e
    <3>2. calls \in Seq(Reloads)
      BY DEF PrefsInv, FileShapes
    <3>3. /\ calls' \in Seq(Reloads) /\ calls' # <<>> /\ calls'[Len(calls')] = e
          /\ Reads' = Reads /\ Writes' = Writes \cup {Len(calls')}
          /\ \A k \in 1..Len(calls) : calls'[k] = calls[k]
      BY <2>1, <3>1, <3>2, Queued
    <3>4. \A k \in Reads \cup Writes : calls'[k] = calls[k]
      BY <3>3 DEF Reads, Writes
    <3> QED  BY <3>1, <3>3, <3>4
  <2>2. CASE calls' = calls
    BY <2>2 DEF PrefsInv, FileShapes, Reads, Writes
  <2> QED  BY <1>1, <2>1, <2>2
<1>9. panel' # None => /\ panel' \in [draft : Prefs!Lines, seen : [theme : Theme, lines : Prefs!Lines]]
                       /\ panel'.seen = Prefs!Watched(new) /\ phase = "ready"
  <2>1. CASE seen
    <3>1. panel \in [draft : Prefs!Lines, seen : [theme : Theme, lines : Prefs!Lines]] /\ phase = "ready"
      BY <2>1 DEF PrefsInv, FileShapes, Staged, seen
    <3>2. panel' = [panel EXCEPT !.seen = Prefs!Watched(new)]
      BY <1>1, <2>1
    <3> QED  BY <1>6, <3>1, <3>2
  <2>2. CASE ~seen
    <3>1. panel' = panel
      BY <1>1, <2>2
    <3> QED  BY <2>2, <3>1 DEF PrefsInv, FileShapes, Staged, seen
  <2> QED  BY <2>1, <2>2
<1>10. /\ token' \in Nat /\ \A l \in loads' : l.token \in 1..token' /\ l.theme \in Theme
       /\ phase = "loading" => loads' = loads
       /\ phase = "ready" => /\ \A l \in loads' : l.token = token' => l.theme = new.theme
                             /\ (\A l \in loads' : l.token # token') => shown = new.theme
  <2>1. CASE changed /\ a.why = "focus" /\ Prefs!applyAppearance(new)
    <3>1. phase # "loading"
      BY <1>4, <2>1
    <3> QED  BY <1>6, <2>1, <3>1, AppearanceEffect DEF PrefsInv, FileShapes
  <2>2. CASE ~(changed /\ a.why = "focus") /\ token' = token /\ loads' = loads
    <3>1. phase = "ready" => new = store
      BY <1>4, <1>5, <2>2
    <3> QED  BY <2>2, <3>1 DEF PrefsInv, FileShapes, Painted
  <2> QED  BY <1>1, <2>1, <2>2
<1>11. phase' = IF phase = "loading" THEN "loaded" ELSE "ready"
  BY <1>1, <1>4
<1>12. FileShapes'
  BY <1>1, <1>2, <1>5, <1>8, <1>9, <1>10, <1>11 DEF PrefsInv, FileShapes
<1>13. Staged'
  <2>1. CASE phase = "loading"
    <3>1. answers' = <<>> /\ Reads' = {} /\ loads' = {} /\ panel' = None /\ shown' = None
      <4>1. Len(answers') = 0
        <5>1. Len(answers) = 1
          BY <1>4, <2>1
        <5>2. Len(answers') = Len(answers) - 1
          BY <1>2
        <5> QED  BY <5>1, <5>2
      <4>3. Reads = {}
        BY <1>4, <2>1 DEF Reads
      <4>2. answers' = <<>>
        BY <1>2, <4>1
      <4> QED  BY <1>1, <1>8, <1>9, <1>10, <2>1, <4>3, <4>2 DEF PrefsInv, Staged
    <3> QED  BY <1>11, <2>1, <3>1 DEF Staged
  <2>2. CASE phase = "ready"
    <3>1. \A k \in Reads' : calls'[k].why = "focus"
      BY <1>8, <2>2 DEF PrefsInv, Staged
    <3>2. \A k \in 1..Len(answers') : answers'[k].why = "focus"
      BY <1>2, <2>2 DEF PrefsInv, Staged
    <3>3. panel' # None => panel'.seen = Prefs!Watched(store')
      BY <1>1, <1>9
    <3>4. phase' = "ready" /\ shown' # None
      BY <1>1, <1>11, <2>2 DEF PrefsInv, Staged
    <3>5. Prefs!Watched(store') = Prefs!Watched(store)'
      BY DEF Prefs!Watched
    <3> QED  BY <3>1, <3>2, <3>3, <3>4, <3>5 DEF Staged
  <2> QED  BY <1>4, <2>1, <2>2
<1>14. Painted'
  BY <1>1, <1>10, <1>11 DEF Painted
<1>15. Prefs!configFromStore(store)' = Prefs!configFromStore(new)
  BY <1>1 DEF Prefs!configFromStore
<1>16. /\ \A k \in Works' : k \in Nat /\ k + 1 \in Works /\ answers'[k] = answers[k + 1]
       /\ a.works => 1 \in Works
       /\ ~a.works => (Works # {} => Works' # {})
  <2>1. \A k \in Works' : k \in Nat /\ k + 1 \in Works /\ answers'[k] = answers[k + 1]
    BY <1>2 DEF Works
  <2>2. a.works => 1 \in Works
    BY <1>2 DEF Works
  <2>3. ASSUME ~a.works, NEW k \in Works PROVE Works' # {}
    <3>1. k \in 1..Len(answers) /\ answers[k].works /\ k # 1
      BY <1>2, <2>3 DEF Works
    <3>2. PICK j \in 1..Len(answers') : answers'[j] = answers[k]
      BY <1>2, <3>1
    <3>3. j \in Works'
      BY <3>1, <3>2 DEF Works
    <3> QED  BY <3>3
  <2> QED  BY <2>1, <2>2, <2>3
<1>17. ASSUME ~crossed, a.works = TRUE PROVE Agreed'
  <2>1. PICK c \in Prefs!Config : OneValue(c)
    BY <1>4, <1>16, <1>17 DEF PrefsInv, Agreed, Overlaps
  <2>2. Means(a.text, c)
    BY <1>2, <1>16, <1>17, <2>1 DEF OneValue
  <2>3. c = Prefs!configFromStore(new)
    <3>1. CASE changed
      BY <1>5, <2>2, <3>1 DEF Means, changed
    <3>2. CASE ~changed
      <4>1. ~Prefs!Parses(answers[1].text)
        BY <1>2, <1>17, <3>2 DEF changed
      <4>2. c = Prefs!configFromStore(store)
        BY <1>16, <1>17, <2>1, <4>1 DEF OneValue
      <4> QED  BY <1>5, <3>2, <4>2
    <3> QED  BY <3>1, <3>2
  <2>4. \A k \in Writes' : calls'[k].text = c
    BY <1>8, <2>1, <2>3 DEF OneValue
  <2>5. (unread \/ Means(disk, c))'
    BY <1>1, <2>1 DEF OneValue, Means, Prefs!Parses
  <2>6. \A k \in Works' : Means(answers[k].text, c)'
    <3>1. \A k \in Works' : Means(answers'[k].text, c)
      BY <1>16, <2>1 DEF OneValue
    <3> QED  BY <3>1 DEF Means, Prefs!Parses
  <2>7. OneValue(c)'
    BY <1>15, <2>3, <2>4, <2>5, <2>6 DEF OneValue
  <2>8. Settled'
    <3> SUFFICES ASSUME Reads' = {}
                 PROVE  /\ calls' # <<>> => calls'[Len(calls')].text = Prefs!configFromStore(store)'
                        /\ calls' = <<>> /\ ~unread' /\ ~failed' =>
                             Means(disk, Prefs!configFromStore(store))'
      BY DEF Settled
    <3>1. c = Prefs!configFromStore(store)'
      BY <1>15, <2>3
    <3>2. calls' # <<>> => Len(calls') \in Writes'
      BY <1>8, LastWrites DEF Reads, Writes
    <3> QED  BY <2>4, <2>5, <3>1, <3>2
  <2> QED  BY <2>7, <2>8 DEF Agreed
<1>18. ASSUME ~crossed, a.works = FALSE PROVE Agreed'
  <2>1. ~changed /\ ~seen /\ calls' = calls /\ new = store
    BY <1>1, <1>5, <1>7, <1>18 DEF changed
  <2>2. Reads' = Reads /\ Writes' = Writes /\ (Works' # {} <=> Works # {})
    BY <1>16, <1>18, <2>1 DEF Reads, Writes
  <2>3. Overlaps' <=> Overlaps
    BY <2>2 DEF Overlaps
  <2>4. Prefs!configFromStore(store)' = Prefs!configFromStore(store)
    BY <1>15, <2>1
  <2>5. ASSUME NEW c \in Prefs!Config, OneValue(c) PROVE OneValue(c)'
    <3>1. /\ \A k \in Writes' : calls'[k].text = c
          /\ (unread \/ Means(disk, c))'
      BY <1>1, <2>1, <2>2, <2>5 DEF OneValue, Means, Prefs!Parses
    <3>2. \A k \in Works' : Means(answers'[k].text, c)
      BY <1>16, <2>5 DEF OneValue
    <3>3. \A k \in Works' : Means(answers[k].text, c)'
      BY <3>2 DEF Means, Prefs!Parses
    <3>4. c = Prefs!configFromStore(store) \/ \A k \in Works' : Prefs!Parses(answers'[k].text)
      BY <1>16, <2>5 DEF OneValue
    <3>5. c = Prefs!configFromStore(store) \/ \A k \in Works' : Prefs!Parses(answers[k].text)'
      BY <3>4 DEF Prefs!Parses
    <3>6. c = Prefs!configFromStore(store) \/ ((unread \/ Prefs!Parses(disk))' /\ Works' # {})
      BY <1>1, <2>2, <2>5 DEF OneValue, Prefs!Parses
    <3> QED  BY <2>4, <3>1, <3>3, <3>5, <3>6 DEF OneValue
  <2>6. Settled => Settled'
    BY <1>1, <2>1, <2>2, <2>4 DEF Settled, Means, Prefs!Parses
  <2> QED  BY <1>4, <1>18, <2>3, <2>5, <2>6 DEF PrefsInv, Agreed
<1>19. Agreed'
  <2>1. a.works = TRUE \/ a.works = FALSE
    BY <1>3
  <2>2. crossed => Agreed'
    BY <1>1 DEF Agreed
  <2> QED  BY <1>17, <1>18, <2>1, <2>2
<1> QED  BY <1>12, <1>13, <1>14, <1>19 DEF PrefsInv

\* The settings changed and are written at once.
LEMMA SentKeeps ==
  ASSUME Prefs!SettingsAssumption, PrefsInv, store' \in Stores, phase = "ready",
         calls' = Append(calls, Prefs!writeConfig(store')), answers' = answers, disk' = disk,
         crossed' = (crossed \/ Prefs!Reading)
  PROVE  /\ calls' \in Seq(Reloads) /\ crossed' \in BOOLEAN /\ Agreed'
         /\ \A k \in Reads' : calls'[k].why = "focus"
<1> DEFINE e == Prefs!writeConfig(store')
<1>1. e \in Reloads /\ e.cmd = "write" /\ e.text = Prefs!configFromStore(store')
  <2>1. Prefs!configFromStore(store') \in Prefs!Config
    BY ParseIs
  <2> QED  BY <2>1 DEF Prefs!writeConfig, Reloads
<1>2. calls' = Append(calls, e)
  OBVIOUS
<1> HIDE DEF e
<1>3. /\ calls' \in Seq(Reloads) /\ calls' # <<>> /\ calls'[Len(calls')] = e
      /\ Reads' = Reads /\ \A k \in 1..Len(calls) : calls'[k] = calls[k]
  BY <1>1, <1>2, Queued DEF PrefsInv, FileShapes
<1>4. \A k \in Reads' : calls'[k].why = "focus"
  BY <1>3 DEF Reads, PrefsInv, Staged
<1>5. ASSUME ~crossed' PROVE ~Overlaps' /\ Settled'
  <2>1. answers = <<>> /\ Reads = {}
    BY <1>5 DEF Prefs!Reading, Reads
  <2>2. ~Overlaps'
    BY <1>3, <2>1 DEF Overlaps, Works
  <2>3. Prefs!configFromStore(store') = Prefs!configFromStore(store)'
    BY DEF Prefs!configFromStore
  <2> QED  BY <1>1, <1>3, <2>2, <2>3 DEF Settled
<1> QED  BY <1>3, <1>4, <1>5 DEF Agreed, Prefs!Reading

\* The user changes something in the panel.
LEMMA ChangesKeep ==
  ASSUME Prefs!SettingsAssumption, PrefsInv, NEW new \in Stores, NEW draft \in Prefs!Lines,
         new.proxy = store.proxy, Prefs!Changes(new, draft)
  PROVE  PrefsInv'
<1>1. /\ panel # None /\ store' = new /\ panel' = [draft |-> draft, seen |-> Prefs!Watched(new)]
      /\ crossed' = (crossed \/ (Prefs!Reading /\ Prefs!configFromStore(new) # Prefs!configFromStore(store)))
      /\ \/ /\ panel.seen # Prefs!Watched(new) /\ calls' = Append(calls, Prefs!writeConfig(new))
            /\ Prefs!applyAppearance(new)
         \/ panel.seen = Prefs!Watched(new) /\ calls' = calls /\ token' = token /\ loads' = loads
      /\ disk' = disk /\ answers' = answers /\ phase' = phase /\ shown' = shown
      /\ unread' = unread /\ failed' = failed
  BY DEF Prefs!Changes
<1>2. phase = "ready" /\ panel.seen = Prefs!Watched(store)
  BY <1>1 DEF PrefsInv, Staged
<1>3. Prefs!Watched(new) = Prefs!Watched(store) <=> Prefs!configFromStore(new) = Prefs!configFromStore(store)
  <2>1. Prefs!Watched(new) = Prefs!Watched(store) <=> new.theme = store.theme /\ new.lines = store.lines
    BY DEF Prefs!Watched
  <2>2. Prefs!configFromStore(new) = Prefs!configFromStore(store) <=>
          new.theme = store.theme /\ new.lines = store.lines
    BY DEF Prefs!configFromStore
  <2> QED  BY <2>1, <2>2
<1>4. new.theme \in Theme /\ panel' \in [draft : Prefs!Lines, seen : [theme : Theme, lines : Prefs!Lines]]
      /\ panel'.seen = Prefs!Watched(new)
  BY <1>1 DEF Stores, Prefs!Watched
<1>5. Prefs!Watched(new) = Prefs!Watched(store)' /\ Prefs!configFromStore(store)' = Prefs!configFromStore(new)
  BY <1>1 DEF Prefs!Watched, Prefs!configFromStore
<1>6. CASE Prefs!Watched(new) # Prefs!Watched(store)
  <2>1. /\ calls' = Append(calls, Prefs!writeConfig(store')) /\ Prefs!applyAppearance(new)
        /\ crossed' = (crossed \/ Prefs!Reading)
    BY <1>1, <1>2, <1>3, <1>6
  <2>2. /\ calls' \in Seq(Reloads) /\ crossed' \in BOOLEAN /\ Agreed'
        /\ \A k \in Reads' : calls'[k].why = "focus"
    BY <1>1, <1>2, <2>1, SentKeeps
  <2>3. /\ token' \in Nat /\ \A l \in loads' : l.token \in 1..token' /\ l.theme \in Theme
        /\ \A l \in loads' : l.token = token' => l.theme = new.theme
        /\ \E l \in loads' : l.token = token'
    BY <1>4, <2>1, AppearanceEffect DEF PrefsInv, FileShapes
  <2>4. FileShapes'
    BY <1>1, <1>4, <2>2, <2>3 DEF PrefsInv, FileShapes
  <2>5. Staged'
    BY <1>1, <1>2, <1>4, <1>5, <2>2 DEF PrefsInv, Staged
  <2>6. Painted'
    BY <1>1, <2>3 DEF Painted
  <2> QED  BY <2>2, <2>4, <2>5, <2>6 DEF PrefsInv
<1>7. CASE Prefs!Watched(new) = Prefs!Watched(store)
  <2>1. /\ calls' = calls /\ token' = token /\ loads' = loads /\ crossed' = crossed
        /\ Prefs!configFromStore(store)' = Prefs!configFromStore(store)
    <3>1. crossed \in BOOLEAN
      BY DEF PrefsInv, FileShapes
    <3> QED  BY <1>1, <1>2, <1>3, <1>5, <1>7, <3>1
  <2>2. new.theme = store.theme
    BY <1>7 DEF Prefs!Watched
  <2>3. FileShapes'
    BY <1>1, <1>4, <2>1 DEF PrefsInv, FileShapes
  <2>4. Staged'
    BY <1>1, <1>2, <1>4, <1>5, <2>1 DEF PrefsInv, Staged, Reads
  <2>5. Painted'
    BY <1>1, <2>1, <2>2 DEF PrefsInv, Painted
  <2>6. Agreed'
    BY <1>1, <1>2, <2>1, AgreedKept DEF PrefsInv
  <2> QED  BY <2>3, <2>4, <2>5, <2>6 DEF PrefsInv
<1> QED  BY <1>6, <1>7

LEMMA PanelKeeps ==
  ASSUME Prefs!SettingsAssumption, PrefsInv,
         \/ \E t \in Theme : Prefs!setTheme(t)
         \/ \E n \in Prefs!Typed : Prefs!commitScrollbackDraft(n)
         \/ panel # None /\ (Prefs!setAlertSound \/ Prefs!toggleUnlimited)
  PROVE  PrefsInv'
<1>1. store \in Stores /\ store.theme \in Theme /\ store.lines \in Prefs!Lines
      /\ store.proxy \in Proxy /\ store.sound \in BOOLEAN
  BY DEF PrefsInv, FileShapes, Stores
<1>2. panel # None => panel.draft \in Prefs!Lines
  BY DEF PrefsInv, FileShapes
<1>3. ASSUME NEW t \in Theme, Prefs!setTheme(t) PROVE PrefsInv'
  <2>1. Prefs!Changes([store EXCEPT !.theme = t], panel.draft) /\ panel # None
    BY <1>3 DEF Prefs!setTheme, Prefs!Changes
  <2>2. [store EXCEPT !.theme = t] \in Stores /\ [store EXCEPT !.theme = t].proxy = store.proxy
    BY <1>1 DEF Stores
  <2> QED  BY <1>2, <2>1, <2>2, ChangesKeep
<1>4. ASSUME NEW n \in Prefs!Lines, NEW d \in Prefs!Lines, Prefs!Changes([store EXCEPT !.lines = n], d)
      PROVE  PrefsInv'
  <2>1. [store EXCEPT !.lines = n] \in Stores /\ [store EXCEPT !.lines = n].proxy = store.proxy
    BY <1>1 DEF Stores
  <2> QED  BY <1>4, <2>1, ChangesKeep
<1>5. ASSUME NEW n \in Prefs!Typed, Prefs!commitScrollbackDraft(n) PROVE PrefsInv'
  <2>1. Prefs!Clamp(n) \in Prefs!Lines
    BY ParseIs DEF Prefs!Typed
  <2> QED  BY <1>4, <1>5, <2>1 DEF Prefs!commitScrollbackDraft
<1>6. ASSUME panel # None, Prefs!setAlertSound PROVE PrefsInv'
  <2>1. [store EXCEPT !.sound = ~@] \in Stores
        /\ [store EXCEPT !.sound = ~@].proxy = store.proxy
    BY <1>1 DEF Stores
  <2> QED  BY <1>2, <1>6, <2>1, ChangesKeep DEF Prefs!setAlertSound
<1>7. ASSUME panel # None, Prefs!toggleUnlimited PROVE PrefsInv'
  <2> DEFINE n == IF panel.draft = 0 THEN Prefs!DefaultLines ELSE panel.draft
  <2>1. n \in Prefs!Lines /\ Prefs!clampScrollback(n) \in Prefs!Lines /\ Prefs!Unlimited \in Prefs!Lines
    <3>1. n \in Prefs!Lines /\ Prefs!Lines \subseteq Int /\ Prefs!Unlimited \in Prefs!Lines
      BY <1>2, <1>7 DEF Prefs!Lines, Prefs!Unlimited, Prefs!MinLines, Prefs!MostLines,
         Prefs!DefaultLines
    <3> QED  BY <3>1, ParseIs
  <2>2. \/ Prefs!Changes([store EXCEPT !.lines = Prefs!clampScrollback(n)], n)
        \/ Prefs!Changes([store EXCEPT !.lines = Prefs!Unlimited], panel.draft)
    BY <1>7 DEF Prefs!toggleUnlimited
  <2> HIDE DEF n
  <2>3. CASE Prefs!Changes([store EXCEPT !.lines = Prefs!clampScrollback(n)], n)
    BY <1>4, <2>1, <2>3
  <2>4. CASE Prefs!Changes([store EXCEPT !.lines = Prefs!Unlimited], panel.draft)
    BY <1>2, <1>4, <1>7, <2>1, <2>4
  <2> QED  BY <2>2, <2>3, <2>4
<1> QED  BY <1>3, <1>5, <1>6, <1>7

\* The update tab writes for itself.
LEMMA ProxyKeeps ==
  ASSUME Prefs!SettingsAssumption, PrefsInv, NEW p \in Proxy, Prefs!setUpdateHttpProxy(p)
  PROVE  PrefsInv'
<1>1. /\ panel # None /\ store' = [store EXCEPT !.proxy = p]
      /\ calls' = Append(calls, Prefs!writeConfig(store')) /\ crossed' = (crossed \/ Prefs!Reading)
      /\ disk' = disk /\ answers' = answers /\ phase' = phase /\ panel' = panel
      /\ unread' = unread /\ failed' = failed /\ token' = token /\ loads' = loads
      /\ shown' = shown
  BY DEF Prefs!setUpdateHttpProxy, Prefs!LookUnchanged
<1>2. phase = "ready" /\ panel.seen = Prefs!Watched(store)
  BY <1>1 DEF PrefsInv, Staged
<1>3. store' \in Stores /\ Prefs!Watched(store)' = Prefs!Watched(store) /\ store'.theme = store.theme
  BY <1>1 DEF PrefsInv, FileShapes, Stores, Prefs!Watched
<1>4. /\ calls' \in Seq(Reloads) /\ crossed' \in BOOLEAN /\ Agreed'
      /\ \A k \in Reads' : calls'[k].why = "focus"
  BY <1>1, <1>2, <1>3, SentKeeps
<1>5. FileShapes'
  BY <1>1, <1>3, <1>4 DEF PrefsInv, FileShapes
<1>6. Staged' /\ Painted'
  BY <1>1, <1>2, <1>3, <1>4 DEF PrefsInv, Staged, Painted
<1> QED  BY <1>4, <1>5, <1>6 DEF PrefsInv

LEMMA StepPrefs ==
  ASSUME Prefs!SettingsAssumption, PrefsInv, [Prefs!Next]_(Prefs!vars)
  PROVE  PrefsInv'
<1>1. CASE UNCHANGED Prefs!vars
  BY <1>1 DEF Prefs!vars, PrefsInv, FileShapes, Staged, Painted, Agreed, Reads, Writes,
     Works,
              Overlaps, OneValue, Settled, Means, Prefs!Watched, Prefs!configFromStore
<1>2. CASE Prefs!Next
  BY <1>2, BootKeeps, PaintKeeps, ReadKeeps, WriteKeeps, AnswerKeeps, FocusKeeps,
     RestartKeeps, FontKeeps, EditKeeps, PanelOpened, PanelClosed, PanelKeeps, ProxyKeeps
  DEF Prefs!Next
<1> QED  BY <1>1, <1>2
=============================================================================
