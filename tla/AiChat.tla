------------------------------- MODULE AiChat -------------------------------
(***************************************************************************)
(* The AI sidebar (ai-store.ts, AiSidebar.tsx): a chat whose replies are   *)
(* streamed, or an agent that asks the model what to run, asks the user    *)
(* about each command, runs it in a pane and reports back.                 *)
(*                                                                         *)
(* `ai` is the GUI's state, one thread; `stream` is the request at the     *)
(* backend.  What is said plays no part: a turn is its role and whether it *)
(* waits or failed, a tool call is one of three kinds.                     *)
(***************************************************************************)
EXTENDS Naturals, Sequences, FiniteSets

CONSTANTS
  None,
  MaxSteps,   \* MAX_AGENT_STEPS
  MaxSends,   \* bound: messages the user sends
  MaxCalls    \* bound: tool calls in one reply

ChatAssumption == MaxSteps \in Nat /\ MaxSends \in Nat /\ MaxCalls \in Nat

VARIABLES ai, stream, sends

aiVars == <<ai, stream, sends>>

\* A call of the tool run_command, one of another tool, one without a command.
Kinds == {"command", "unknown", "empty"}

\* Where the code waits: nowhere, for the stream, for the model, for the user,
\* for the control of a read-only pane, for a command.
Waits == {"idle", "stream", "model", "user", "control", "command"}

\* A stream's command before it has registered its cancel flag, waiting for the
\* provider's answer, and reading the answer.
Phases == {"off", "starting", "asking", "open"}

TypeOK ==
  /\ ai.turns \in Seq([id : Nat, role : {"user", "assistant", "tool"},
                       pending : BOOLEAN, error : BOOLEAN])
  /\ ai.sending \in BOOLEAN /\ ai.agentMode \in BOOLEAN /\ ai.autoApprove \in BOOLEAN
  /\ ai.approval \in BOOLEAN /\ ai.at \in Waits /\ ai.step \in 0 .. MaxSteps
  /\ ai.calls \in Seq(Kinds) /\ Len(ai.calls) <= MaxCalls
  /\ ai.answered <= ai.asked /\ ai.pane \in {"none", "open", "watched"}
  /\ stream.phase \in Phases /\ stream.flag \in BOOLEAN
  /\ ai.agreed \in BOOLEAN /\ sends \in 0 .. MaxSends

----------------------------------------------------------------------------
(* The transcript.                                                         *)

Turn(id, role, pending, error) ==
  [id |-> id, role |-> role, pending |-> pending, error |-> error]

AddTurn(g, role, error) ==
  [g EXCEPT !.turns = Append(@, Turn(g.minted + 1, role, FALSE, error)), !.minted = @ + 1]

\* A turn that is gone (clear) is not found.
SetTurn(g, id, pending, error) ==
  [g EXCEPT !.turns = [i \in DOMAIN @ |->
     IF @[i].id = id THEN [@[i] EXCEPT !.pending = pending, !.error = error] ELSE @[i]]]

Done(g) == [g EXCEPT !.sending = FALSE, !.at = "idle"]

\* The tool message that answers the first call of the reply.
Answer(g) == [g EXCEPT !.calls = Tail(@), !.answered = @ + 1]

\* Faulty: a refusal is shown and not reported.
DenyUnanswered(g) == AddTurn([g EXCEPT !.calls = Tail(@)], "tool", FALSE)

Deny(g) == AddTurn(Answer(g), "tool", FALSE)

\* runCommandInPane, to its first await: a pane that is only watched is taken
\* control of first.
Run(g) == [g EXCEPT !.at = IF g.pane = "watched" THEN "control" ELSE "command", !.agreed = TRUE]

NoPane(g) == AddTurn(Answer(g), "tool", FALSE)

\* The calls of the reply at which the loop has to wait: for the user to agree to a
\* command, or for the command.  Until then neither setting changes.
Waiting(g) == {i \in DOMAIN g.calls : g.calls[i] = "command" /\ (~g.autoApprove \/ g.pane # "none")}

\* The first n calls are answered at once; a command among them has no pane to run in.
Handled(g, n) ==
  LET noPane == Cardinality({i \in 1 .. n : g.calls[i] = "command"}) IN
  [g EXCEPT !.calls = SubSeq(@, n + 1, Len(@)), !.answered = @ + n,
            !.turns = @ \o [k \in 1 .. noPane |-> Turn(g.minted + k, "tool", FALSE, FALSE)],
            !.minted = @ + noPane]

\* The agent's loop from one await to the next.
Loop(g) ==
  IF Waiting(g) # {}
  THEN LET first == CHOOSE i \in Waiting(g) : \A j \in Waiting(g) : i <= j
           next == Handled(g, first - 1)
       IN IF g.autoApprove THEN Run(next) ELSE [next EXCEPT !.at = "user", !.approval = TRUE]
  ELSE LET next == Handled(g, Len(g.calls)) IN
       IF g.step + 1 >= MaxSteps THEN Done(next)
       ELSE [next EXCEPT !.step = @ + 1, !.at = "model"]

----------------------------------------------------------------------------
(* The user.                                                               *)

\* send, with a provider or without, with a pane to run commands in or without.
Send ==
  /\ ~ai.sending /\ sends < MaxSends /\ sends' = sends + 1
  /\ \E provider \in BOOLEAN, pane \in {"none", "open", "watched"} :
       LET first == ai.minted + 2
           g == [ai EXCEPT !.turns = @ \o <<Turn(ai.minted + 1, "user", FALSE, FALSE),
                                            Turn(first, "assistant", TRUE, FALSE)>>,
                           !.minted = first, !.sending = TRUE, !.pane = pane,
                           !.first = first, !.reuse = TRUE, !.step = 0, !.calls = <<>>,
                           !.asked = 0, !.answered = 0]
       IN IF ~provider
          THEN ai' = Done(SetTurn(g, first, FALSE, TRUE)) /\ UNCHANGED stream
          ELSE IF g.agentMode
          THEN ai' = [g EXCEPT !.at = "model"] /\ UNCHANGED stream
          ELSE /\ ai' = [g EXCEPT !.at = "stream", !.streaming = TRUE]
               /\ stream' = [phase |-> "starting", flag |-> FALSE, cancel |-> FALSE]

Clear == ai.turns # <<>> /\ ai' = [ai EXCEPT !.turns = <<>>] /\ UNCHANGED <<stream, sends>>

SetAgentMode ==
  ~ai.sending /\ ai' = [ai EXCEPT !.agentMode = ~@] /\ UNCHANGED <<stream, sends>>

SetAutoApprove ==
  /\ ai.agentMode /\ ~ai.sending
  /\ ai' = [ai EXCEPT !.autoApprove = ~@] /\ UNCHANGED <<stream, sends>>

\* Forgets the stream, so that a second click does nothing.
Stop ==
  /\ ai.sending /\ ~ai.agentMode /\ ai.streaming
  /\ ai' = [ai EXCEPT !.streaming = FALSE]
  /\ stream' = [stream EXCEPT !.cancel = TRUE]
  /\ UNCHANGED sends

\* resolveApproval, and the loop goes on.
Resolve ==
  /\ ai.approval
  /\ LET g == [ai EXCEPT !.approval = FALSE] IN
     \E approved \in BOOLEAN :
       ai' = IF ~approved THEN Loop(Deny(g))
             ELSE IF g.pane = "none" THEN Loop(NoPane(g)) ELSE Run(g)
  /\ UNCHANGED <<stream, sends>>

----------------------------------------------------------------------------
(* What comes back.                                                        *)

\* Faulty: the flag is registered when the provider has answered.
CancelOpenOnly ==
  /\ stream.cancel
  /\ stream' = [stream EXCEPT !.cancel = FALSE, !.flag = @ \/ stream.phase = "open"]
  /\ UNCHANGED <<ai, sends>>

\* The cancellation reaches the backend, where only a registered stream has a
\* flag to set: one that comes before that is lost.
CancelArrives ==
  /\ stream.cancel
  /\ stream' = [stream EXCEPT !.cancel = FALSE, !.flag = @ \/ stream.phase \in {"asking", "open"}]
  /\ UNCHANGED <<ai, sends>>

StreamOpens ==
  /\ stream.phase = "starting" /\ stream' = [stream EXCEPT !.phase = "asking"]
  /\ UNCHANGED <<ai, sends>>

\* The provider answers; the flag is not read here.
Answers ==
  /\ stream.phase = "asking" /\ stream' = [stream EXCEPT !.phase = "open"]
  /\ UNCHANGED <<ai, sends>>

\* A chunk: the flag is read first, then its text is passed on.
Chunk ==
  /\ stream.phase = "open" /\ ~stream.flag
  /\ ai' = SetTurn(ai, ai.first, FALSE, FALSE)
  /\ UNCHANGED <<stream, sends>>

\* A stream that is not open can only fail, stopped or not; once it is, the next
\* chunk or error of a stopped one makes it done.
Errors ==
  IF stream.phase # "open" THEN {TRUE} ELSE IF stream.flag THEN {FALSE} ELSE BOOLEAN

\* The one last event: done, also after a cancellation, or an error.
StreamEnds ==
  /\ stream.phase # "off"
  /\ stream' = [stream EXCEPT !.phase = "off", !.flag = FALSE]
  /\ \E error \in Errors :
       ai' = Done([SetTurn(ai, ai.first, FALSE, error) EXCEPT !.streaming = FALSE])
  /\ UNCHANGED sends

\* The tool calls of a reply.
Replies == UNION {[1 .. n -> Kinds] : n \in 0 .. MaxCalls}

\* The model's reply is shown, in the turn that waits for it if it is the first;
\* that turn also stops waiting if there is neither text nor a call.
ModelReplies ==
  /\ ai.at = "model"
  /\ \E text \in BOOLEAN, calls \in Replies :
       LET g == CASE text /\ ai.reuse -> SetTurn(ai, ai.first, FALSE, FALSE)
                  [] text /\ ~ai.reuse -> AddTurn(ai, "assistant", FALSE)
                  [] ~text /\ ai.reuse /\ calls = <<>> -> SetTurn(ai, ai.first, FALSE, FALSE)
                  [] OTHER -> ai
           next == [g EXCEPT !.reuse = FALSE, !.calls = calls, !.asked = @ + Len(calls)]
       IN ai' = IF calls = <<>> THEN Done(next) ELSE Loop(next)
  /\ UNCHANGED <<stream, sends>>

\* The catch clause of the loop.
ModelFails ==
  /\ ai.at = "model"
  /\ ai' = IF \E i \in DOMAIN ai.turns : ai.turns[i].id = ai.first /\ ai.turns[i].pending
           THEN Done(SetTurn(ai, ai.first, FALSE, TRUE))
           ELSE Done(AddTurn(ai, "assistant", TRUE))
  /\ UNCHANGED <<stream, sends>>

ControlTaken ==
  /\ ai.at = "control"
  /\ \/ ai' = [ai EXCEPT !.at = "command", !.pane = "open"]
     \/ ai' = Loop([AddTurn(Answer(ai), "tool", FALSE) EXCEPT !.agreed = FALSE])
  /\ UNCHANGED <<stream, sends>>

\* The sentinel was seen, the time is up, or the pane is gone.
CommandEnds ==
  /\ ai.at = "command"
  /\ ai' = Loop([AddTurn(Answer(ai), "tool", FALSE) EXCEPT !.agreed = FALSE])
  /\ UNCHANGED <<stream, sends>>

----------------------------------------------------------------------------

Init ==
  /\ \E auto \in BOOLEAN :
       ai = [turns |-> <<>>, sending |-> FALSE, agentMode |-> FALSE, autoApprove |-> auto,
             approval |-> FALSE, streaming |-> FALSE, at |-> "idle", step |-> 0,
             calls |-> <<>>, asked |-> 0, answered |-> 0, first |-> 0, reuse |-> FALSE,
             pane |-> "none", agreed |-> FALSE, minted |-> 0]
  /\ stream = [phase |-> "off", flag |-> FALSE, cancel |-> FALSE]
  /\ sends = 0

User == Send \/ Clear \/ SetAgentMode \/ SetAutoApprove \/ Stop

Returns ==
  \/ CancelArrives \/ StreamOpens \/ Answers \/ Chunk \/ StreamEnds
  \/ ModelReplies \/ ModelFails \/ ControlTaken \/ CommandEnds

Next == User \/ Resolve \/ Returns

\* A command of the GUI reaches the backend; taking control and a command in a
\* pane end by their timers.  The provider may be silent for ever, no request has a
\* time limit, and the user may leave a question open.
Fairness ==
  WF_aiVars(CancelArrives) /\ WF_aiVars(ControlTaken) /\ WF_aiVars(CommandEnds)

Spec == Init /\ [][Next]_aiVars /\ Fairness

----------------------------------------------------------------------------
(* Properties.                                                             *)

\* The agent's contract with the model and with the user: when the model is asked
\* again each of its calls has been answered, once, also those that were refused,
\* unknown or could not be run (a provider rejects the conversation otherwise);
\* and a command runs only if this user agreed to it, or to all of them, the
\* sidebar showing what it asks only while it waits for the answer.  It is busy
\* exactly while something is under way.
CallsAnswered ==
  /\ ai.at \in {"model", "idle"} => ai.answered = ai.asked
  /\ ai.at \in {"command", "control"} => ai.agreed
  /\ ai.approval <=> ai.at = "user"
  /\ ai.sending <=> ai.at # "idle"

\* The commands of a reply are worked off: the agent comes to ask the model again,
\* to ask the user, or to its end, also when control is refused and commands hang.
CommandsEnd == ai.at \in {"control", "command"} ~> ai.at \in {"model", "user", "idle"}

\* What a stop needs of the provider: that it answers or fails the request, and
\* that it sends one more chunk, closes or breaks.
ProviderGoesOn ==
  /\ WF_aiVars(stream.phase = "asking" /\ (Answers \/ StreamEnds))
  /\ WF_aiVars(stream.phase = "open" /\ stream.flag /\ StreamEnds)

\* A stop is on its way to a stream that has registered.
Stopping == stream.cancel /\ stream.phase \in {"asking", "open"}

\* Such a stop is not lost: the sidebar is free again, although the provider
\* would have gone on for ever, whether it had answered yet or not.
StopEnds == ProviderGoesOn => (Stopping ~> ~ai.sending)

\* The comment on ChatTurn.pending: a turn is pending while it awaits or streams
\* a response.
PendingIsAwaited ==
  \A i \in DOMAIN ai.turns : ai.turns[i].pending => ai.sending
=============================================================================
