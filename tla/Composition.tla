----------------------------- MODULE Composition -----------------------------
(***************************************************************************)
(* Text that is composed by an input method, from the web view's events to *)
(* the PTY.  xterm 5.5 expects a compositionend for each compositionstart  *)
(* and sends what the hidden textarea gained in between.  WebKitGTK ends   *)
(* compositions that never started, which the guard of                     *)
(* src/src/lib/terminal-composition-guard.ts takes out of xterm's hands on *)
(* Linux; macOS starts a composition before xterm has sent the last one,   *)
(* for which src/src/lib/terminal-macos-composition.ts changes the send.   *)
(*                                                                         *)
(* `script` is what is left of the events of one key.  The events, and     *)
(* xterm's handlers, are external: they are modelled as those two files    *)
(* describe them.  A mutation of the textarea comes with its beforeinput   *)
(* and its input; xterm's zero-delay timers run after the key's mutations. *)
(***************************************************************************)
EXTENDS Naturals, Sequences, SequencesExt

CONSTANTS Char,      \* a committed text, or a key's character
          MaxKeys,   \* bound
          None

Pre == "preedit"     \* a character of a composition that is not committed yet

CompositionAssumption ==
  /\ Pre \notin Char /\ MaxKeys \in Nat
  /\ None \notin [value : Seq(Char \cup {Pre}), deliver : Seq(Char \cup {Pre}) \cup {None},
                  echo : BOOLEAN]

VARIABLES
  os,       \* "linux" or "mac"
  value,    \* of the textarea
  xterm,    \* CompositionHelper: composing, sending, the composition's start and end
            \* in `value`, and the length of _dataAlreadySent
  guard,    \* compositionTarget # null, lastKeydownKeyCode = 229, pending
  script,
  timers,   \* xterm's callbacks, in the order they were set
  typed,    \* what the user has typed and committed
  sent,     \* what reached the PTY
  keys

vars == <<os, value, xterm, guard, script, timers, typed, sent, keys>>

Text == Seq(Char \cup {Pre})

TypeOK ==
  /\ os \in {"linux", "mac"} /\ value \in Text
  /\ xterm \in [composing : BOOLEAN, sending : BOOLEAN, start : Nat, end : Nat,
                already : Nat]
  /\ guard \in [target : BOOLEAN, ime : BOOLEAN,
                pending : {None} \cup [value : Text, deliver : Text \cup {None},
                                       echo : BOOLEAN]]
  /\ \A i \in DOMAIN timers : timers[i].is \in {"diff", "send"}
  /\ typed \in Seq(Char) /\ sent \in Text /\ keys \in 0 .. MaxKeys

-----------------------------------------------------------------------------
(* terminal-composition-guard.ts                                           *)

\* What a change from `old` to `new` inserted: less the longest common beginning, then
\* less the longest common end of the rests.
insertedText(old, new) ==
  LET p == Len(LongestCommonPrefix({old, new}))
      o == SubSeq(old, p + 1, Len(old))
      n == SubSeq(new, p + 1, Len(new)) IN
  SubSeq(n, 1, Len(n) - Len(LongestCommonPrefix({Reverse(o), Reverse(n)})))

\* The textarea without the preedit, which is at its end.
Settled(text) ==
  SubSeq(text, 1, Min({Len(text)} \cup {i - 1 : i \in {i \in DOMAIN text : text[i] = Pre}}))

\* Linux only: the two mutations the guard undoes.  `data` None: the event has none.
beforeInput(type, data) ==
  CASE os = "linux" /\ type = "insertFromComposition" /\ ~guard.target ->
         [value |-> value, deliver |-> data, echo |-> FALSE]
    [] os = "linux" /\ type = "insertText" /\ ~guard.target /\ ~guard.ime ->
         [value |-> value, deliver |-> None, echo |-> TRUE]
    [] OTHER -> guard.pending

\* The text that `input` hands to the PTY: none for the echo of a key.
Delivered(pending, new) ==
  IF pending.echo THEN <<>>
  ELSE IF pending.deliver = None THEN insertedText(pending.value, new) ELSE pending.deliver

\* A new focus forgets a composition whose end the terminal did not live to see.
reset(g) == [g EXCEPT !.target = FALSE, !.ime = FALSE, !.pending = None]

-----------------------------------------------------------------------------
(* terminal-macos-composition.ts and xterm's CompositionHelper             *)

\* JavaScript's: within the string, and its bounds in either order.
substring(i, j) == SubSeq(value, Min({i, j}) + 1, Min({Max({i, j}), Len(value)}))

Timer(is, old, at, end) == [is |-> is, old |-> old, start |-> at, end |-> end]

\* _finalizeComposition(true): what is sent later begins where the composition began.
Finalize(x) == [x EXCEPT !.composing = FALSE, !.sending = TRUE]

\* Faulty: xterm 5.5, to the end the old composition had.
CommittedOld(timer) ==
  substring(timer.start + xterm.already, IF xterm.composing THEN timer.end ELSE Len(value))

\* What the delayed send takes: to the end of the value, or, when the next composition
\* has begun, to where that one begins.
Committed(timer) ==
  substring(timer.start + xterm.already, IF xterm.composing THEN xterm.start ELSE Len(value))

\* _handleAnyTextareaChanges: what was inserted since a key of the input method.
Grown(timer) == SubSeq(value, Len(timer.old) + 1, Len(value))

RunTimer ==
  LET t == Head(timers) IN
  /\ timers # <<>> /\ (script # <<>> => Head(script).ev = "start")
  /\ timers' = Tail(timers)
  /\ IF t.is = "send"
     THEN /\ xterm' = [xterm EXCEPT !.sending = FALSE]
          /\ sent' = IF xterm.sending THEN sent \o Committed(t) ELSE sent
     ELSE IF xterm.composing THEN UNCHANGED <<xterm, sent>>
     ELSE /\ xterm' = [xterm EXCEPT !.already = Len(Grown(t))]
          /\ sent' = sent \o Grown(t)
  /\ UNCHANGED <<os, value, guard, script, typed, keys>>

-----------------------------------------------------------------------------
(* The events, the guard's listeners before xterm's                        *)

Next1(e) == script # <<>> /\ e = Head(script) /\ script' = Tail(script)

KeyDown(e) ==
  /\ Next1(e) /\ e.ev = "keydown"
  /\ guard' = [guard EXCEPT !.ime = e.ime, !.pending = None]
  /\ IF e.ime
     THEN /\ timers' = IF xterm.composing THEN timers
                       ELSE Append(timers, Timer("diff", value, 0, 0))
          /\ UNCHANGED <<xterm, sent>>
     ELSE \* a plain key ends what xterm still composes, and is sent
          /\ xterm' = [xterm EXCEPT !.composing = FALSE, !.sending = FALSE]
          /\ sent' = (IF xterm.composing THEN sent \o substring(xterm.start, xterm.end) ELSE sent)
                     \o e.text
          /\ UNCHANGED timers
  /\ UNCHANGED <<os, value, typed, keys>>

CompositionStart(e) ==
  /\ Next1(e) /\ e.ev = "start"
  /\ guard' = [guard EXCEPT !.target = TRUE, !.pending = None]
  /\ xterm' = [xterm EXCEPT !.composing = TRUE, !.start = Len(value), !.already = 0]
  /\ UNCHANGED <<os, value, timers, typed, sent, keys>>

\* A mutation: in a composition it replaces the preedit.  xterm itself sends a text that
\* is inserted without a key.
Insert(e) ==
  /\ Next1(e) /\ e.ev = "insert"
  /\ \E data \in IF e.type = "insertFromComposition" THEN {e.text, None} ELSE {e.text} :
       LET pending == beforeInput(e.type, data)
           new == Settled(value) \o e.text IN
       IF pending = None
       THEN /\ value' = new
            /\ sent' = IF e.dictated THEN sent \o e.text ELSE sent
       ELSE /\ value' = pending.value
            /\ sent' = (IF e.dictated THEN sent \o e.text ELSE sent) \o Delivered(pending, new)
  /\ guard' = [guard EXCEPT !.pending = None]
  /\ xterm' = IF e.type = "insertCompositionText" THEN [xterm EXCEPT !.end = Len(value')]
              ELSE xterm
  /\ UNCHANGED <<os, timers, typed, keys>>

\* On Linux an end without its start is stopped before xterm sees it.
compositionEnd(e) ==
  /\ Next1(e) /\ e.ev = "end"
  /\ guard' = [guard EXCEPT !.target = FALSE]
  /\ IF os = "linux" /\ ~guard.target THEN UNCHANGED <<xterm, timers>>
     ELSE /\ xterm' = Finalize(xterm)
          /\ timers' = Append(timers, Timer("send", <<>>, xterm.start, xterm.end))
  /\ UNCHANGED <<os, value, typed, sent, keys>>

\* The terminal is left in the midst of a composition, with or without its end, and
\* comes back.
Refocus(e) ==
  /\ Next1(e) /\ e.ev = "focus"
  /\ value' = Settled(value)
  /\ guard' = reset(guard)
  /\ \/ UNCHANGED <<xterm, timers>>
     \/ /\ xterm' = Finalize(xterm)
        /\ timers' = Append(timers, Timer("send", <<>>, xterm.start, xterm.end))
  /\ UNCHANGED <<os, typed, sent, keys>>

-----------------------------------------------------------------------------
(* The keys                                                                *)

Key(ime, text) == [ev |-> "keydown", ime |-> ime, text |-> text]
Mutation(type, text) == [ev |-> "insert", type |-> type, text |-> text, dictated |-> FALSE]
Dictated(text) == [Mutation("insertText", text) EXCEPT !.dictated = TRUE]
Bare(ev) == [ev |-> ev]

\* A composition that is under way shows its preedit.
Composing == xterm.composing /\ Pre \in Range(value)

Press(events, text) ==
  /\ script = <<>> /\ timers = <<>> /\ keys < MaxKeys
  /\ keys' = keys + 1 /\ script' = events /\ typed' = typed \o text
  /\ UNCHANGED <<os, value, xterm, guard, timers, sent>>

\* A key that xterm sends; WebKitGTK inserts its character too.
PlainKey(c) ==
  /\ ~Composing
  /\ Press(<<Key(FALSE, <<c>>)>> \o (IF os = "linux" THEN <<Mutation("insertText", <<c>>)>>
                                     ELSE <<>>), <<c>>)

\* A text that comes without a key, or without a composition; not to an xterm that
\* still waits for the end of one.
Dictate(c) == ~xterm.composing /\ Press(<<Dictated(<<c>>)>>, <<c>>)

Direct(c) ==
  /\ ~xterm.composing
  /\ Press(<<Key(TRUE, <<>>), Mutation("insertText", <<c>>)>>, <<c>>)

\* WebKitGTK's commit: no start, and an end.
OrphanCommit(c) ==
  /\ os = "linux" /\ ~Composing
  /\ Press(<<Key(TRUE, <<>>), Mutation("insertFromComposition", <<c>>), Bare("end")>>, <<c>>)

Begins(n) == <<Bare("start"), Mutation("insertCompositionText", [i \in 1 .. n |-> Pre])>>

Compose(n) == ~Composing /\ Press(<<Key(TRUE, <<>>)>> \o Begins(n), <<>>)

\* The key that commits, and on macOS may begin the next composition.
Commit(c, n) ==
  /\ Composing /\ (n > 0 => os = "mac")
  /\ Press(<<Key(TRUE, <<>>), Mutation("insertFromComposition", <<c>>), Bare("end")>>
           \o (IF n > 0 THEN Begins(n) ELSE <<>>), <<c>>)

Leave == Composing /\ Press(<<Bare("focus")>>, <<>>)

\* xterm empties the textarea at a line's end.
Enter ==
  /\ ~Composing /\ script = <<>> /\ timers = <<>> /\ value # <<>> /\ keys < MaxKeys
  /\ keys' = keys + 1 /\ value' = <<>>
  /\ xterm' = [xterm EXCEPT !.composing = FALSE, !.sending = FALSE]
  /\ guard' = [guard EXCEPT !.ime = FALSE, !.pending = None]
  /\ UNCHANGED <<os, script, timers, typed, sent>>

Init ==
  /\ os \in {"linux", "mac"} /\ value = <<>>
  /\ xterm = [composing |-> FALSE, sending |-> FALSE, start |-> 0, end |-> 0, already |-> 0]
  /\ guard = [target |-> FALSE, ime |-> FALSE, pending |-> None]
  /\ script = <<>> /\ timers = <<>> /\ typed = <<>> /\ sent = <<>> /\ keys = 0

Next ==
  \/ RunTimer
  \/ \E e \in Range(script) :
       KeyDown(e) \/ CompositionStart(e) \/ Insert(e) \/ compositionEnd(e) \/ Refocus(e)
  \/ \E c \in Char : PlainKey(c) \/ Dictate(c) \/ Direct(c) \/ OrphanCommit(c)
  \/ \E n \in {1, 2} : Compose(n)
  \/ \E c \in Char, n \in {0, 1} : Commit(c, n)
  \/ Leave \/ Enter

Spec == Init /\ [][Next]_vars

-----------------------------------------------------------------------------
\* Once a key's events and timers are done, what was typed and committed has reached
\* the PTY once and in its order, whatever mixture of keys, compositions and commits
\* without one came before (terminal-composition-guard.ts:15-20,
\* terminal-macos-composition.ts:4-9).
TypedOnce == script = <<>> /\ timers = <<>> => sent = typed
=============================================================================
