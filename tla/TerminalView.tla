--------------------------- MODULE TerminalView ---------------------------
(***************************************************************************)
(* What the output stream of one terminal promises its viewers: a screen   *)
(* is at every time a contiguous piece of what the shell has written.  It  *)
(* grows at its end, or is cleared and starts again.                       *)
(***************************************************************************)
EXTENDS Naturals, Sequences

CONSTANT Client

VARIABLES
  written,   \* how many bytes the shell has written; byte n is the n-th
  screen     \* screen[c]: the bytes c shows, in the order they were rendered

\* The bytes first..last.
Window(first, last) == [i \in 1..(last + 1 - first) |-> first + i - 1]

IsWindow(s) == s = <<>> \/ s = Window(s[1], s[Len(s)])

Init == written = 0 /\ screen = [c \in Client |-> <<>>]

Write == written' = written + 1 /\ UNCHANGED screen

Show(c) ==
  /\ \E last \in 1..written : \E first \in 1..last :
       LET shown == screen[c] \o Window(first, last) IN
       IsWindow(shown) /\ screen' = [screen EXCEPT ![c] = shown]
  /\ UNCHANGED written

Clear(c) ==
  /\ screen' = [screen EXCEPT ![c] = <<>>]
  /\ UNCHANGED written

Next == Write \/ \E c \in Client : Show(c) \/ Clear(c)

Spec == Init /\ [][Next]_<<written, screen>>
=============================================================================
