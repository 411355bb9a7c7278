--------------------------- MODULE VersionedCopy ---------------------------
(***************************************************************************)
(* What a client may know of documents that others edit: its copy of a     *)
(* document is a version the agent once committed, it only moves forward   *)
(* along those versions, and it is given up as a whole.  This is what the  *)
(* comment over `remember` in workspace-sync.ts asks of the client.        *)
(***************************************************************************)
EXTENDS Naturals

CONSTANTS
  Workspace,
  None         \* no copy

VARIABLES
  committed,   \* committed[w]: the number of versions of w
  copy         \* copy[w]: the version the client holds; 0 is its own cached one

Init ==
  /\ committed \in [Workspace -> Nat]
  /\ copy \in [Workspace -> {None, 0}]

\* The agent commits a version, or none.
Commit(w) == committed'[w] \in {committed[w], committed[w] + 1}

\* A copy is kept, given up, or replaced by a committed version that is not
\* older.
Learn(w) ==
  \/ copy'[w] \in {copy[w], None}
  \/ /\ copy'[w] \in 1 .. committed'[w]
     /\ copy[w] # None => copy'[w] >= copy[w]

Next == \A w \in Workspace : Commit(w) /\ Learn(w)

vars == <<committed, copy>>

Spec == Init /\ [][Next]_vars
=============================================================================
