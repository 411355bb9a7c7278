-------------------------- MODULE MCControlLease --------------------------
(* Instances of ControlLease for TLC. *)
EXTENDS ControlLease, TLC

Symmetric == Permutations(Client)

BudgetOf(acquires, operates, releases, attaches) ==
  [k \in UserKind |-> CASE k = "acquire" -> acquires
                       [] k = "operate" -> operates
                       [] k = "release" -> releases
                       [] k = "attach"  -> attaches]

QuietBudget == BudgetOf(2, 0, 0, 0)
FullBudget == BudgetOf(2, 1, 1, 1)
=============================================================================
