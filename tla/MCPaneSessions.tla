-------------------------- MODULE MCPaneSessions --------------------------
(* Instances of PaneSessions for TLC. *)
EXTENDS PaneSessions, TLC
CONSTANTS h1, h2, p1, p2, s1, s2
Alike == Permutations(Connection) \cup Permutations(Pane) \cup Permutations(Session)
=============================================================================
