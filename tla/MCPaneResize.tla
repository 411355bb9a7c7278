---------------------------- MODULE MCPaneResize ----------------------------
(* Instances of PaneResize for TLC: two windows on one pane. *)
EXTENDS PaneResize

CONSTANTS c1, c2, s1, s2
=============================================================================
