------------------------- MODULE MCWorkspaceSync -------------------------
(* Instances of WorkspaceSync for TLC.                                     *)
EXTENDS WorkspaceSync

CONSTANTS w1, t1, t2
===========================================================================
