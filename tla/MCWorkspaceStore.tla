-------------------------- MODULE MCWorkspaceStore --------------------------
(* Instances of WorkspaceStore for TLC.                                    *)
EXTENDS WorkspaceStore

CONSTANT f1
=============================================================================
