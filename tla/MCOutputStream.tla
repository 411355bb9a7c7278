-------------------------- MODULE MCOutputStream --------------------------
EXTENDS OutputStream, TLC
CONSTANTS c1, c2
Terminals == Permutations({c1, c2})
=============================================================================
