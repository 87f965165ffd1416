------------------------------ MODULE MCPrograms ------------------------------
EXTENDS Programs, TLC

CONSTANTS u1, u2, i1

Symm == Permutations(Accounts)
==============================================================================
