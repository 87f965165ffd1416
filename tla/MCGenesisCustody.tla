--------------------------- MODULE MCGenesisCustody ---------------------------
EXTENDS GenesisCustody, TLC

CONSTANTS u1, u2, i1
==============================================================================
