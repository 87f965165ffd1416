--------------------------- MODULE MCGenesisLedger ---------------------------
EXTENDS GenesisRefinement, GenesisForecast, TLC

CONSTANTS u1, u2, u3, i1, i2

Symm == Permutations(Users) \union Permutations(Items)
==============================================================================
