---------------------------- MODULE MCRiskEngine ----------------------------
EXTENDS EngineForecast, TLC

CONSTANTS a1, a2, h1, h2

Symm == Permutations(Accounts) \union Permutations(Holders)
==============================================================================
