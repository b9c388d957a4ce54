----------------------------- MODULE MCRateLimit -----------------------------
EXTENDS RateLimit, TLC

Symmetry == Permutations(Keys) \cup Permutations(Requests)
===============================================================================
