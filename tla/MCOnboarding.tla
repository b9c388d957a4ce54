----------------------------- MODULE MCOnboarding -----------------------------
EXTENDS Onboarding, TLC

Symmetry == Permutations(Handlers)
===============================================================================
