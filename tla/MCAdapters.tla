----------------------------- MODULE MCAdapters -----------------------------
EXTENDS Adapters, TLC

Symmetry == Permutations(Client) \cup Permutations(StepId)
=============================================================================
