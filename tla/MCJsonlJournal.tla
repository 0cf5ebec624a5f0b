-------------------------- MODULE MCJsonlJournal --------------------------
EXTENDS JsonlJournal, TLC

CONSTANTS c1, c2

\* Callers are interchangeable.
Symmetry == Permutations(Callers)
=============================================================================
