---------------------------- MODULE MCAgentLoop ----------------------------
EXTENDS AgentLoop, TLC

CONSTANTS p1, p2, c1, c2, m1, m2

\* Processes, call ids and messages are interchangeable.
Symmetry == Permutations(Procs) \cup Permutations(Calls) \cup Permutations(Mails)
=============================================================================
