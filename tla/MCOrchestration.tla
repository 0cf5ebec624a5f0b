-------------------------- MODULE MCOrchestration ---------------------------
EXTENDS Orchestration

CONSTANTS d1, d2, k1, x1, v1, v2

\* The mailed result is v1; completeChild may report v1 or v2.
MCValueIn == [m \in Results |-> v1]
MCConfigOf == [d \in Dispatchers |-> k1]
=============================================================================
