---------------------------- MODULE MCWorkQueue ----------------------------
\* Two items of different budgets; one may be claimed by either worker, the
\* other only by the worker with its capability.
EXTENDS WorkQueue, TLC

CONSTANTS a, b, w1, w2

MCItem ==
  (a :> [createdAt |-> 0, notBefore |-> None, priority |-> 0, kind |-> "run",
         requires |-> {}, maxAttempts |-> 2, maxContinuations |-> 1,
         rank |-> 1])
  @@
  (b :> [createdAt |-> 0, notBefore |-> 1, priority |-> 1, kind |-> "run",
         requires |-> {"gpu"}, maxAttempts |-> 2, maxContinuations |-> 0,
         rank |-> 2])

MCCapabilities == (w1 :> {}) @@ (w2 :> {"gpu"})
MCKinds == (w1 :> {"run"}) @@ (w2 :> {"run"})
=============================================================================
