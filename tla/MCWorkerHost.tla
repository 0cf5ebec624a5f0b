---------------------------- MODULE MCWorkerHost ----------------------------
\* One item with two attempts and one continuation, contended by two hosts
\* that were configured with one worker id: only the token tells them apart.
EXTENDS WorkerHost, TLC

CONSTANTS a, w1, h1, h2

MCItem ==
  (a :> [createdAt |-> 0, notBefore |-> 1, priority |-> 0, kind |-> "run",
         requires |-> {}, maxAttempts |-> 2, maxContinuations |-> 1,
         rank |-> 1])

MCCapabilities == (w1 :> {})
MCKinds == (w1 :> {"run"})
MCWorkerOf == [h \in Hosts |-> w1]
=============================================================================
