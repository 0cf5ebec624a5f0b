----------------------------- MODULE WorkerHost -----------------------------
(***************************************************************************)
(* WorkerHost.runOne (src/src/work.ts) run by a deployment over one queue: *)
(* hosts poll, handle at most one delivery at a time, and resolve it.  A   *)
(* host may stall anywhere for any time, and may crash and poll again; a   *)
(* handler returns any resolution or throws, after any heartbeats.  Several*)
(* hosts may use one worker id (a restarted process, or two replicas).     *)
(*                                                                         *)
(* Time here only moves forward, and only while the queue awaits some      *)
(* moment: with nothing awaited, a tick enables nothing.                   *)
(***************************************************************************)
EXTENDS WorkQueue

CONSTANTS
  Hosts,      \* host processes
  WorkerOf,   \* the worker id each host is configured with
  Timeout,    \* visibilityTimeoutMs, of claims and of heartbeats
  Delays,     \* how far ahead a handler puts a retry or a continuation
  MaxBeats    \* bound: heartbeats of one delivery

ASSUME WorkerHostAssumption ==
  /\ WorkerOf \in [Hosts -> Workers]
  /\ Timeout \in Nat \ {0}
  /\ Delays \subseteq Nat
  /\ MaxBeats \in Nat
  /\ None \notin [work : Works, token : Nat]

VARIABLES
  phase,     \* where runOne stands: idle, handling or resolving
  lease,     \* the delivery runOne claimed: its work and fencing token
  verdict,   \* the resolution the handler ended with
  outcome,   \* the status the last runOne returned
  beats      \* bound: heartbeats sent in this delivery

hostVars == <<phase, lease, verdict, outcome, beats>>
allVars == <<vars, hostVars>>

Resolution == [status : {"completed", "checkpointed", "failed", "cancelled"},
               retryable : BOOLEAN, notBefore : Nat \cup {None}]
NoVerdict == [status |-> "none", retryable |-> FALSE, notBefore |-> None]

\* Type correctness of the queue and its hosts; a host keeps a lease object
\* exactly while it is in a delivery.
HostTypeOK ==
  /\ TypeOK
  /\ phase \in [Hosts -> {"idle", "handling", "resolving"}]
  /\ lease \in [Hosts -> [work : Works, token : Nat] \cup {None}]
  /\ verdict \in [Hosts -> Resolution \cup {NoVerdict}]
  /\ outcome \in [Hosts -> {"idle", "processed", "lease_lost", "threw"}]
  /\ beats \in [Hosts -> 0 .. MaxBeats]
  /\ \A h \in Hosts : phase[h] = "idle" <=> lease[h] = None

HostInit ==
  /\ Init
  /\ phase = [h \in Hosts |-> "idle"]
  /\ lease = [h \in Hosts |-> None]
  /\ verdict = [h \in Hosts |-> NoVerdict]
  /\ outcome = [h \in Hosts |-> "idle"]
  /\ beats = [h \in Hosts |-> 0]

-----------------------------------------------------------------------------
(* Faulty variants, each put in place of the definition it is named after.  *)

\* The lease a resolution presents is looked up when it is resolved.
TokenOf_Reread(h) == records[lease[h].work].lastFencingToken

\* A host with nothing to claim never calls the queue.
PollEmpty_Skipped(h) == FALSE

-----------------------------------------------------------------------------
\* The token of the lease object runOne keeps from claim to resolve.
TokenOf(h) == lease[h].token

\* runOne returns with the given status.
Return(h, status) ==
  /\ phase' = [phase EXCEPT ![h] = "idle"]
  /\ lease' = [lease EXCEPT ![h] = None]
  /\ verdict' = [verdict EXCEPT ![h] = NoVerdict]
  /\ outcome' = [outcome EXCEPT ![h] = status]
  /\ beats' = [beats EXCEPT ![h] = 0]

\* The queue refuses what the host presents: the call still recovers.
Refused(h) ==
  /\ ~IsCurrent(Recovered[lease[h].work], WorkerOf[h], TokenOf(h))
  /\ Observe

\* runOne claims a delivery and calls its handler.
HostClaim(h) ==
  /\ phase[h] = "idle"
  /\ \E w \in Works :
       /\ Claim(WorkerOf[h], Timeout, w)
       /\ lease' = [lease EXCEPT ![h] =
            [work |-> w, token |-> records'[w].lastFencingToken]]
  /\ phase' = [phase EXCEPT ![h] = "handling"]
  /\ UNCHANGED <<verdict, outcome, beats>>

\* runOne finds nothing to claim and returns idle.
PollEmpty(h) ==
  /\ phase[h] = "idle"
  /\ Ready(WorkerOf[h]) = {}
  /\ Observe
  /\ outcome' = [outcome EXCEPT ![h] = "idle"]
  /\ UNCHANGED <<phase, lease, verdict, beats>>

\* The heartbeat of the handler's context, accepted or refused; a refusal is
\* thrown into the handler, which may go on or throw.
HostHeartbeat(h) ==
  /\ phase[h] = "handling"
  /\ beats[h] < MaxBeats
  /\ \/ Heartbeat(lease[h].work, WorkerOf[h], TokenOf(h), Timeout)
     \/ Refused(h)
  /\ beats' = [beats EXCEPT ![h] = @ + 1]
  /\ UNCHANGED <<phase, lease, verdict, outcome>>

\* What a handler may end with.  A throw becomes a retryable failure without
\* a retry time.
Verdicts ==
  LET later == {None} \cup {now + d : d \in Delays}
  IN  [status : {"completed", "cancelled", "failed"},
       retryable : {FALSE}, notBefore : {None}]
      \cup [status : {"failed"}, retryable : {TRUE}, notBefore : later]
      \cup [status : {"checkpointed"}, retryable : {FALSE}, notBefore : later]

HandlerEnds(h) ==
  /\ phase[h] = "handling"
  /\ \E v \in Verdicts : verdict' = [verdict EXCEPT ![h] = v]
  /\ phase' = [phase EXCEPT ![h] = "resolving"]
  /\ UNCHANGED <<vars, lease, outcome, beats>>

\* resolve, of the resolutions that present the lease; a refusal, a
\* WorkLeaseConflictError, is reported as a lost lease.
ResolveFenced(h) ==
  /\ phase[h] = "resolving"
  /\ verdict[h].status # "cancelled"
  /\ LET w == lease[h].work
         v == verdict[h]
     IN  \/ /\ \/ v.status = "completed" /\ Complete(w, WorkerOf[h], TokenOf(h))
               \/ /\ v.status = "checkpointed"
                  /\ Checkpoint(w, WorkerOf[h], TokenOf(h), v.notBefore)
               \/ /\ v.status = "failed"
                  /\ Fail(w, WorkerOf[h], TokenOf(h), v.retryable, v.notBefore)
            /\ Return(h, "processed")
         \/ Refused(h) /\ Return(h, "lease_lost")

\* resolve of a cancellation: the queue is told the work id alone.  Work that
\* has finished otherwise makes cancel throw, and runOne with it.
ResolveCancelled(h) ==
  /\ phase[h] = "resolving"
  /\ verdict[h].status = "cancelled"
  /\ LET w == lease[h].work
     IN  \/ Cancel(w) /\ Return(h, "processed")
         \/ /\ Recovered[w].state = "cancelled"
            /\ Observe
            /\ Return(h, "processed")
         \/ /\ Recovered[w].state \in Terminal \ {"cancelled"}
            /\ Observe
            /\ Return(h, "threw")

\* The process dies; its replacement polls again.
Crash(h) ==
  /\ phase[h] # "idle"
  /\ Return(h, "idle")
  /\ UNCHANGED vars

Submit ==
  /\ \E w \in Works : Enqueue(w)
  /\ UNCHANGED hostVars

\* Someone outside the hosts cancels work.
CancelWork ==
  /\ \E w \in Works : Cancel(w)
  /\ UNCHANGED hostVars

Awaited ==
  \E w \in Works :
    \/ records[w].state = "leased" /\ records[w].lease.expiresAt > now
    \/ records[w].state = "queued" /\ records[w].availableAt > now

Tick ==
  /\ Awaited
  /\ now' = now + 1
  /\ UNCHANGED <<records, acks, hostVars>>

HostNext ==
  \/ \E h \in Hosts :
       \/ HostClaim(h)
       \/ PollEmpty(h)
       \/ HostHeartbeat(h)
       \/ HandlerEnds(h)
       \/ ResolveFenced(h)
       \/ ResolveCancelled(h)
       \/ Crash(h)
  \/ Submit
  \/ CancelWork
  \/ Tick

HostSafetySpec == HostInit /\ [][HostNext]_allVars

\* The deployment keeps its hosts polling, handlers return, and time passes.
HostSpec ==
  /\ HostSafetySpec
  /\ \A h \in Hosts :
       /\ WF_allVars(HostClaim(h))
       /\ WF_allVars(PollEmpty(h))
       /\ WF_allVars(HandlerEnds(h))
       /\ WF_allVars(ResolveFenced(h) \/ ResolveCancelled(h))
  /\ WF_allVars(Tick)

-----------------------------------------------------------------------------
\* A host that returns processed for a completed handler completed its own
\* delivery: at most one host ever sees its completion of a work accepted,
\* whatever stalled and was redelivered in between (resolve, requireLease).
CompletionIsOwn ==
  [][\A h \in Hosts :
       LET w == lease[h].work
       IN  /\ phase[h] = "resolving"
           /\ phase'[h] = "idle"
           /\ outcome'[h] = "processed"
           /\ verdict[h].status # "cancelled"
           => /\ acks'[w] = Append(acks[w], lease[h].token)
              /\ lease[h].token = records[w].lastFencingToken]_allVars

\* Two hosts never act on the same delivery, even under one worker id and
\* after any redeliveries and continuations: a fencing token names one grant
\* of an item for good (claim, lastFencingToken).
DeliveriesDistinct ==
  \A g, h \in Hosts :
    g # h /\ lease[g] # None /\ lease[h] # None => lease[g] # lease[h]

\* Every submitted item ends: completed, failed, cancelled or dead-lettered,
\* although hosts crash and leases lapse without bound (recoverExpired runs
\* only when someone calls the queue).
EventuallyTerminal ==
  \A w \in Works : records[w].state = "queued" ~> IsTerminal(w)

\* "Queue fencing prevents stale acknowledgement": a host whose lease was
\* superseded changes nothing by resolving while the work is leased to the
\* delivery that superseded it.
StaleHostSparesDelivery ==
  [][\A h \in Hosts :
       LET w == lease[h].work
       IN  /\ phase[h] = "resolving"
           /\ phase'[h] = "idle"
           /\ ~IsCurrent(Recovered[w], WorkerOf[h], lease[h].token)
           /\ Recovered[w].state = "leased"
           => records'[w] = Recovered[w]]_allVars
=============================================================================
