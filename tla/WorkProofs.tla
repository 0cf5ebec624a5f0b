----------------------------- MODULE WorkProofs -----------------------------
(***************************************************************************)
(* Proofs about modules WorkQueue and WorkerHost, for any items, budgets,  *)
(* workers and any behaviour of the clock.  Every operation touches one    *)
(* item (and recovers expired leases of the others), so the proofs first   *)
(* say what a step may do to one item (ItemStep) and then argue about a    *)
(* single record.                                                          *)
(*                                                                         *)
(* Whatever a host does, the queue sees a call it could have seen from     *)
(* anyone (HostStepIsCall), so what is shown of calls holds in every       *)
(* deployment, of any hosts and for time without end; the hosts then add   *)
(* that a lease object they keep was granted to them alone.                *)
(***************************************************************************)
EXTENDS WorkerHost, TLAPS, SequenceTheorems

-----------------------------------------------------------------------------
(* What a step does to one item.                                            *)

\* The item is left alone, or its expired lease is recovered.
Untouched(w) ==
  /\ records'[w] \in {records[w], Recovered[w]}
  /\ acks'[w] = acks[w]

Enqueued(w) ==
  /\ records[w].state = "absent"
  /\ \E at \in Nat : records'[w] = [Absent EXCEPT !.state = "queued", !.availableAt = at]
  /\ acks'[w] = acks[w]

Claimed(w) ==
  /\ Recovered[w].state = "queued"
  /\ \E worker \in Workers, expiry \in Nat :
       records'[w] = [Recovered[w] EXCEPT
         !.state = "leased", !.attempt = @ + 1, !.totalDeliveryAttempts = @ + 1,
         !.lastFencingToken = @ + 1,
         !.lease = [workerId |-> worker, expiresAt |-> expiry,
                    fencingToken |-> Recovered[w].lastFencingToken + 1]]
  /\ acks'[w] = acks[w]

Extended(w) ==
  /\ Recovered[w].state = "leased"
  /\ \E expiry \in Nat \ {0} :
       records'[w] = [Recovered[w] EXCEPT !.lease.expiresAt = expiry]
  /\ acks'[w] = acks[w]

\* A delivery ends: the records its acknowledgement may leave behind.
Ends(r, w, at) ==
  {[r EXCEPT !.state = "completed", !.lease = NoLease],
   [r EXCEPT !.state = "failed", !.lease = NoLease],
   Retried(r, w, at), Continued(r, w, at)}

Settled(w) ==
  /\ Recovered[w].state = "leased"
  /\ \E at \in Nat : records'[w] \in Ends(Recovered[w], w, at)
  /\ acks'[w] = Append(acks[w], Recovered[w].lease.fencingToken)

Withdrawn(w) ==
  /\ Recovered[w].state \in {"queued", "leased"}
  /\ records'[w] = [Recovered[w] EXCEPT !.state = "cancelled", !.lease = NoLease]
  /\ acks'[w] = acks[w]

ItemChange(w) ==
  Untouched(w) \/ Enqueued(w) \/ Claimed(w) \/ Extended(w) \/ Settled(w) \/ Withdrawn(w)

-----------------------------------------------------------------------------
(* Types of the operators.                                                  *)

\* Items are typed as assertWorkItem demands.
LEMMA ItemType ==
  ASSUME NEW w \in Works
  PROVE  /\ Item[w].createdAt \in Nat
         /\ Item[w].notBefore \in Nat \cup {None}
         /\ Item[w].maxAttempts \in Nat
         /\ Item[w].maxAttempts >= 1
         /\ Item[w].maxContinuations \in Nat
BY WorkQueueAssumption DEF Items

\* The parts of a record.
LEMMA RecordType ==
  ASSUME NEW r \in WorkRecord
  PROVE  /\ r.state \in WorkState
         /\ r.attempt \in Nat
         /\ r.continuationCount \in Nat
         /\ r.totalDeliveryAttempts \in Nat
         /\ r.lastFencingToken \in Nat
         /\ r.availableAt \in Nat
         /\ r.lease \in ActiveLease \cup {NoLease}
         /\ r.lease.fencingToken \in Nat
         /\ r.lease.expiresAt \in Nat
BY DEF WorkRecord, ActiveLease, NoLease

\* A record that holds a lease exactly while it is leased.
Sound(r) == r \in WorkRecord /\ (r.lease # NoLease <=> r.state = "leased")

\* The ends of a delivery leave sound records.
LEMMA EndsSound ==
  ASSUME NEW r \in WorkRecord, NEW w \in Works, NEW at \in Nat
  PROVE  \A e \in Ends(r, w, at) : Sound(e)
<1>1. NoLease \in ActiveLease \cup {NoLease}
  OBVIOUS
<1>2. /\ Sound([r EXCEPT !.state = "completed", !.lease = NoLease])
      /\ Sound([r EXCEPT !.state = "failed", !.lease = NoLease])
      /\ Sound([r EXCEPT !.state = "dead_lettered", !.lease = NoLease])
      /\ Sound([r EXCEPT !.state = "queued", !.availableAt = at, !.lease = NoLease])
  BY <1>1 DEF Sound, WorkRecord, WorkState, Terminal
<1>3. Sound([r EXCEPT !.state = "queued", !.lease = NoLease, !.availableAt = at,
                      !.continuationCount = @ + 1, !.attempt = 0])
  <2>1. r.continuationCount + 1 \in Nat
    BY DEF WorkRecord
  <2> DEFINE next == r.continuationCount + 1
  <2> HIDE DEF next
  <2>2. next \in Nat
    BY <2>1 DEF next
  <2>3. Sound([r EXCEPT !.state = "queued", !.lease = NoLease, !.availableAt = at,
                        !.continuationCount = next, !.attempt = 0])
    BY <1>1, <2>2 DEF Sound, WorkRecord, WorkState
  <2>4. QED
    BY <2>3 DEF next
<1>4. QED
  BY <1>2, <1>3 DEF Ends, Retried, Continued

\* Recovery leaves every record sound.
LEMMA RecoveredSound ==
  ASSUME TypeOK, NEW w \in Works
  PROVE  /\ Sound(records[w])
         /\ Sound(Recovered[w])
         /\ Recovered[w] = IF Expired(records[w]) THEN Retried(records[w], w, now)
                                                  ELSE records[w]
<1>1. Sound(records[w]) /\ now \in Nat
  BY DEF TypeOK, Sound
<1>2. Sound(Retried(records[w], w, now))
  BY <1>1, EndsSound DEF Sound, Ends
<1>3. QED
  BY <1>1, <1>2 DEF Recovered

-----------------------------------------------------------------------------
\* What anyone may ask of the queue, with whatever timeouts and times; the
\* bounds of Next are left out, so that a composition makes calls as well.
QueueCall ==
  \/ \E w \in Works : Enqueue(w) \/ Cancel(w)
  \/ Observe
  \/ \E worker \in Workers, timeout \in Nat \ {0}, w \in Works :
       Claim(worker, timeout, w)
  \/ \E w \in Works, worker \in Workers, token \in Nat :
       \/ \E timeout \in Nat \ {0} : Heartbeat(w, worker, token, timeout)
       \/ Complete(w, worker, token)
       \/ \E at \in Nat \cup {None} : Checkpoint(w, worker, token, at)
       \/ \E retryable \in BOOLEAN, at \in Nat \cup {None} :
            Fail(w, worker, token, retryable, at)
  \/ UNCHANGED <<records, acks>>

\* Every step of the queue is a call or leaves its records alone.
LEMMA NextIsCall ==
  ASSUME TypeOK, [Next]_vars
  PROVE  QueueCall
<1> USE WorkQueueAssumption
<1>1. ASSUME NEW w \in Works, NEW worker \in Workers, NEW token \in Granted(w),
             \/ \E timeout \in Timeouts : Heartbeat(w, worker, token, timeout)
             \/ Complete(w, worker, token)
             \/ \E at \in Times : Checkpoint(w, worker, token, at)
             \/ \E retryable \in BOOLEAN, at \in Times :
                  Fail(w, worker, token, retryable, at)
      PROVE  QueueCall
  <2>1. token \in Nat
    <3>1. records[w].lastFencingToken \in Nat
      BY RecordType DEF TypeOK
    <3>2. QED
      BY <3>1 DEF Granted
  <2>2. Times \subseteq Nat \cup {None} /\ Timeouts \subseteq Nat \ {0}
    BY DEF Times
  <2>3. QED
    BY <1>1, <2>1, <2>2 DEF QueueCall
<1>2. ASSUME NEW worker \in Workers, NEW timeout \in Timeouts, NEW w \in Works,
             Claim(worker, timeout, w)
      PROVE  QueueCall
  <2>1. timeout \in Nat \ {0}
    OBVIOUS
  <2>2. QED
    BY <1>2, <2>1 DEF QueueCall
<1>3. ASSUME \/ \E w \in Works : Enqueue(w) \/ Cancel(w)
             \/ Observe
             \/ UNCHANGED <<records, acks>>
      PROVE  QueueCall
  BY <1>3 DEF QueueCall
<1>4. QED
  BY <1>1, <1>2, <1>3 DEF Next, ClockStep, vars

\* Whatever is asked of the queue, each item changes in one of six ways.
LEMMA CallStep ==
  ASSUME TypeOK, QueueCall, NEW w \in Works
  PROVE  ItemChange(w)
<1> USE WorkQueueAssumption
<1>1. now \in Nat /\ Recovered \in [Works -> WorkRecord]
  BY RecoveredSound DEF TypeOK, Recovered, Sound
<1>2. ASSUME NEW v \in Works, NEW worker, NEW token, NEW record,
             Accept(v, worker, token, record)
      PROVE  /\ Recovered[v].state = "leased"
             /\ Recovered[v].lease.fencingToken = token
             /\ records'[v] = record
             /\ v # w => records'[w] = Recovered[w]
  BY <1>1, <1>2 DEF Accept, IsCurrent
<1>3. ASSUME NEW v \in Works, NEW token, Acknowledge(v, token)
      PROVE  /\ acks'[v] = Append(acks[v], token)
             /\ v # w => acks'[w] = acks[w]
  BY <1>3 DEF Acknowledge, TypeOK
<1>4. ASSUME NEW v \in Works, Enqueue(v)
      PROVE  ItemChange(w)
  <2> DEFINE at == IF Item[v].notBefore = None THEN Item[v].createdAt ELSE Item[v].notBefore
  <2>1. at \in Nat
    BY ItemType
  <2>2. /\ records[v].state = "absent"
        /\ records' = [records EXCEPT ![v] =
             [Absent EXCEPT !.state = "queued", !.availableAt = at]]
        /\ acks' = acks
    BY <1>4 DEF Enqueue
  <2> HIDE DEF at
  <2>3. CASE v = w
    BY <2>1, <2>2, <2>3 DEF ItemChange, Enqueued, TypeOK
  <2>4. CASE v # w
    BY <2>2, <2>4 DEF ItemChange, Untouched, TypeOK
  <2>5. QED
    BY <2>3, <2>4
<1>5. ASSUME NEW v \in Works, Cancel(v)
      PROVE  ItemChange(w)
  <2>1. /\ Recovered[v].state \in {"queued", "leased"}
        /\ records' = [Recovered EXCEPT ![v] =
             [Recovered[v] EXCEPT !.state = "cancelled", !.lease = NoLease]]
        /\ acks' = acks
    BY <1>1, <1>5 DEF Cancel, Cancellable
  <2>2. CASE v = w
    BY <1>1, <2>1, <2>2 DEF ItemChange, Withdrawn
  <2>3. CASE v # w
    BY <1>1, <2>1, <2>3 DEF ItemChange, Untouched
  <2>4. QED
    BY <2>2, <2>3
<1>6. ASSUME Observe
      PROVE  ItemChange(w)
  BY <1>6 DEF Observe, ItemChange, Untouched
<1>7. ASSUME NEW worker \in Workers, NEW timeout \in Nat \ {0}, NEW v \in Works,
             Claim(worker, timeout, v)
      PROVE  ItemChange(w)
  <2>1. now + timeout \in Nat
    <3>1. timeout \in Nat
      OBVIOUS
    <3>2. QED
      BY <1>1, <3>1
  <2>2. /\ Recovered[v].state = "queued"
        /\ records' = [Recovered EXCEPT ![v] = [Recovered[v] EXCEPT
             !.state = "leased", !.attempt = @ + 1, !.totalDeliveryAttempts = @ + 1,
             !.lastFencingToken = @ + 1,
             !.lease = [workerId |-> worker,
                        fencingToken |-> Recovered[v].lastFencingToken + 1,
                        expiresAt |-> now + timeout]]]
        /\ acks' = acks
    BY <1>7 DEF Claim, Ready
  <2>3. CASE v = w
    BY <1>1, <2>1, <2>2, <2>3 DEF ItemChange, Claimed
  <2>4. CASE v # w
    BY <1>1, <2>2, <2>4 DEF ItemChange, Untouched
  <2>5. QED
    BY <2>3, <2>4
<1>8. ASSUME NEW v \in Works, NEW worker \in Workers, NEW token, NEW timeout \in Nat \ {0},
             Heartbeat(v, worker, token, timeout)
      PROVE  ItemChange(w)
  <2>1. now + timeout \in Nat \ {0}
    <3>1. timeout \in Nat \ {0}
      OBVIOUS
    <3>2. QED
      BY <1>1, <3>1
  <2>2. /\ Recovered[v].state = "leased"
        /\ records'[v] = [Recovered[v] EXCEPT !.lease.expiresAt = now + timeout]
        /\ v # w => records'[w] = Recovered[w]
        /\ acks' = acks
    BY <1>2, <1>8 DEF Heartbeat
  <2>3. CASE v = w
    BY <2>1, <2>2, <2>3 DEF ItemChange, Extended
  <2>4. CASE v # w
    BY <2>2, <2>4 DEF ItemChange, Untouched
  <2>5. QED
    BY <2>3, <2>4
<1>9. ASSUME NEW v \in Works, NEW worker \in Workers, NEW token, NEW record, NEW at \in Nat,
             Accept(v, worker, token, record), Acknowledge(v, token),
             record \in Ends(Recovered[v], v, at)
      PROVE  ItemChange(w)
  <2>1. CASE v = w
    BY <1>2, <1>3, <1>9, <2>1 DEF ItemChange, Settled
  <2>2. CASE v # w
    BY <1>2, <1>3, <1>9, <2>2 DEF ItemChange, Untouched
  <2>3. QED
    BY <2>1, <2>2
<1>10. ASSUME NEW v \in Works, NEW worker \in Workers, NEW token, Complete(v, worker, token)
       PROVE  ItemChange(w)
  BY <1>1, <1>9, <1>10 DEF Complete, Ends
<1>11. ASSUME NEW v \in Works, NEW worker \in Workers, NEW token, NEW notBefore \in Nat \cup {None},
              Checkpoint(v, worker, token, notBefore)
       PROVE  ItemChange(w)
  <2> DEFINE at == IF notBefore = None THEN now ELSE notBefore
  <2>1. at \in Nat
    BY <1>1
  <2>2. Accept(v, worker, token, Continued(Recovered[v], v, at)) /\ Acknowledge(v, token)
    BY <1>11 DEF Checkpoint
  <2> HIDE DEF at
  <2>3. Continued(Recovered[v], v, at) \in Ends(Recovered[v], v, at)
    BY DEF Ends
  <2>4. QED
    BY <1>9, <2>1, <2>2, <2>3
<1>12. ASSUME NEW v \in Works, NEW worker \in Workers, NEW token, NEW retryable \in BOOLEAN,
              NEW retryAt \in Nat \cup {None}, Fail(v, worker, token, retryable, retryAt)
       PROVE  ItemChange(w)
  <2> DEFINE at == IF retryAt = None THEN now ELSE retryAt
             record == IF retryable THEN Retried(Recovered[v], v, at)
                       ELSE [Recovered[v] EXCEPT !.state = "failed", !.lease = NoLease]
  <2>1. at \in Nat
    BY <1>1
  <2>2. Accept(v, worker, token, record) /\ Acknowledge(v, token)
    BY <1>12 DEF Fail
  <2>3. record \in Ends(Recovered[v], v, at)
    BY DEF Ends
  <2> HIDE DEF at, record
  <2>4. QED
    BY <1>9, <2>1, <2>2, <2>3
<1>13. ASSUME UNCHANGED <<records, acks>>
       PROVE  ItemChange(w)
  BY <1>13 DEF ItemChange, Untouched
<1>14. QED
  BY <1>4, <1>5, <1>6, <1>7, <1>8, <1>10, <1>11, <1>12, <1>13 DEF QueueCall

\* Every step of the queue changes each item in one of these ways.
LEMMA ItemStep ==
  ASSUME TypeOK, [Next]_vars, NEW w \in Works
  PROVE  ItemChange(w)
BY NextIsCall, CallStep

\* Only the clock's own step moves the clock.
LEMMA ClockStays ==
  ASSUME TypeOK, [Next]_vars
  PROVE  now' = now \/ now' \in 0 .. MaxTime
<1>1. ASSUME NEW w \in Works, NEW worker, NEW token,
             \/ \E timeout \in Timeouts : Heartbeat(w, worker, token, timeout)
             \/ Complete(w, worker, token)
             \/ \E at \in Times : Checkpoint(w, worker, token, at)
             \/ \E retryable \in BOOLEAN, at \in Times : Fail(w, worker, token, retryable, at)
      PROVE  now' = now
  BY <1>1 DEF Heartbeat, Complete, Checkpoint, Fail, Accept
<1>2. ASSUME \/ \E w \in Works : Enqueue(w) \/ Cancel(w)
             \/ Observe
             \/ \E worker \in Workers, timeout \in Timeouts, w \in Works :
                  Claim(worker, timeout, w)
             \/ UNCHANGED vars
      PROVE  now' = now
  BY <1>2 DEF Enqueue, Cancel, Observe, Claim, vars
<1>3. QED
  BY <1>1, <1>2 DEF Next, ClockStep

\* Records and acknowledgements stay functions of the items.
LEMMA RecordsStayFunctions ==
  ASSUME TypeOK, QueueCall
  PROVE  /\ records' = [w \in Works |-> records'[w]]
         /\ acks' = [w \in Works |-> acks'[w]]
<1> DEFINE Functions ==
      /\ records' = [w \in Works |-> records'[w]]
      /\ acks' = [w \in Works |-> acks'[w]]
<1>1. /\ Recovered = [w \in Works |-> Recovered[w]]
      /\ records = [w \in Works |-> records[w]]
      /\ acks = [w \in Works |-> acks[w]]
  BY DEF TypeOK, Recovered
<1>2. ASSUME NEW w \in Works, Enqueue(w) \/ Cancel(w)
      PROVE  Functions
  BY <1>1, <1>2 DEF Enqueue, Cancel
<1>3. ASSUME NEW worker, NEW timeout, NEW w \in Works, Claim(worker, timeout, w)
      PROVE  Functions
  BY <1>1, <1>3 DEF Claim
<1>4. ASSUME Observe
      PROVE  Functions
  BY <1>1, <1>4 DEF Observe
<1>5. ASSUME NEW w \in Works, NEW worker, NEW token, NEW record,
             Accept(w, worker, token, record),
             acks' = acks \/ Acknowledge(w, token)
      PROVE  Functions
  BY <1>1, <1>5 DEF Accept, Acknowledge
<1>6. ASSUME NEW w \in Works, NEW worker, NEW token,
             \/ \E timeout \in Nat \ {0} : Heartbeat(w, worker, token, timeout)
             \/ Complete(w, worker, token)
             \/ \E at \in Nat \cup {None} : Checkpoint(w, worker, token, at)
             \/ \E retryable \in BOOLEAN, at \in Nat \cup {None} : Fail(w, worker, token, retryable, at)
      PROVE  Functions
  <2> HIDE DEF Functions
  <2>1. QED
    BY <1>5, <1>6 DEF Heartbeat, Complete, Checkpoint, Fail
<1>7. ASSUME UNCHANGED <<records, acks>>
      PROVE  Functions
  BY <1>1, <1>7
<1> HIDE DEF Functions
<1>8. Functions
  BY <1>2, <1>3, <1>4, <1>6, <1>7 DEF QueueCall
<1>9. QED
  BY <1>8 DEF Functions

-----------------------------------------------------------------------------
(* Types.                                                                   *)

\* The queue starts well-typed.
LEMMA StartsTyped ==
  ASSUME Init
  PROVE  TypeOK
<1>1. Absent \in WorkRecord /\ Absent.lease = NoLease /\ Absent.state # "leased"
  BY DEF Absent, WorkRecord, WorkState
<1>2. <<>> \in Seq(Nat)
  BY EmptySeq
<1>3. QED
  BY <1>1, <1>2 DEF Init, TypeOK

\* No call leaves a malformed record behind.
LEMMA CallKeepsType ==
  ASSUME TypeOK, QueueCall, now' \in Nat
  PROVE  TypeOK'
<1>1. /\ records' = [w \in Works |-> records'[w]]
      /\ acks' = [w \in Works |-> acks'[w]]
  BY RecordsStayFunctions
<1>2. ASSUME NEW w \in Works PROVE Sound(records'[w]) /\ acks'[w] \in Seq(Nat)
  <2>1. /\ Sound(records[w]) /\ Sound(Recovered[w]) /\ acks[w] \in Seq(Nat)
        /\ Recovered[w].lastFencingToken \in Nat
        /\ Recovered[w].lease.fencingToken \in Nat
    BY RecoveredSound, RecordType DEF TypeOK, Sound
  <2>2. ItemChange(w)
    BY CallStep
  <2> DEFINE r == Recovered[w]
  <2> HIDE DEF r
  <2>3. CASE Untouched(w)
    BY <2>1, <2>3 DEF Untouched
  <2>4. CASE Enqueued(w)
    <3>1. PICK at \in Nat : records'[w] = [Absent EXCEPT !.state = "queued", !.availableAt = at]
      BY <2>4 DEF Enqueued
    <3>2. Absent \in WorkRecord /\ Absent.lease = NoLease
      BY DEF Absent, WorkRecord, WorkState
    <3>3. Sound([Absent EXCEPT !.state = "queued", !.availableAt = at])
      BY <3>2 DEF Sound, WorkRecord, WorkState
    <3>4. QED
      BY <2>1, <2>4, <3>1, <3>3 DEF Enqueued
  <2>5. CASE Claimed(w)
    <3> DEFINE a == r.attempt + 1
               d == r.totalDeliveryAttempts + 1
               f == r.lastFencingToken + 1
    <3>1. PICK worker \in Workers, expiry \in Nat :
            records'[w] = [r EXCEPT
              !.state = "leased", !.attempt = a, !.totalDeliveryAttempts = d,
              !.lastFencingToken = f,
              !.lease = [workerId |-> worker, expiresAt |-> expiry, fencingToken |-> f]]
      BY <2>5 DEF Claimed, r
    <3>2. a \in Nat /\ d \in Nat /\ f \in Nat /\ f # 0 /\ r \in WorkRecord
      BY <2>1, RecordType DEF r, Sound
    <3> DEFINE grant == [workerId |-> worker, expiresAt |-> expiry, fencingToken |-> f]
    <3>3. grant \in ActiveLease /\ grant # NoLease
      <4>1. grant.fencingToken # NoLease.fencingToken
        BY <3>2 DEF NoLease
      <4>2. grant # NoLease
        BY <4>1
      <4>3. QED
        BY <3>2, <4>2 DEF ActiveLease
    <3> HIDE DEF a, d, f, grant
    <3>4. Sound([r EXCEPT !.state = "leased", !.attempt = a, !.totalDeliveryAttempts = d,
                          !.lastFencingToken = f, !.lease = grant])
      BY <3>2, <3>3 DEF Sound, WorkRecord, WorkState
    <3>5. QED
      BY <2>1, <2>5, <3>1, <3>4 DEF Claimed, grant
  <2>6. CASE Extended(w)
    <3>1. PICK expiry \in Nat \ {0} : records'[w] = [r EXCEPT !.lease.expiresAt = expiry]
      BY <2>6 DEF Extended, r
    <3>2. r \in WorkRecord /\ r.state = "leased" /\ r.lease \in ActiveLease
      BY <2>1, <2>6, RecordType DEF r, Sound, Extended
    <3> DEFINE grant == [r.lease EXCEPT !.expiresAt = expiry]
    <3>3. grant \in ActiveLease /\ grant.expiresAt = expiry
      BY <3>2 DEF ActiveLease
    <3>4. grant # NoLease
      BY <3>3 DEF NoLease
    <3> HIDE DEF grant
    <3>5. Sound([r EXCEPT !.lease = grant])
      BY <3>2, <3>3, <3>4 DEF Sound, WorkRecord
    <3>6. [r EXCEPT !.lease.expiresAt = expiry] = [r EXCEPT !.lease = grant]
      BY <3>2 DEF grant, WorkRecord
    <3>7. QED
      BY <2>1, <2>6, <3>1, <3>5, <3>6 DEF Extended
  <2>7. CASE Settled(w)
    <3>1. acks'[w] \in Seq(Nat)
      BY <2>1, <2>7, AppendProperties DEF Settled
    <3>2. Sound(records'[w])
      BY <2>1, <2>7, EndsSound DEF Settled, Sound
    <3>3. QED
      BY <3>1, <3>2
  <2>8. CASE Withdrawn(w)
    <3>1. r \in WorkRecord
      BY <2>1 DEF r, Sound
    <3>2. Sound([r EXCEPT !.state = "cancelled", !.lease = NoLease])
      BY <3>1 DEF Sound, WorkRecord, WorkState, Terminal
    <3>3. QED
      BY <2>1, <2>8, <3>2 DEF Withdrawn, r
  <2>9. QED
    BY <2>2, <2>3, <2>4, <2>5, <2>6, <2>7, <2>8 DEF ItemChange
<1>3. QED
  BY <1>1, <1>2 DEF TypeOK, Sound

\* Type correctness: no operation leaves a malformed record, and a record
\* holds a lease exactly while it is leased.
THEOREM TypeCorrect == Spec => []TypeOK
<1> USE WorkQueueAssumption
<1>1. Init => TypeOK
  BY StartsTyped
<1>2. TypeOK /\ [Next]_vars => TypeOK'
  <2> SUFFICES ASSUME TypeOK, [Next]_vars PROVE TypeOK'
    OBVIOUS
  <2>1. now' \in Nat
    BY ClockStays DEF TypeOK
  <2>2. QED
    BY <2>1, NextIsCall, CallKeepsType
<1>3. QED
  BY <1>1, <1>2, PTL DEF Spec

-----------------------------------------------------------------------------
(* The delivery budget.                                                     *)

\* Each segment of an item has delivered at most its attempts, earlier
\* segments at most maxAttempts each, and what is queued has attempts left.
WithinBudget(r, w) ==
  /\ r.attempt <= Item[w].maxAttempts
  /\ r.continuationCount <= Item[w].maxContinuations
  /\ r.totalDeliveryAttempts <= r.continuationCount * Item[w].maxAttempts + r.attempt
  /\ r.state = "queued" => r.attempt < Item[w].maxAttempts

\* A new segment starts with what the earlier ones may have used.
LEMMA SegmentArithmetic ==
  ASSUME NEW total \in Nat, NEW k \in Nat, NEW n \in Nat, NEW a \in Nat,
         a <= n, total <= k * n + a
  PROVE  total <= (k + 1) * n + 0
<1>1. k * n \in Nat
  OBVIOUS
<1>2. (k + 1) * n = k * n + n
  OBVIOUS
<1>3. QED
  BY <1>1, <1>2

\* All segments together.
LEMMA TotalArithmetic ==
  ASSUME NEW total \in Nat, NEW k \in Nat, NEW c \in Nat, NEW n \in Nat, NEW a \in Nat,
         a <= n, k <= c, total <= k * n + a
  PROVE  total <= (c + 1) * n
<1>1. PICK d \in Nat : c = k + d
  <2>1. c - k \in Nat /\ c = k + (c - k)
    OBVIOUS
  <2>2. QED
    BY <2>1
<1>2. /\ k * n \in Nat /\ d * n \in Nat
      /\ (k + d) * n = k * n + d * n
      /\ (c + 1) * n = c * n + n
  OBVIOUS
<1>3. QED
  BY <1>1, <1>2

\* A delivery that ends leaves a record within its budget, whichever way.
LEMMA EndsWithinBudget ==
  ASSUME NEW r \in WorkRecord, NEW w \in Works, NEW at \in Nat, WithinBudget(r, w)
  PROVE  \A e \in Ends(r, w, at) : WithinBudget(e, w)
<1>1. /\ r.attempt \in Nat /\ r.continuationCount \in Nat /\ r.totalDeliveryAttempts \in Nat
      /\ Item[w].maxAttempts \in Nat /\ Item[w].maxAttempts >= 1
      /\ Item[w].maxContinuations \in Nat
  BY RecordType, ItemType
<1>2. /\ WithinBudget([r EXCEPT !.state = "completed", !.lease = NoLease], w)
      /\ WithinBudget([r EXCEPT !.state = "failed", !.lease = NoLease], w)
      /\ WithinBudget([r EXCEPT !.state = "dead_lettered", !.lease = NoLease], w)
  BY DEF WithinBudget, WorkRecord
<1>3. WithinBudget(Retried(r, w, at), w)
  <2>1. CASE r.attempt >= Item[w].maxAttempts
    BY <1>2, <2>1 DEF Retried
  <2>2. CASE r.attempt < Item[w].maxAttempts
    <3>1. Retried(r, w, at) = [r EXCEPT !.state = "queued", !.availableAt = at, !.lease = NoLease]
      BY <1>1, <2>2 DEF Retried
    <3>2. QED
      BY <2>2, <3>1 DEF WithinBudget, WorkRecord
  <2>3. QED
    BY <1>1, <2>1, <2>2
<1>4. WithinBudget(Continued(r, w, at), w)
  <2>1. CASE r.continuationCount >= Item[w].maxContinuations
    BY <1>2, <2>1 DEF Continued
  <2>2. CASE r.continuationCount < Item[w].maxContinuations
    <3> DEFINE e == Continued(r, w, at)
    <3>1. /\ e.attempt = 0
          /\ e.continuationCount = r.continuationCount + 1
          /\ e.totalDeliveryAttempts = r.totalDeliveryAttempts
      BY <1>1, <2>2 DEF Continued, WorkRecord
    <3>2. r.totalDeliveryAttempts <= (r.continuationCount + 1) * Item[w].maxAttempts + 0
      BY <1>1, SegmentArithmetic DEF WithinBudget
    <3> HIDE DEF e
    <3>3. WithinBudget(e, w)
      BY <1>1, <2>2, <3>1, <3>2 DEF WithinBudget
    <3>4. QED
      BY <3>3 DEF e
  <2>3. QED
    BY <1>1, <2>1, <2>2
<1>5. QED
  BY <1>2, <1>3, <1>4 DEF Ends

\* Nothing is over its budget before it is enqueued.
LEMMA BudgetStarts ==
  ASSUME Init, NEW w \in Works
  PROVE  WithinBudget(records[w], w)
<1>1. records[w] = Absent
  BY DEF Init
<1>2. /\ Absent.attempt = 0 /\ Absent.continuationCount = 0
      /\ Absent.totalDeliveryAttempts = 0 /\ Absent.state = "absent"
  BY DEF Absent
<1>3. 0 <= 0 * Item[w].maxAttempts + 0
  BY ItemType
<1>4. QED
  BY <1>1, <1>2, <1>3, ItemType DEF WithinBudget

\* No change of an item takes it over its budget.
LEMMA BudgetStays ==
  ASSUME TypeOK, NEW w \in Works, WithinBudget(records[w], w), ItemChange(w)
  PROVE  WithinBudget(records'[w], w)
<1>1. /\ records[w] \in WorkRecord /\ Recovered[w] \in WorkRecord /\ now \in Nat
      /\ Recovered[w] = IF Expired(records[w]) THEN Retried(records[w], w, now)
                                               ELSE records[w]
  BY RecoveredSound DEF Sound, TypeOK
<1>2. WithinBudget(records[w], w)
  OBVIOUS
<1>3. WithinBudget(Recovered[w], w)
  <2>1. Retried(records[w], w, now) \in Ends(records[w], w, now)
    BY DEF Ends
  <2>2. WithinBudget(Retried(records[w], w, now), w)
    BY <1>1, <1>2, <2>1, EndsWithinBudget
  <2>3. QED
    BY <1>1, <1>2, <2>2
<1>4. /\ Recovered[w].attempt \in Nat /\ Recovered[w].continuationCount \in Nat
      /\ Recovered[w].totalDeliveryAttempts \in Nat
      /\ Item[w].maxAttempts \in Nat /\ Item[w].maxAttempts >= 1
      /\ Item[w].maxContinuations \in Nat
  BY <1>1, RecordType, ItemType
<1>5. CASE Untouched(w)
  BY <1>2, <1>3, <1>5 DEF Untouched
<1>6. CASE Enqueued(w)
  <2>1. /\ records'[w].attempt = 0 /\ records'[w].continuationCount = 0
        /\ records'[w].totalDeliveryAttempts = 0
    BY <1>6 DEF Enqueued, Absent
  <2>2. 0 <= 0 * Item[w].maxAttempts + 0
    BY <1>4
  <2>3. QED
    BY <1>4, <2>1, <2>2 DEF WithinBudget
<1>7. CASE Claimed(w)
  <2>1. /\ Recovered[w].state = "queued"
        /\ records'[w].state = "leased"
        /\ records'[w].attempt = Recovered[w].attempt + 1
        /\ records'[w].continuationCount = Recovered[w].continuationCount
        /\ records'[w].totalDeliveryAttempts = Recovered[w].totalDeliveryAttempts + 1
    BY <1>1, <1>7 DEF Claimed, WorkRecord
  <2>2. Recovered[w].continuationCount * Item[w].maxAttempts \in Nat
    BY <1>4
  <2>3. QED
    BY <1>3, <1>4, <2>1, <2>2 DEF WithinBudget
<1>8. CASE Extended(w)
  <2>1. /\ records'[w].state = Recovered[w].state
        /\ records'[w].attempt = Recovered[w].attempt
        /\ records'[w].continuationCount = Recovered[w].continuationCount
        /\ records'[w].totalDeliveryAttempts = Recovered[w].totalDeliveryAttempts
    BY <1>1, <1>8 DEF Extended, WorkRecord
  <2>2. QED
    BY <1>3, <2>1 DEF WithinBudget
<1>9. CASE Settled(w)
  BY <1>1, <1>3, <1>9, EndsWithinBudget DEF Settled
<1>10. CASE Withdrawn(w)
  <2>1. /\ records'[w].state = "cancelled"
        /\ records'[w].attempt = Recovered[w].attempt
        /\ records'[w].continuationCount = Recovered[w].continuationCount
        /\ records'[w].totalDeliveryAttempts = Recovered[w].totalDeliveryAttempts
    BY <1>1, <1>10 DEF Withdrawn, WorkRecord
  <2>2. QED
    BY <1>3, <2>1 DEF WithinBudget
<1>11. QED
  BY <1>5, <1>6, <1>7, <1>8, <1>9, <1>10 DEF ItemChange

\* Items within their budgets keep the promise of DeliveryBudget.
LEMMA BudgetsSuffice ==
  ASSUME TypeOK, \A w \in Works : WithinBudget(records[w], w)
  PROVE  DeliveryBudget
<1> SUFFICES ASSUME NEW w \in Works
             PROVE  /\ records[w].totalDeliveryAttempts
                         <= (Item[w].maxContinuations + 1) * Item[w].maxAttempts
                    /\ records[w].state = "queued" => records[w].attempt < Item[w].maxAttempts
  BY DEF DeliveryBudget
<1>1. WithinBudget(records[w], w) /\ records[w] \in WorkRecord
  BY DEF TypeOK
<1>2. QED
  BY <1>1, RecordType, ItemType, TotalArithmetic DEF WithinBudget

\* Redelivery is bounded: an item is delivered at most maxAttempts times in
\* each of its maxContinuations + 1 segments, and never queued with its
\* attempts spent (claim, checkpoint, fail and recoverExpired).
THEOREM BudgetKept == Spec => []DeliveryBudget
<1> DEFINE Budgets == \A w \in Works : WithinBudget(records[w], w)
<1>1. Init => Budgets
  BY BudgetStarts
<1>2. TypeOK /\ Budgets /\ [Next]_vars => Budgets'
  BY ItemStep, BudgetStays
<1>3. TypeOK /\ Budgets => DeliveryBudget
  BY BudgetsSuffice
<1>4. QED
  BY <1>1, <1>2, <1>3, TypeCorrect, PTL DEF Spec

-----------------------------------------------------------------------------
(* Acknowledgements.                                                        *)

\* The tokens of an item's acknowledgements increase and were granted; the
\* delivery in progress is newer than all of them.
AcksBehind(w) ==
  /\ \A j \in 1 .. Len(acks[w]) : \A i \in 1 .. (j - 1) : acks[w][i] < acks[w][j]
  /\ \A i \in 1 .. Len(acks[w]) : acks[w][i] <= records[w].lastFencingToken
  /\ records[w].state = "leased" =>
       /\ records[w].lease.fencingToken = records[w].lastFencingToken
       /\ \A i \in 1 .. Len(acks[w]) : acks[w][i] < records[w].lastFencingToken
  /\ records[w].state = "absent" => records[w].lastFencingToken = 0

\* The ends of a delivery change neither tokens nor, if it is over, anything.
LEMMA EndsKeepToken ==
  ASSUME NEW r \in WorkRecord, NEW w \in Works, NEW at \in Nat
  PROVE  \A e \in Ends(r, w, at) : /\ e.lastFencingToken = r.lastFencingToken
                                   /\ e.state \notin {"leased", "absent"}
<1>1. \A e \in {[r EXCEPT !.state = "completed", !.lease = NoLease],
               [r EXCEPT !.state = "failed", !.lease = NoLease],
               [r EXCEPT !.state = "dead_lettered", !.lease = NoLease],
               [r EXCEPT !.state = "queued", !.availableAt = at, !.lease = NoLease],
               [r EXCEPT !.state = "queued", !.lease = NoLease, !.availableAt = at,
                         !.continuationCount = @ + 1, !.attempt = 0]} :
        e.lastFencingToken = r.lastFencingToken /\ e.state \notin {"leased", "absent"}
  BY DEF WorkRecord
<1>2. QED
  BY <1>1 DEF Ends, Retried, Continued

\* Nothing is acknowledged at first.
LEMMA AcksStartBehind ==
  ASSUME Init, NEW w \in Works
  PROVE  AcksBehind(w)
<1>1. /\ Len(acks[w]) = 0
      /\ records[w].state = "absent"
      /\ records[w].lastFencingToken = 0
  BY EmptySeq DEF Init, Absent
<1>2. QED
  BY <1>1 DEF AcksBehind

\* Recovery keeps the newest token, and grants nothing.
LEMMA RecoveredToken ==
  ASSUME TypeOK, NEW w \in Works
  PROVE  /\ Recovered[w] = records[w] \/ Recovered[w].state \notin {"leased", "absent"}
         /\ Recovered[w].lastFencingToken = records[w].lastFencingToken
<1>1. records[w] \in WorkRecord /\ now \in Nat
  BY DEF TypeOK
<1>2. Retried(records[w], w, now) \in Ends(records[w], w, now)
  BY DEF Ends
<1>3. /\ Retried(records[w], w, now).state \notin {"leased", "absent"}
      /\ Retried(records[w], w, now).lastFencingToken = records[w].lastFencingToken
  BY <1>1, <1>2, EndsKeepToken
<1>4. QED
  BY <1>3, RecoveredSound

\* No change of an item puts its acknowledgements in front of its tokens.
LEMMA AcksStayBehind ==
  ASSUME TypeOK, NEW w \in Works, AcksBehind(w), ItemChange(w)
  PROVE  AcksBehind(w)'
<1> DEFINE r == Recovered[w]
           n == Len(acks[w])
<1>1. /\ r \in WorkRecord /\ records[w] \in WorkRecord /\ now \in Nat
      /\ acks[w] \in Seq(Nat) /\ n \in Nat
      /\ \A i \in 1 .. n : acks[w][i] \in Nat
      /\ r.lastFencingToken \in Nat
  BY RecoveredSound, RecordType, LenProperties, ElementOfSeq DEF Sound, TypeOK
<1>2. AcksBehind(w)
  OBVIOUS
<1>3. /\ r = records[w] \/ r.state \notin {"leased", "absent"}
      /\ r.lastFencingToken = records[w].lastFencingToken
  BY RecoveredToken
<1>4. /\ \A j \in 1 .. n : \A i \in 1 .. (j - 1) : acks[w][i] < acks[w][j]
      /\ \A i \in 1 .. n : acks[w][i] <= r.lastFencingToken
      /\ r.state = "leased" =>
           /\ r.lease.fencingToken = r.lastFencingToken
           /\ \A i \in 1 .. n : acks[w][i] < r.lastFencingToken
      /\ r.state = "absent" => r.lastFencingToken = 0
  BY <1>2, <1>3 DEF AcksBehind
<1> HIDE DEF r
<1>5. CASE Untouched(w)
  BY <1>2, <1>4, <1>5 DEF Untouched, AcksBehind, r
<1>6. CASE Enqueued(w)
  <2>1. records'[w].state = "queued" /\ records'[w].lastFencingToken = 0
    BY <1>6 DEF Enqueued, Absent
  <2>2. acks'[w] = acks[w] /\ records[w].state = "absent"
    BY <1>6 DEF Enqueued
  <2>3. QED
    BY <1>2, <2>1, <2>2 DEF AcksBehind
<1>7. CASE Claimed(w)
  <2>1. /\ records'[w].lastFencingToken = r.lastFencingToken + 1
        /\ records'[w].lease.fencingToken = r.lastFencingToken + 1
        /\ records'[w].state = "leased"
        /\ acks'[w] = acks[w]
    BY <1>1, <1>7 DEF Claimed, WorkRecord, r
  <2>2. \A i \in 1 .. n : acks[w][i] < r.lastFencingToken + 1
    BY <1>1, <1>4
  <2>3. \A i \in 1 .. n : acks[w][i] <= r.lastFencingToken + 1
    BY <1>1, <1>4
  <2>4. QED
    BY <1>4, <2>1, <2>2, <2>3 DEF AcksBehind
<1>8. CASE Extended(w)
  <2>1. /\ records'[w].lastFencingToken = r.lastFencingToken
        /\ records'[w].lease.fencingToken = r.lease.fencingToken
        /\ records'[w].state = "leased" /\ r.state = "leased"
        /\ acks'[w] = acks[w]
    <3>1. r.lease \in ActiveLease
      BY <1>8, RecoveredSound, RecordType DEF Extended, Sound, r
    <3>2. PICK expiry \in Nat \ {0} :
            records'[w] = [r EXCEPT !.lease.expiresAt = expiry]
      BY <1>8 DEF Extended, r
    <3>3. /\ records'[w].lastFencingToken = r.lastFencingToken
          /\ records'[w].state = r.state
          /\ records'[w].lease = [r.lease EXCEPT !.expiresAt = expiry]
      BY <1>1, <3>2 DEF WorkRecord
    <3>4. records'[w].lease.fencingToken = r.lease.fencingToken
      BY <3>1, <3>3 DEF ActiveLease
    <3>5. QED
      BY <1>8, <3>3, <3>4 DEF Extended, r
  <2>2. QED
    BY <1>4, <2>1 DEF AcksBehind
<1>9. CASE Settled(w)
  <2>1. /\ records'[w].lastFencingToken = r.lastFencingToken
        /\ records'[w].state \notin {"leased", "absent"}
    BY <1>1, <1>9, EndsKeepToken DEF Settled, r
  <2>2. /\ r.state = "leased"
        /\ acks'[w] = Append(acks[w], r.lease.fencingToken)
    BY <1>9 DEF Settled, r
  <2>3. acks'[w] = Append(acks[w], r.lastFencingToken)
    BY <1>4, <2>2
  <2>4. /\ Len(acks'[w]) = n + 1
        /\ \A i \in 1 .. n : acks'[w][i] = acks[w][i]
        /\ acks'[w][n + 1] = r.lastFencingToken
    BY <1>1, <2>3, AppendProperties
  <2>5. \A i \in 1 .. n : acks[w][i] < r.lastFencingToken
    BY <1>4, <2>2
  <2>6. ASSUME NEW i \in 1 .. (n + 1) PROVE acks'[w][i] <= r.lastFencingToken
    <3>1. CASE i = n + 1
      BY <1>1, <2>4, <3>1
    <3>2. CASE i \in 1 .. n
      BY <1>4, <2>4, <3>2
    <3>3. QED
      BY <1>1, <3>1, <3>2
  <2>7. ASSUME NEW j \in 1 .. (n + 1), NEW i \in 1 .. (j - 1)
        PROVE  acks'[w][i] < acks'[w][j]
    <3> HIDE DEF n
    <3>1. i \in 1 .. n /\ acks'[w][i] = acks[w][i]
      BY <1>1, <2>4
    <3>2. CASE j = n + 1
      BY <2>4, <2>5, <3>1, <3>2
    <3>3. CASE j \in 1 .. n
      <4>1. acks'[w][j] = acks[w][j]
        BY <2>4, <3>3
      <4>2. acks[w][i] < acks[w][j]
        BY <1>4, <3>3
      <4>3. QED
        BY <3>1, <4>1, <4>2
    <3>4. j = n + 1 \/ j \in 1 .. n
      BY <1>1
    <3>5. QED
      BY <3>2, <3>3, <3>4
  <2>8. QED
    BY <2>1, <2>4, <2>6, <2>7 DEF AcksBehind
<1>10. CASE Withdrawn(w)
  <2>1. /\ records'[w].lastFencingToken = r.lastFencingToken
        /\ records'[w].state = "cancelled"
        /\ acks'[w] = acks[w]
    BY <1>1, <1>10 DEF Withdrawn, WorkRecord, r
  <2>2. QED
    BY <1>4, <2>1 DEF AcksBehind
<1>11. QED
  BY <1>5, <1>6, <1>7, <1>8, <1>9, <1>10 DEF ItemChange

\* A delivery is acknowledged at most once, and never after a later one was
\* (requireLease against the newest fencing token).
THEOREM AcksInOrder == Spec => []AcksAdvance
<1> USE WorkQueueAssumption
<1> DEFINE Behind == \A w \in Works : AcksBehind(w)
<1>1. Init => Behind
  BY AcksStartBehind
<1>2. TypeOK /\ Behind /\ [Next]_vars => Behind'
  <2> SUFFICES ASSUME TypeOK, Behind, [Next]_vars, NEW w \in Works PROVE AcksBehind(w)'
    OBVIOUS
  <2>1. QED
    BY ItemStep, AcksStayBehind
<1>3. Behind => AcksAdvance
  BY DEF AcksBehind, AcksAdvance
<1>4. QED
  BY <1>1, <1>2, <1>3, TypeCorrect, PTL DEF Spec

-----------------------------------------------------------------------------
(* Dead letters.                                                            *)

\* A record is given up only with a budget spent.
Justified(r, w) ==
  r.state = "dead_lettered" =>
    \/ r.attempt >= Item[w].maxAttempts
    \/ r.continuationCount >= Item[w].maxContinuations

\* The ends of a delivery give work up only when a budget is spent.
LEMMA EndsJustified ==
  ASSUME NEW r \in WorkRecord, NEW w \in Works, NEW at \in Nat
  PROVE  \A e \in Ends(r, w, at) : Justified(e, w)
<1>1. /\ Justified([r EXCEPT !.state = "completed", !.lease = NoLease], w)
      /\ Justified([r EXCEPT !.state = "failed", !.lease = NoLease], w)
  BY DEF Justified, WorkRecord
<1>2. Justified(Retried(r, w, at), w)
  BY DEF Retried, Justified, WorkRecord
<1>3. Justified(Continued(r, w, at), w)
  BY DEF Continued, Justified, WorkRecord
<1>4. QED
  BY <1>1, <1>2, <1>3 DEF Ends

\* Work is dead-lettered only when its attempts or its continuations are spent
\* (recoverExpired, fail and checkpoint).
THEOREM GivenUpSpent == Spec => []DeadLetterJustified
<1> DEFINE AllJustified == \A w \in Works : Justified(records[w], w)
<1>1. Init => AllJustified
  BY DEF Init, Absent, Justified
<1>2. TypeOK /\ AllJustified /\ [Next]_vars => AllJustified'
  <2> SUFFICES ASSUME TypeOK, AllJustified, [Next]_vars, NEW w \in Works
               PROVE  Justified(records'[w], w)
    OBVIOUS
  <2>1. /\ records[w] \in WorkRecord /\ Recovered[w] \in WorkRecord /\ now \in Nat
        /\ Recovered[w] = IF Expired(records[w]) THEN Retried(records[w], w, now)
                                                 ELSE records[w]
    BY RecoveredSound DEF Sound, TypeOK
  <2>2. Justified(Recovered[w], w)
    <3>1. Retried(records[w], w, now) \in Ends(records[w], w, now)
      BY DEF Ends
    <3>2. QED
      BY <2>1, <3>1, EndsJustified
  <2>3. CASE Untouched(w)
    BY <2>2, <2>3 DEF Untouched
  <2>4. CASE Enqueued(w)
    <3>1. records'[w].state = "queued"
      BY <2>4 DEF Enqueued, Absent
    <3>2. QED
      BY <3>1 DEF Justified
  <2>5. CASE Claimed(w)
    <3>1. records'[w].state = "leased"
      BY <2>1, <2>5 DEF Claimed, WorkRecord
    <3>2. QED
      BY <3>1 DEF Justified
  <2>6. CASE Extended(w)
    <3>1. records'[w].state = "leased"
      BY <2>1, <2>6 DEF Extended, WorkRecord
    <3>2. QED
      BY <3>1 DEF Justified
  <2>7. CASE Settled(w)
    BY <2>1, <2>7, EndsJustified DEF Settled
  <2>8. CASE Withdrawn(w)
    <3>1. records'[w].state = "cancelled"
      BY <2>1, <2>8 DEF Withdrawn, WorkRecord
    <3>2. QED
      BY <3>1 DEF Justified
  <2>9. QED
    BY <2>3, <2>4, <2>5, <2>6, <2>7, <2>8, ItemStep DEF ItemChange
<1>3. AllJustified => DeadLetterJustified
  BY DEF Justified, DeadLetterJustified
<1>4. QED
  BY <1>1, <1>2, <1>3, TypeCorrect, PTL DEF Spec

-----------------------------------------------------------------------------
(* What a step may never do.                                                *)

\* Recovery leaves alone whatever holds no expired lease.
LEMMA NotExpired ==
  ASSUME TypeOK, NEW w \in Works,
         \/ records[w].state # "leased"
         \/ records[w].lease.expiresAt > now
  PROVE  Recovered[w] = records[w]
<1>1. records[w].lease.expiresAt \in Nat /\ now \in Nat
  BY RecordType DEF TypeOK
<1>2. ~Expired(records[w])
  BY <1>1 DEF Expired
<1>3. QED
  BY <1>2, RecoveredSound

\* Finished work stays as it finished: no acknowledgement, retry, recovery or
\* cancellation that comes late changes its record (Accept, Cancellable).
THEOREM TerminalStays == Spec => TerminalIsFinal
<1>1. TypeOK /\ [Next]_vars => \A w \in Works : IsTerminal(w) => records'[w] = records[w]
  <2> SUFFICES ASSUME TypeOK, [Next]_vars, NEW w \in Works, IsTerminal(w)
               PROVE  records'[w] = records[w]
    OBVIOUS
  <2>1. records[w].state \notin {"absent", "queued", "leased"}
    BY DEF IsTerminal, Terminal
  <2>2. Recovered[w] = records[w]
    BY <2>1, NotExpired
  <2>3. ItemChange(w)
    BY ItemStep
  <2>4. QED
    BY <2>1, <2>2, <2>3 DEF ItemChange, Untouched, Enqueued, Claimed, Extended, Settled, Withdrawn
<1>2. QED
  BY <1>1, TypeCorrect, PTL DEF Spec, TerminalIsFinal

\* Until its lease expires by the clock, a delivery ends only by its own
\* acknowledgement or a cancellation (recoverExpired, requireLease).
THEOREM LiveLeaseHolds == Spec => LiveLeaseKept
<1> DEFINE Kept(w) ==
      LET grant == records[w].lease
      IN  records[w].state = "leased" /\ grant.expiresAt > now =>
            \/ /\ records'[w].state = "leased"
               /\ records'[w].lease.workerId = grant.workerId
               /\ records'[w].lease.fencingToken = grant.fencingToken
            \/ acks'[w] = Append(acks[w], grant.fencingToken)
            \/ records'[w].state = "cancelled"
<1>1. TypeOK /\ [Next]_vars => \A w \in Works : Kept(w)
  <2> SUFFICES ASSUME TypeOK, [Next]_vars, NEW w \in Works,
                      records[w].state = "leased", records[w].lease.expiresAt > now
               PROVE  \/ /\ records'[w].state = "leased"
                         /\ records'[w].lease.workerId = records[w].lease.workerId
                         /\ records'[w].lease.fencingToken = records[w].lease.fencingToken
                      \/ acks'[w] = Append(acks[w], records[w].lease.fencingToken)
                      \/ records'[w].state = "cancelled"
    OBVIOUS
  <2>1. Recovered[w] = records[w]
    BY NotExpired
  <2>2. records[w] \in WorkRecord /\ records[w].lease \in ActiveLease
    BY RecordType DEF TypeOK
  <2>3. CASE Extended(w)
    BY <2>1, <2>2, <2>3 DEF Extended, WorkRecord, ActiveLease
  <2>4. CASE Withdrawn(w)
    BY <2>1, <2>2, <2>4 DEF Withdrawn, WorkRecord
  <2>5. CASE Untouched(w) \/ Settled(w)
    BY <2>1, <2>5 DEF Untouched, Settled
  <2>6. ~Enqueued(w) /\ ~Claimed(w)
    BY <2>1 DEF Enqueued, Claimed
  <2>7. QED
    BY <2>3, <2>4, <2>5, <2>6, ItemStep DEF ItemChange
<1>2. QED
  BY <1>1, TypeCorrect, PTL DEF Spec, LiveLeaseKept

-----------------------------------------------------------------------------
(* What a step of a host is to the queue.                                   *)

\* The parts of a host in a delivery.
LEMMA HostParts ==
  ASSUME HostTypeOK, NEW h \in Hosts
  PROVE  /\ WorkerOf[h] \in Workers
         /\ verdict[h].retryable \in BOOLEAN
         /\ verdict[h].notBefore \in Nat \cup {None}
         /\ phase[h] # "idle" => lease[h].work \in Works /\ TokenOf(h) \in Nat
<1>1. WorkerOf[h] \in Workers
  BY WorkerHostAssumption
<1>2. verdict[h] \in Resolution \cup {NoVerdict}
  BY DEF HostTypeOK
<1>3. verdict[h].retryable \in BOOLEAN /\ verdict[h].notBefore \in Nat \cup {None}
  <2>1. \A v \in Resolution : v.retryable \in BOOLEAN /\ v.notBefore \in Nat \cup {None}
    BY DEF Resolution
  <2>2. NoVerdict.retryable \in BOOLEAN /\ NoVerdict.notBefore \in Nat \cup {None}
    BY DEF NoVerdict
  <2>3. QED
    BY <1>2, <2>1, <2>2
<1>4. ASSUME phase[h] # "idle"
      PROVE  lease[h].work \in Works /\ TokenOf(h) \in Nat
  <2>1. lease[h] \in [work : Works, token : Nat]
    BY <1>4 DEF HostTypeOK
  <2>2. QED
    BY <2>1 DEF TokenOf
<1>5. QED
  BY <1>1, <1>3, <1>4

\* A deployment asks of the queue only what anyone may ask of it.
LEMMA HostStepIsCall ==
  ASSUME HostTypeOK, [HostNext]_allVars
  PROVE  QueueCall
<1>1. Timeout \in Nat \ {0}
  BY WorkerHostAssumption
<1>2. ASSUME NEW h \in Hosts, HostClaim(h)
      PROVE  QueueCall
  BY <1>1, <1>2, HostParts DEF HostClaim, QueueCall
<1>3. ASSUME NEW h \in Hosts, HostHeartbeat(h)
      PROVE  QueueCall
  BY <1>1, <1>3, HostParts DEF HostHeartbeat, Refused, QueueCall
<1>4. ASSUME NEW h \in Hosts, ResolveFenced(h)
      PROVE  QueueCall
  BY <1>4, HostParts DEF ResolveFenced, Refused, QueueCall
<1>5. ASSUME NEW h \in Hosts, ResolveCancelled(h)
      PROVE  QueueCall
  BY <1>5, HostParts DEF ResolveCancelled, QueueCall
<1>6. ASSUME NEW h \in Hosts, PollEmpty(h) \/ HandlerEnds(h) \/ Crash(h)
      PROVE  QueueCall
  BY <1>6 DEF PollEmpty, HandlerEnds, Crash, QueueCall, vars
<1>7. ASSUME Submit \/ CancelWork \/ Tick \/ UNCHANGED allVars
      PROVE  QueueCall
  BY <1>7 DEF Submit, CancelWork, Tick, QueueCall, allVars, vars
<1>8. QED
  BY <1>2, <1>3, <1>4, <1>5, <1>6, <1>7 DEF HostNext

\* Time moves by ticks of one.
LEMMA TimeForward ==
  ASSUME HostTypeOK, [HostNext]_allVars
  PROVE  now' \in Nat
<1>1. now \in Nat
  BY DEF HostTypeOK, TypeOK
<1>2. ASSUME NEW h \in Hosts,
             \/ HostClaim(h) \/ PollEmpty(h) \/ HostHeartbeat(h) \/ HandlerEnds(h)
             \/ ResolveFenced(h) \/ ResolveCancelled(h) \/ Crash(h)
      PROVE  now' = now
  BY <1>2 DEF HostClaim, PollEmpty, HostHeartbeat, HandlerEnds, ResolveFenced,
              ResolveCancelled, Crash, Refused, Claim, Observe, Heartbeat, Complete,
              Checkpoint, Fail, Cancel, Accept, vars
<1>3. ASSUME Submit \/ CancelWork \/ UNCHANGED allVars
      PROVE  now' = now
  BY <1>3 DEF Submit, CancelWork, Enqueue, Cancel, allVars, vars
<1>4. ASSUME Tick
      PROVE  now' = now + 1
  BY <1>4 DEF Tick
<1>5. QED
  BY <1>1, <1>2, <1>3, <1>4 DEF HostNext

-----------------------------------------------------------------------------
(* Types.                                                                   *)

\* A host that returns from runOne is idle and keeps no lease.
LEMMA ReturnTyped ==
  ASSUME HostTypeOK, NEW h \in Hosts,
         NEW status \in {"idle", "processed", "lease_lost", "threw"},
         Return(h, status), TypeOK'
  PROVE  HostTypeOK'
<1>1. MaxBeats \in Nat
  BY WorkerHostAssumption
<1>2. QED
  BY <1>1 DEF HostTypeOK, Return

\* Type correctness of the queue and of all its hosts: a host keeps a lease
\* object exactly while it is in a delivery (runOne).
THEOREM HostsTypedCorrect == HostSafetySpec => []HostTypeOK
<1> USE WorkerHostAssumption
<1>1. HostInit => HostTypeOK
  <2> SUFFICES ASSUME HostInit PROVE HostTypeOK
    OBVIOUS
  <2>1. TypeOK
    BY StartsTyped DEF HostInit
  <2>2. QED
    BY <2>1 DEF HostInit, HostTypeOK
<1>2. HostTypeOK /\ [HostNext]_allVars => HostTypeOK'
  <2> SUFFICES ASSUME HostTypeOK, [HostNext]_allVars PROVE HostTypeOK'
    OBVIOUS
  <2>1. TypeOK'
    BY HostStepIsCall, TimeForward, CallKeepsType DEF HostTypeOK
  <2>2. ASSUME NEW h \in Hosts, HostClaim(h)
        PROVE  HostTypeOK'
    <3>1. PICK w \in Works :
            lease' = [lease EXCEPT ![h] = [work |-> w, token |-> records'[w].lastFencingToken]]
      BY <2>2 DEF HostClaim
    <3>2. records'[w].lastFencingToken \in Nat
      BY <2>1 DEF TypeOK, WorkRecord
    <3> DEFINE grant == [work |-> w, token |-> records'[w].lastFencingToken]
    <3>3. grant \in [work : Works, token : Nat] /\ grant # None
      BY <3>2
    <3> HIDE DEF grant
    <3>4. /\ lease' = [lease EXCEPT ![h] = grant]
          /\ phase' = [phase EXCEPT ![h] = "handling"]
          /\ UNCHANGED <<verdict, outcome, beats>>
      BY <2>2, <3>1 DEF HostClaim, grant
    <3>5. QED
      BY <2>1, <3>3, <3>4 DEF HostTypeOK
  <2>3. ASSUME NEW h \in Hosts, PollEmpty(h)
        PROVE  HostTypeOK'
    BY <2>1, <2>3 DEF PollEmpty, HostTypeOK
  <2>4. ASSUME NEW h \in Hosts, HostHeartbeat(h)
        PROVE  HostTypeOK'
    <3>1. beats' \in [Hosts -> 0 .. MaxBeats]
      BY <2>4 DEF HostHeartbeat, HostTypeOK
    <3>2. UNCHANGED <<phase, lease, verdict, outcome>>
      BY <2>4 DEF HostHeartbeat
    <3>3. QED
      BY <2>1, <3>1, <3>2 DEF HostTypeOK
  <2>5. ASSUME NEW h \in Hosts, HandlerEnds(h)
        PROVE  HostTypeOK'
    <3>1. Verdicts \subseteq Resolution
      <4>1. now \in Nat /\ \A d \in Delays : now + d \in Nat
        BY DEF HostTypeOK, TypeOK
      <4>2. QED
        BY <4>1 DEF Verdicts, Resolution
    <3>2. PICK v \in Resolution : verdict' = [verdict EXCEPT ![h] = v]
      BY <2>5, <3>1 DEF HandlerEnds
    <3>3. /\ phase[h] = "handling"
          /\ phase' = [phase EXCEPT ![h] = "resolving"]
          /\ UNCHANGED <<lease, outcome, beats>>
      BY <2>5 DEF HandlerEnds
    <3>4. QED
      BY <2>1, <3>2, <3>3 DEF HostTypeOK
  <2>6. ASSUME NEW h \in Hosts, ResolveFenced(h) \/ ResolveCancelled(h) \/ Crash(h)
        PROVE  HostTypeOK'
    <3>1. \E status \in {"idle", "processed", "lease_lost", "threw"} : Return(h, status)
      BY <2>6 DEF ResolveFenced, ResolveCancelled, Crash
    <3>2. QED
      BY <2>1, <3>1, ReturnTyped
  <2>7. ASSUME UNCHANGED hostVars
        PROVE  HostTypeOK'
    BY <2>1, <2>7 DEF HostTypeOK, hostVars
  <2>8. QED
    BY <2>2, <2>3, <2>4, <2>5, <2>6, <2>7
    DEF HostNext, Submit, CancelWork, Tick, allVars
<1>3. QED
  BY <1>1, <1>2, PTL DEF HostSafetySpec
-----------------------------------------------------------------------------
(* The queue in a deployment.                                               *)

\* What the queue promises its clients holds whatever timeouts they ask for
\* and whenever they retry: deliveries within the budget, acknowledgements in
\* the order of the grants, at most one of each (claim, requireLease).
QueueInv ==
  \A w \in Works : AcksBehind(w) /\ WithinBudget(records[w], w)

LEMMA QueueKeeps ==
  ASSUME TypeOK, QueueInv, QueueCall
  PROVE  QueueInv'
<1> SUFFICES ASSUME NEW w \in Works
             PROVE  AcksBehind(w)' /\ WithinBudget(records'[w], w)
  BY DEF QueueInv
<1>1. ItemChange(w)
  BY CallStep
<1>2. QED
  BY <1>1, AcksStayBehind, BudgetStays DEF QueueInv

LEMMA QueueInvariant == HostSafetySpec => []QueueInv
<1>1. HostInit => QueueInv
  BY AcksStartBehind, BudgetStarts DEF HostInit, QueueInv
<1>2. HostTypeOK /\ QueueInv /\ [HostNext]_allVars => QueueInv'
  BY HostStepIsCall, QueueKeeps DEF HostTypeOK
<1>3. QED
  BY <1>1, <1>2, HostsTypedCorrect, PTL DEF HostSafetySpec

\* A deployment delivers an item within its budget and hears of each delivery
\* at most once, in order, however its hosts stall, crash and retry.
THEOREM DeploymentQueue == HostSafetySpec => [](DeliveryBudget /\ AcksAdvance)
<1>1. HostTypeOK /\ QueueInv => DeliveryBudget /\ AcksAdvance
  BY BudgetsSuffice DEF HostTypeOK, QueueInv, AcksBehind, AcksAdvance
<1>2. QED
  BY <1>1, HostsTypedCorrect, QueueInvariant, PTL

-----------------------------------------------------------------------------
(* The hosts.                                                               *)

\* A lease object names a grant that was made, and no two hosts keep the same.
GrantsInv ==
  /\ \A h \in Hosts : lease[h] # None =>
       lease[h].token <= records[lease[h].work].lastFencingToken
  /\ DeliveriesDistinct

\* The tokens of an item never go back.
LEMMA TokensGrow ==
  ASSUME TypeOK, TypeOK', NEW w \in Works, AcksBehind(w), ItemChange(w)
  PROVE  records[w].lastFencingToken <= records'[w].lastFencingToken
<1> DEFINE r == Recovered[w]
<1>1. /\ records[w] \in WorkRecord /\ records'[w] \in WorkRecord /\ r \in WorkRecord
      /\ now \in Nat
  BY RecoveredSound DEF TypeOK, Sound
<1>2. records[w].lastFencingToken \in Nat /\ records'[w].lastFencingToken \in Nat
  BY <1>1, RecordType
<1>3. r.lastFencingToken = records[w].lastFencingToken
  BY RecoveredToken
<1>4. CASE Enqueued(w)
  BY <1>2, <1>4 DEF Enqueued, AcksBehind
<1>5. CASE Claimed(w)
  <2>1. records'[w].lastFencingToken = r.lastFencingToken + 1
    BY <1>1, <1>5 DEF Claimed, WorkRecord
  <2>2. QED
    BY <1>2, <1>3, <2>1
<1>6. CASE Untouched(w) \/ Extended(w) \/ Settled(w) \/ Withdrawn(w)
  <2>1. CASE Settled(w)
    BY <1>1, <1>2, <1>3, <2>1, EndsKeepToken DEF Settled
  <2>2. CASE Untouched(w)
    BY <1>2, <1>3, <2>2 DEF Untouched
  <2>3. CASE Extended(w)
    BY <1>1, <1>2, <1>3, <2>3 DEF Extended, WorkRecord
  <2>4. CASE Withdrawn(w)
    BY <1>1, <1>2, <1>3, <2>4 DEF Withdrawn, WorkRecord
  <2>5. QED
    BY <1>6, <2>1, <2>2, <2>3, <2>4
<1>7. QED
  BY <1>4, <1>5, <1>6 DEF ItemChange

\* A claim grants a token that nobody was granted before.
LEMMA ClaimIsNew ==
  ASSUME HostTypeOK, NEW worker \in Workers, NEW w \in Works, Claim(worker, Timeout, w)
  PROVE  records'[w].lastFencingToken = records[w].lastFencingToken + 1
<1> DEFINE r == Recovered[w]
<1>1. TypeOK
  BY DEF HostTypeOK
<1>2. Recovered \in [Works -> WorkRecord]
  BY <1>1, RecoveredSound DEF Recovered, Sound
<1>3. records'[w].lastFencingToken = r.lastFencingToken + 1
  BY <1>2 DEF Claim, WorkRecord
<1>4. QED
  BY <1>1, <1>3, RecoveredToken

\* Two hosts never act on the same delivery, even under one worker id and
\* after any redeliveries and continuations (claim, lastFencingToken).
THEOREM DeliveriesApart == HostSafetySpec => []DeliveriesDistinct
<1>1. HostInit => GrantsInv
  BY DEF HostInit, GrantsInv, DeliveriesDistinct
<1>2. HostTypeOK /\ HostTypeOK' /\ QueueInv /\ GrantsInv /\ [HostNext]_allVars => GrantsInv'
  <2> SUFFICES ASSUME HostTypeOK, HostTypeOK', QueueInv, GrantsInv, [HostNext]_allVars
               PROVE  GrantsInv'
    OBVIOUS
  <2>1. \A w \in Works : /\ records[w].lastFencingToken <= records'[w].lastFencingToken
                         /\ records[w].lastFencingToken \in Nat
                         /\ records'[w].lastFencingToken \in Nat
    <3> SUFFICES ASSUME NEW w \in Works
                 PROVE  /\ records[w].lastFencingToken <= records'[w].lastFencingToken
                        /\ records[w].lastFencingToken \in Nat
                        /\ records'[w].lastFencingToken \in Nat
      OBVIOUS
    <3>1. TypeOK /\ TypeOK'
      BY DEF HostTypeOK
    <3>2. ItemChange(w)
      BY <3>1, HostStepIsCall, CallStep
    <3>3. records[w] \in WorkRecord /\ records'[w] \in WorkRecord
      BY <3>1 DEF TypeOK
    <3>4. QED
      BY <3>1, <3>2, <3>3, TokensGrow, RecordType DEF QueueInv
  <2>2. \A h \in Hosts : lease[h] # None => /\ lease[h].work \in Works
                                            /\ lease[h].token \in Nat
    BY DEF HostTypeOK
  <2>3. ASSUME NEW h \in Hosts, HostClaim(h)
        PROVE  GrantsInv'
    <3>1. PICK w \in Works :
            /\ Claim(WorkerOf[h], Timeout, w)
            /\ lease' = [lease EXCEPT ![h] = [work |-> w, token |-> records'[w].lastFencingToken]]
      BY <2>3 DEF HostClaim
    <3>2. records'[w].lastFencingToken = records[w].lastFencingToken + 1
      BY <3>1, HostParts, ClaimIsNew
    <3> DEFINE grant == [work |-> w, token |-> records'[w].lastFencingToken]
    <3>3. /\ lease'[h] = grant
          /\ \A g \in Hosts : g # h => lease'[g] = lease[g]
      BY <3>1 DEF HostTypeOK
    <3>4. /\ grant.work = w
          /\ grant.token = records'[w].lastFencingToken
      OBVIOUS
    <3> HIDE DEF grant
    <3>5. \A g \in Hosts : lease[g] # None => lease[g] # grant
      BY <2>1, <2>2, <3>2, <3>4 DEF GrantsInv
    <3>6. \A g \in Hosts : lease'[g] # None =>
            lease'[g].token <= records'[lease'[g].work].lastFencingToken
      BY <2>1, <2>2, <3>3, <3>4 DEF GrantsInv
    <3>7. DeliveriesDistinct'
      BY <3>3, <3>5 DEF GrantsInv, DeliveriesDistinct
    <3>8. QED
      BY <3>6, <3>7 DEF GrantsInv
  <2>4. ASSUME \A h \in Hosts : lease'[h] \in {lease[h], None}
        PROVE  GrantsInv'
    <3>1. \A h \in Hosts : lease'[h] # None => lease'[h] = lease[h]
      BY <2>4
    <3>2. DeliveriesDistinct'
      BY <3>1 DEF GrantsInv, DeliveriesDistinct
    <3>3. \A h \in Hosts : lease'[h] # None =>
            lease'[h].token <= records'[lease'[h].work].lastFencingToken
      BY <2>1, <2>2, <3>1 DEF GrantsInv
    <3>4. QED
      BY <3>2, <3>3 DEF GrantsInv
  <2>5. ASSUME NEW h \in Hosts, ResolveFenced(h) \/ ResolveCancelled(h) \/ Crash(h)
        PROVE  \A g \in Hosts : lease'[g] \in {lease[g], None}
    <3>1. lease' = [lease EXCEPT ![h] = None]
      BY <2>5 DEF ResolveFenced, ResolveCancelled, Crash, Return
    <3>2. QED
      BY <3>1 DEF HostTypeOK
  <2>6. ASSUME NEW h \in Hosts, PollEmpty(h) \/ HostHeartbeat(h) \/ HandlerEnds(h)
        PROVE  lease' = lease
    BY <2>6 DEF PollEmpty, HostHeartbeat, HandlerEnds
  <2>7. ASSUME Submit \/ CancelWork \/ Tick \/ UNCHANGED allVars
        PROVE  lease' = lease
    BY <2>7 DEF Submit, CancelWork, Tick, allVars, hostVars
  <2>8. QED
    BY <2>3, <2>4, <2>5, <2>6, <2>7 DEF HostNext
<1>3. GrantsInv => DeliveriesDistinct
  BY DEF GrantsInv
<1>4. QED
  BY <1>1, <1>2, <1>3, HostsTypedCorrect, QueueInvariant, PTL DEF HostSafetySpec
\* A host that returns processed for anything but a cancellation has had its
\* own delivery acknowledged, the newest of the item (resolve, requireLease).
THEOREM CompletionOwned == HostSafetySpec => CompletionIsOwn
<1> DEFINE Own ==
      \A h \in Hosts :
        LET w == lease[h].work
        IN  /\ phase[h] = "resolving"
            /\ phase'[h] = "idle"
            /\ outcome'[h] = "processed"
            /\ verdict[h].status # "cancelled"
            => /\ acks'[w] = Append(acks[w], lease[h].token)
               /\ lease[h].token = records[w].lastFencingToken
<1>1. HostTypeOK /\ QueueInv /\ [HostNext]_allVars => Own
  <2> SUFFICES ASSUME HostTypeOK, QueueInv, [HostNext]_allVars, NEW h \in Hosts,
                      phase[h] = "resolving", phase'[h] = "idle",
                      outcome'[h] = "processed", verdict[h].status # "cancelled"
               PROVE  LET w == lease[h].work
                      IN  /\ acks'[w] = Append(acks[w], lease[h].token)
                          /\ lease[h].token = records[w].lastFencingToken
    OBVIOUS
  <2> DEFINE w == lease[h].work
             token == lease[h].token
  <2>1. ResolveFenced(h)
    <3>1. ASSUME NEW g \in Hosts,
                 \/ HostClaim(g) \/ PollEmpty(g) \/ HostHeartbeat(g) \/ HandlerEnds(g)
                 \/ ResolveFenced(g) \/ ResolveCancelled(g) \/ Crash(g)
          PROVE  g = h
      <4>1. \A q \in Hosts : q # g => phase'[q] = phase[q]
        BY <3>1 DEF HostTypeOK, HostClaim, PollEmpty, HostHeartbeat, HandlerEnds,
                    ResolveFenced, ResolveCancelled, Crash, Return
      <4>2. QED
        BY <4>1
    <3>2. ~HostClaim(h) /\ ~PollEmpty(h) /\ ~HostHeartbeat(h) /\ ~HandlerEnds(h)
      BY DEF HostClaim, PollEmpty, HostHeartbeat, HandlerEnds
    <3>3. ~ResolveCancelled(h)
      BY DEF ResolveCancelled
    <3>4. ~Crash(h)
      BY DEF Crash, Return, HostTypeOK
    <3>5. ~Submit /\ ~CancelWork /\ ~Tick /\ ~UNCHANGED allVars
      BY DEF Submit, CancelWork, Tick, allVars, hostVars
    <3>6. QED
      BY <3>1, <3>2, <3>3, <3>4, <3>5 DEF HostNext
  <2>2. ~Return(h, "lease_lost")
    BY DEF Return, HostTypeOK
  <2>3. IsCurrent(Recovered[w], WorkerOf[h], token) /\ Acknowledge(w, token)
    BY <2>1, <2>2 DEF ResolveFenced, Complete, Checkpoint, Fail, Accept, TokenOf
  <2>4. w \in Works /\ TypeOK
    BY HostParts DEF HostTypeOK
  <2>5. acks'[w] = Append(acks[w], token)
    BY <2>3, <2>4 DEF Acknowledge, TypeOK
  <2>6. token = records[w].lastFencingToken
    <3>1. Recovered[w] = records[w]
      BY <2>3, <2>4, RecoveredToken DEF IsCurrent
    <3>2. QED
      BY <2>3, <2>4, <3>1 DEF IsCurrent, QueueInv, AcksBehind
  <2>7. QED
    BY <2>5, <2>6
<1>2. QED
  BY <1>1, HostsTypedCorrect, QueueInvariant, PTL DEF HostSafetySpec, CompletionIsOwn

-----------------------------------------------------------------------------
(* The promise that the queue implements.                                   *)

\* Tokens count deliveries.
TokensCount(w) == records[w].lastFencingToken = records[w].totalDeliveryAttempts

\* The end of a delivery counts none, and leaves the item queued or ended.
LEMMA EndsCount ==
  ASSUME NEW r \in WorkRecord, NEW w \in Works, NEW at \in Nat
  PROVE  /\ \A e \in Ends(r, w, at) :
              /\ e.lastFencingToken = r.lastFencingToken
              /\ e.totalDeliveryAttempts = r.totalDeliveryAttempts
              /\ e.state \in {"queued", "completed", "failed", "dead_lettered"}
         /\ Retried(r, w, at).state \in {"queued", "dead_lettered"}
<1>1. \A e \in {[r EXCEPT !.state = "completed", !.lease = NoLease],
               [r EXCEPT !.state = "failed", !.lease = NoLease],
               [r EXCEPT !.state = "dead_lettered", !.lease = NoLease],
               [r EXCEPT !.state = "queued", !.availableAt = at, !.lease = NoLease],
               [r EXCEPT !.state = "queued", !.lease = NoLease, !.availableAt = at,
                         !.continuationCount = @ + 1, !.attempt = 0]} :
        /\ e.lastFencingToken = r.lastFencingToken
        /\ e.totalDeliveryAttempts = r.totalDeliveryAttempts
        /\ e.state \in {"queued", "completed", "failed", "dead_lettered"}
  BY DEF WorkRecord
<1>2. /\ [r EXCEPT !.state = "dead_lettered", !.lease = NoLease].state = "dead_lettered"
      /\ [r EXCEPT !.state = "queued", !.availableAt = at, !.lease = NoLease].state = "queued"
  BY DEF WorkRecord
<1>3. QED
  BY <1>1, <1>2 DEF Ends, Retried, Continued

\* Recovery counts no delivery, and loses only one that is out.
LEMMA RecoveredCount ==
  ASSUME TypeOK, NEW w \in Works
  PROVE  /\ Recovered[w].lastFencingToken = records[w].lastFencingToken
         /\ Recovered[w].totalDeliveryAttempts = records[w].totalDeliveryAttempts
         /\ \/ Recovered[w] = records[w]
            \/ records[w].state = "leased" /\ Recovered[w].state \in {"queued", "dead_lettered"}
<1>1. records[w] \in WorkRecord /\ now \in Nat
  BY DEF TypeOK
<1>2. Retried(records[w], w, now) \in Ends(records[w], w, now)
  BY DEF Ends
<1>3. /\ Retried(records[w], w, now).lastFencingToken = records[w].lastFencingToken
      /\ Retried(records[w], w, now).totalDeliveryAttempts = records[w].totalDeliveryAttempts
      /\ Retried(records[w], w, now).state \in {"queued", "dead_lettered"}
  BY <1>1, <1>2, EndsCount
<1>4. Recovered[w] = IF Expired(records[w]) THEN Retried(records[w], w, now) ELSE records[w]
  BY DEF Recovered
<1>5. QED
  BY <1>3, <1>4 DEF Expired

\* What is queued was delivered less often than its budget.
LEMMA RoomForDelivery ==
  ASSUME NEW w \in Works, NEW r \in WorkRecord, WithinBudget(r, w), r.state = "queued"
  PROVE  r.totalDeliveryAttempts < (Item[w].maxContinuations + 1) * Item[w].maxAttempts
<1>1. /\ r.attempt \in Nat /\ r.continuationCount \in Nat /\ r.totalDeliveryAttempts \in Nat
      /\ Item[w].maxAttempts \in Nat /\ Item[w].maxContinuations \in Nat
  BY RecordType, ItemType
<1>2. /\ r.attempt + 1 <= Item[w].maxAttempts
      /\ r.continuationCount <= Item[w].maxContinuations
      /\ r.totalDeliveryAttempts + 1 <= r.continuationCount * Item[w].maxAttempts + (r.attempt + 1)
  BY <1>1 DEF WithinBudget
<1>3. r.totalDeliveryAttempts + 1 <= (Item[w].maxContinuations + 1) * Item[w].maxAttempts
  BY <1>1, <1>2, TotalArithmetic
<1>4. (Item[w].maxContinuations + 1) * Item[w].maxAttempts \in Nat
  BY <1>1
<1>5. QED
  BY <1>1, <1>3, <1>4

\* What the promise says of an item.
Promise(w) == /\ AcksBehind(w)
              /\ WithinBudget(records[w], w)
              /\ TokensCount(w)

\* A change of an item keeps what the promise needs, and is a step of it.
LEMMA ChangePromised ==
  ASSUME TypeOK, NEW w \in Works, Promise(w), ItemChange(w)
  PROVE  /\ TokensCount(w)'
         /\ Promised!Step(w)
<1> DEFINE r == Recovered[w]
           old == records[w]
           new == records'[w]
           budget == (Item[w].maxContinuations + 1) * Item[w].maxAttempts
<1>1. /\ r \in WorkRecord /\ old \in WorkRecord /\ now \in Nat
      /\ old.lastFencingToken \in Nat /\ r.state \in WorkState
  BY RecoveredSound, RecordType DEF Sound, TypeOK, WorkRecord
<1>2. /\ r.lastFencingToken = old.lastFencingToken
      /\ r.totalDeliveryAttempts = old.lastFencingToken
      /\ \/ r = old
         \/ old.state = "leased" /\ r.state \in {"queued", "dead_lettered"}
  BY RecoveredCount DEF Promise, TokensCount
<1>3. r.state = "leased" => old.state = "leased" /\ r.lease.fencingToken = old.lastFencingToken
  BY <1>2 DEF Promise, AcksBehind
<1>4. r.state = "queued" => old.lastFencingToken < budget /\ old.state \in {"queued", "leased"}
  <2>1. SUFFICES ASSUME r.state = "queued" PROVE old.lastFencingToken < budget
    BY <1>2
  <2>2. WithinBudget(r, w)
    BY <1>1, EndsWithinBudget DEF Promise, Recovered, Ends
  <2>3. QED
    BY <1>1, <1>2, <2>1, <2>2, RoomForDelivery
<1> SUFFICES /\ new.lastFencingToken = new.totalDeliveryAttempts
             /\ \/ /\ new.state = old.state /\ new.lastFencingToken = old.lastFencingToken
                   /\ acks'[w] = acks[w]
                \/ /\ old.state = "absent" /\ new.state = "queued"
                   /\ new.lastFencingToken = old.lastFencingToken /\ acks'[w] = acks[w]
                \/ /\ old.state \in {"queued", "leased"} /\ new.state = "leased"
                   /\ old.lastFencingToken < budget
                   /\ new.lastFencingToken = old.lastFencingToken + 1 /\ acks'[w] = acks[w]
                \/ /\ old.state = "leased" /\ new.state \in {"queued", "dead_lettered"}
                   /\ new.lastFencingToken = old.lastFencingToken /\ acks'[w] = acks[w]
                \/ /\ old.state = "leased"
                   /\ new.state \in {"queued", "completed", "failed", "dead_lettered"}
                   /\ new.lastFencingToken = old.lastFencingToken
                   /\ acks'[w] = Append(acks[w], old.lastFencingToken)
                \/ /\ old.state \in {"queued", "leased"} /\ new.state = "cancelled"
                   /\ new.lastFencingToken = old.lastFencingToken /\ acks'[w] = acks[w]
  BY DEF TokensCount, Promised!Step, Promised!Keeps, Promised!Submit, Promised!Deliver,
         Promised!Lose, Promised!Acknowledge, Promised!Withdraw
<1>5. CASE Untouched(w)
  BY <1>2, <1>5 DEF Untouched, Promise, TokensCount
<1>6. CASE Enqueued(w)
  <2>1. new.state = "queued" /\ new.lastFencingToken = 0 /\ new.totalDeliveryAttempts = 0
    BY <1>6 DEF Enqueued, Absent
  <2>2. QED
    BY <1>6, <2>1 DEF Enqueued, Promise, AcksBehind
<1>7. CASE Claimed(w)
  <2>1. /\ new.state = "leased" /\ new.lastFencingToken = r.lastFencingToken + 1
        /\ new.totalDeliveryAttempts = r.totalDeliveryAttempts + 1
    BY <1>1, <1>7 DEF Claimed, WorkRecord
  <2> HIDE DEF budget, new, old, r
  <2>2. QED
    BY <1>2, <1>4, <1>7, <2>1 DEF Claimed, r
<1>8. CASE Extended(w)
  <2>1. /\ new.state = r.state /\ new.lastFencingToken = r.lastFencingToken
        /\ new.totalDeliveryAttempts = r.totalDeliveryAttempts
    BY <1>1, <1>8 DEF Extended, WorkRecord
  <2> HIDE DEF budget, new, old, r
  <2>2. QED
    BY <1>2, <1>3, <1>8, <2>1 DEF Extended, r
<1>9. CASE Settled(w)
  <2>1. /\ new.state \in {"queued", "completed", "failed", "dead_lettered"}
        /\ new.lastFencingToken = r.lastFencingToken
        /\ new.totalDeliveryAttempts = r.totalDeliveryAttempts
    BY <1>1, <1>9, EndsCount DEF Settled
  <2> HIDE DEF budget, new, old
  <2>2. QED
    BY <1>2, <1>3, <1>9, <2>1 DEF Settled
<1>10. CASE Withdrawn(w)
  <2>1. /\ new.state = "cancelled" /\ new.lastFencingToken = r.lastFencingToken
        /\ new.totalDeliveryAttempts = r.totalDeliveryAttempts
    BY <1>1, <1>10 DEF Withdrawn, WorkRecord
  <2> HIDE DEF budget, new, old
  <2>2. QED
    BY <1>2, <1>3, <1>10, <2>1 DEF Withdrawn
<1>11. QED
  BY <1>5, <1>6, <1>7, <1>8, <1>9, <1>10 DEF ItemChange

\* Whatever is asked of the queue is a step of the promise.
LEMMA CallPromised ==
  ASSUME TypeOK, TypeOK', \A w \in Works : Promise(w), QueueCall
  PROVE  /\ (\A w \in Works : Promise(w))'
         /\ Promised!Next
<1>1. ASSUME NEW w \in Works PROVE ItemChange(w)
  BY CallStep
<1>2. ASSUME NEW w \in Works PROVE TokensCount(w)' /\ Promised!Step(w)
  BY <1>1, ChangePromised
<1>3. ASSUME NEW w \in Works PROVE AcksBehind(w)' /\ WithinBudget(records'[w], w)
  BY <1>1, AcksStayBehind, BudgetStays DEF Promise
<1>4. /\ [w \in Works |-> records[w].state]' \in [Works -> Promised!States]
      /\ [w \in Works |-> records[w].lastFencingToken]' \in [Works -> Nat]
      /\ acks' \in [Works -> Seq(Nat)]
  <2>1. ASSUME NEW w \in Works
        PROVE  records'[w].state \in Promised!States /\ records'[w].lastFencingToken \in Nat
    <3>1. records'[w] \in WorkRecord
      BY DEF TypeOK
    <3>2. QED
      BY <3>1 DEF WorkRecord, WorkState, Terminal, Promised!States, Promised!Ended
  <2>2. QED
    BY <2>1 DEF TypeOK
<1>5. QED
  BY <1>2, <1>3, <1>4 DEF Promise, Promised!Next

\* Before anything is enqueued nothing was delivered.
LEMMA StartPromised ==
  ASSUME Init
  PROVE  (\A w \in Works : Promise(w)) /\ Promised!Init
<1>1. ASSUME NEW w \in Works PROVE Promise(w)
  <2>1. TokensCount(w)
    BY DEF Init, Absent, TokensCount
  <2>2. QED
    BY <2>1, AcksStartBehind, BudgetStarts DEF Promise
<1>2. /\ [w \in Works |-> records[w].state] = [w \in Works |-> "absent"]
      /\ [w \in Works |-> records[w].lastFencingToken] = [w \in Works |-> 0]
      /\ acks = [w \in Works |-> <<>>]
  BY DEF Init, Absent
<1>3. QED
  BY <1>1, <1>2 DEF Promised!Init

\* The queue implements the promise: items are delivered one delivery at a
\* time within the product of their budgets, acknowledged by the delivery that
\* is out, and completed or failed by nothing else (MemoryWorkQueue).
THEOREM DeliversAsPromised == Spec => ImplementsDeliveries
<1> DEFINE Kept == \A w \in Works : Promise(w)
           state == [w \in Works |-> records[w].state]
           delivery == [w \in Works |-> records[w].lastFencingToken]
<1>1. Init => Kept /\ Promised!Init
  BY StartPromised
<1>2. TypeOK /\ TypeOK' /\ Kept /\ [Next]_vars
        => Kept' /\ [Promised!Next]_<<state, delivery, acks>>
  BY NextIsCall, CallPromised
<1>3. QED
  BY <1>1, <1>2, TypeCorrect, PTL DEF Spec, ImplementsDeliveries, Promised!Spec

\* So does the queue of any deployment, whatever its hosts do (runOne).
THEOREM DeploymentDelivers == HostSafetySpec => ImplementsDeliveries
<1> DEFINE Kept == \A w \in Works : Promise(w)
           state == [w \in Works |-> records[w].state]
           delivery == [w \in Works |-> records[w].lastFencingToken]
<1>1. HostInit => Kept /\ Promised!Init
  BY StartPromised DEF HostInit
<1>2. HostTypeOK /\ HostTypeOK' /\ Kept /\ [HostNext]_allVars
        => Kept' /\ [Promised!Next]_<<state, delivery, acks>>
  BY HostStepIsCall, CallPromised DEF HostTypeOK
<1>3. QED
  BY <1>1, <1>2, HostsTypedCorrect, PTL DEF HostSafetySpec, ImplementsDeliveries, Promised!Spec
=============================================================================
