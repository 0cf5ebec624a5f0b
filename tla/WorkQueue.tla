----------------------------- MODULE WorkQueue -----------------------------
(***************************************************************************)
(* MemoryWorkQueue (src/src/work.ts): an at-least-once queue whose         *)
(* deliveries are visibility leases with fencing tokens.  Every operation  *)
(* but enqueue first recovers the leases that have expired by the time it  *)
(* observes, and keeps that recovery even when it then refuses its caller. *)
(*                                                                         *)
(* Any worker may present any delivery granted so far, at any time: it may *)
(* have stalled past its lease, or acknowledge twice.  Lease ids are left  *)
(* out: one is minted with every fencing token, so comparing the token     *)
(* already tells two grants apart.  The wall clock steps either way.       *)
(***************************************************************************)
EXTENDS Integers, Sequences

CONSTANTS
  Works,        \* work item ids
  Workers,      \* worker ids
  Item,         \* the immutable item enqueued under each id
  Capabilities, \* the capabilities each worker claims with
  Kinds,        \* the work kinds each worker claims
  Timeouts,     \* visibility timeouts a caller may ask for
  MaxTime,      \* bound: the clock stays in 0 .. MaxTime
  None

Items == [createdAt : Nat, notBefore : Nat \cup {None}, priority : Int,
          kind : STRING, requires : SUBSET STRING,
          maxAttempts : Nat, maxContinuations : Nat, rank : Nat]

\* assertWorkItem and assertClaimRequest; rank is the order of the ids, which
\* are unique.
ASSUME WorkQueueAssumption ==
  /\ Item \in [Works -> Items]
  /\ \A w \in Works : Item[w].maxAttempts >= 1
  /\ \A v, w \in Works : Item[v].rank = Item[w].rank => v = w
  /\ Capabilities \in [Workers -> SUBSET STRING]
  /\ Kinds \in [Workers -> SUBSET STRING]
  /\ Timeouts \subseteq Nat \ {0}
  /\ MaxTime \in Nat
  /\ None \notin Nat

VARIABLES
  records,  \* the record of each work item
  now,      \* what runtime.nowIso() returns
  acks      \* history: the fencing tokens acknowledged, in order

vars == <<records, now, acks>>

Terminal == {"completed", "failed", "cancelled", "dead_lettered"}
WorkState == {"absent", "queued", "leased"} \cup Terminal

ActiveLease == [workerId : Workers, fencingToken : Nat, expiresAt : Nat]
NoLease == [workerId |-> None, fencingToken |-> 0, expiresAt |-> 0]

WorkRecord == [state : WorkState, attempt : Nat, continuationCount : Nat,
               totalDeliveryAttempts : Nat, lastFencingToken : Nat,
               availableAt : Nat, lease : ActiveLease \cup {NoLease}]

Absent == [state |-> "absent", attempt |-> 0, continuationCount |-> 0,
           totalDeliveryAttempts |-> 0, lastFencingToken |-> 0,
           availableAt |-> 0, lease |-> NoLease]

\* Type correctness; a record carries a lease object exactly while it is
\* leased, whichever way its delivery ended.
TypeOK ==
  /\ records \in [Works -> WorkRecord]
  /\ now \in Nat
  /\ acks \in [Works -> Seq(Nat)]
  /\ \A w \in Works : records[w].lease # NoLease <=> records[w].state = "leased"

Init ==
  /\ records = [w \in Works |-> Absent]
  /\ now = 0
  /\ acks = [w \in Works |-> <<>>]

IsTerminal(w) == records[w].state \in Terminal

-----------------------------------------------------------------------------
(* Faulty variants, each put in place of the definition it is named after.  *)

\* Expired work is queued again whatever its attempts.
Retried_Unbounded(r, w, at) ==
  [r EXCEPT !.state = "queued", !.availableAt = at, !.lease = NoLease]

\* Whoever notices a lost delivery fails the item once its attempts are spent.
Retried_Fails(r, w, at) ==
  IF r.attempt >= Item[w].maxAttempts
  THEN [r EXCEPT !.state = "failed", !.lease = NoLease]
  ELSE [r EXCEPT !.state = "queued", !.availableAt = at, !.lease = NoLease]

\* The lease object survives the end of the delivery.
Retried_LeaseKept(r, w, at) ==
  IF r.attempt >= Item[w].maxAttempts
  THEN [r EXCEPT !.state = "dead_lettered"]
  ELSE [r EXCEPT !.state = "queued", !.availableAt = at]

\* Work is given up one delivery early.
Retried_OneShort(r, w, at) ==
  IF r.attempt + 1 >= Item[w].maxAttempts
  THEN [r EXCEPT !.state = "dead_lettered", !.lease = NoLease]
  ELSE [r EXCEPT !.state = "queued", !.availableAt = at, !.lease = NoLease]

\* A continuation starts the fencing tokens over with the attempts.
Continued_TokenReset(r, w, at) ==
  IF r.continuationCount >= Item[w].maxContinuations
  THEN [r EXCEPT !.state = "dead_lettered", !.lease = NoLease]
  ELSE [r EXCEPT !.state = "queued", !.lease = NoLease, !.availableAt = at,
                 !.continuationCount = @ + 1, !.attempt = 0, !.lastFencingToken = 0]

\* A lease is recovered as soon as another worker looks for work.
Expired_Always(r) == r.state = "leased"

\* requireLease compares the worker, not the delivery it was granted.
IsCurrent_WorkerOnly(r, worker, token) ==
  r.state = "leased" /\ r.lease.workerId = worker

\* cancel does not refuse finished work.
Cancellable_Any(r) == r.state \notin {"absent", "cancelled"}

-----------------------------------------------------------------------------
\* What becomes of a delivery that ended without success and may be retried.
Retried(r, w, at) ==
  IF r.attempt >= Item[w].maxAttempts
  THEN [r EXCEPT !.state = "dead_lettered", !.lease = NoLease]
  ELSE [r EXCEPT !.state = "queued", !.availableAt = at, !.lease = NoLease]

Expired(r) == r.state = "leased" /\ r.lease.expiresAt <= now

\* recoverExpired: the records every operation but enqueue works on.
Recovered ==
  [w \in Works |->
     IF Expired(records[w]) THEN Retried(records[w], w, now) ELSE records[w]]

\* requireLease: the worker presents the delivery the record is leased for.
IsCurrent(r, worker, token) ==
  /\ r.state = "leased"
  /\ r.lease.workerId = worker
  /\ r.lease.fencingToken = token

\* Deliveries granted so far; the queue cannot tell who still acts on one.
Granted(w) == 1 .. records[w].lastFencingToken

\* The queue accepts the worker's lease and stores the record it becomes.
Accept(w, worker, token, record) ==
  /\ IsCurrent(Recovered[w], worker, token)
  /\ records' = [Recovered EXCEPT ![w] = record]
  /\ UNCHANGED now

Acknowledge(w, token) == acks' = [acks EXCEPT ![w] = Append(@, token)]

-----------------------------------------------------------------------------
\* enqueue of a new item.  An identical repeat returns the record and a
\* conflicting one throws: neither changes anything.
Enqueue(w) ==
  /\ records[w].state = "absent"
  /\ records' = [records EXCEPT ![w] =
       [Absent EXCEPT !.state = "queued",
          !.availableAt = IF Item[w].notBefore = None THEN Item[w].createdAt
                                                      ELSE Item[w].notBefore]]
  /\ UNCHANGED <<now, acks>>

\* get, a claim that finds nothing, and every refused call: only the expired
\* leases are recovered.
Observe ==
  /\ records' = Recovered
  /\ UNCHANGED <<now, acks>>

\* What claim may deliver to a worker, and its order: priority, then
\* availability, then creation, then id.
Ready(worker) ==
  {w \in Works :
     /\ Recovered[w].state = "queued"
     /\ Recovered[w].availableAt <= now
     /\ Item[w].requires \subseteq Capabilities[worker]
     /\ Item[w].kind \in Kinds[worker]}

Precedes(v, w) ==
  LET Since(x) == Recovered[x].availableAt
  IN  \/ Item[v].priority > Item[w].priority
      \/ /\ Item[v].priority = Item[w].priority
         /\ \/ Since(v) < Since(w)
            \/ Since(v) = Since(w) /\ Item[v].createdAt < Item[w].createdAt
            \/ /\ Since(v) = Since(w) /\ Item[v].createdAt = Item[w].createdAt
               /\ Item[v].rank < Item[w].rank

\* claim.
Claim(worker, timeout, w) ==
  /\ w \in Ready(worker)
  /\ \A v \in Ready(worker) \ {w} : Precedes(w, v)
  /\ LET r == Recovered[w]
     IN  records' = [Recovered EXCEPT ![w] =
           [r EXCEPT !.state = "leased",
                     !.attempt = @ + 1,
                     !.totalDeliveryAttempts = @ + 1,
                     !.lastFencingToken = @ + 1,
                     !.lease = [workerId |-> worker,
                                fencingToken |-> r.lastFencingToken + 1,
                                expiresAt |-> now + timeout]]]
  /\ UNCHANGED <<now, acks>>

Heartbeat(w, worker, token, timeout) ==
  /\ Accept(w, worker, token,
            [Recovered[w] EXCEPT !.lease.expiresAt = now + timeout])
  /\ UNCHANGED acks

Complete(w, worker, token) ==
  /\ Accept(w, worker, token,
            [Recovered[w] EXCEPT !.state = "completed", !.lease = NoLease])
  /\ Acknowledge(w, token)

\* checkpoint starts a new segment with its attempts reset, until the
\* continuations run out.
Continued(r, w, at) ==
  IF r.continuationCount >= Item[w].maxContinuations
  THEN [r EXCEPT !.state = "dead_lettered", !.lease = NoLease]
  ELSE [r EXCEPT !.state = "queued", !.lease = NoLease, !.availableAt = at,
                 !.continuationCount = @ + 1, !.attempt = 0]

Checkpoint(w, worker, token, notBefore) ==
  /\ Accept(w, worker, token,
            Continued(Recovered[w], w, IF notBefore = None THEN now ELSE notBefore))
  /\ Acknowledge(w, token)

Fail(w, worker, token, retryable, retryAt) ==
  /\ LET r == Recovered[w]
     IN  Accept(w, worker, token,
           IF retryable
           THEN Retried(r, w, IF retryAt = None THEN now ELSE retryAt)
           ELSE [r EXCEPT !.state = "failed", !.lease = NoLease])
  /\ Acknowledge(w, token)

\* cancel refuses finished work and is idempotent; it asks for no lease.
Cancellable(r) == r.state \in {"queued", "leased"}

Cancel(w) ==
  /\ Cancellable(Recovered[w])
  /\ records' = [Recovered EXCEPT ![w].state = "cancelled", ![w].lease = NoLease]
  /\ UNCHANGED <<now, acks>>

\* The wall clock: any step forward or backward.
ClockStep ==
  /\ now' \in 0 .. MaxTime
  /\ UNCHANGED <<records, acks>>

Times == (0 .. MaxTime) \cup {None}

Next ==
  \/ \E w \in Works : Enqueue(w) \/ Cancel(w)
  \/ Observe
  \/ \E worker \in Workers, timeout \in Timeouts, w \in Works :
       Claim(worker, timeout, w)
  \/ \E w \in Works, worker \in Workers : \E token \in Granted(w) :
       \/ \E timeout \in Timeouts : Heartbeat(w, worker, token, timeout)
       \/ Complete(w, worker, token)
       \/ \E at \in Times : Checkpoint(w, worker, token, at)
       \/ \E retryable \in BOOLEAN, at \in Times :
            Fail(w, worker, token, retryable, at)
  \/ ClockStep

Spec == Init /\ [][Next]_vars

-----------------------------------------------------------------------------
\* Redelivery is bounded: however workers crash, stall, checkpoint and retry,
\* an item is delivered at most maxAttempts times in each of its
\* maxContinuations + 1 segments, and is never left queued with its attempts
\* spent (claim does not check the budget; only the ends of deliveries do).
DeliveryBudget ==
  \A w \in Works :
    /\ records[w].totalDeliveryAttempts
         <= (Item[w].maxContinuations + 1) * Item[w].maxAttempts
    /\ records[w].state = "queued" => records[w].attempt < Item[w].maxAttempts

\* A delivery is acknowledged at most once, and never after a later one: the
\* tokens of the acknowledgements increase (requireLease, lastFencingToken).
AcksAdvance ==
  \A w \in Works : \A j \in 1 .. Len(acks[w]) : \A i \in 1 .. (j - 1) :
    acks[w][i] < acks[w][j]

\* Work is given up only when a budget is spent.
DeadLetterJustified ==
  \A w \in Works : records[w].state = "dead_lettered" =>
    \/ records[w].attempt >= Item[w].maxAttempts
    \/ records[w].continuationCount >= Item[w].maxContinuations

\* Until its lease expires by the clock, a delivery ends only by its own
\* acknowledgement or by a cancellation: no call of another worker takes it.
LiveLeaseKept ==
  [][\A w \in Works :
       LET lease == records[w].lease
       IN  records[w].state = "leased" /\ lease.expiresAt > now =>
             \/ /\ records'[w].state = "leased"
                /\ records'[w].lease.workerId = lease.workerId
                /\ records'[w].lease.fencingToken = lease.fencingToken
             \/ acks'[w] = Append(acks[w], lease.fencingToken)
             \/ records'[w].state = "cancelled"]_vars

\* Finished work stays as it finished: late acknowledgements, retries,
\* recoveries and cancellations leave its record alone.
TerminalIsFinal ==
  [][\A w \in Works : IsTerminal(w) => records'[w] = records[w]]_vars

\* The queue delivers as module Deliveries promises: the deliveries of an item
\* are the grants of its fencing tokens, which start at one and skip none, and
\* a lost delivery is one whose lease was recovered, whoever noticed it.
Promised == INSTANCE Deliveries WITH
  state    <- [w \in Works |-> records[w].state],
  delivery <- [w \in Works |-> records[w].lastFencingToken],
  acked    <- acks,
  Budget   <- [w \in Works |-> (Item[w].maxContinuations + 1) * Item[w].maxAttempts]

ImplementsDeliveries == Promised!Spec
=============================================================================
