--------------------------- MODULE FencedJournal ---------------------------
(***************************************************************************)
(* The session journal and the execution leases that fence it              *)
(* (src/src/journal.ts, src/src/execution.ts, and the SessionAppender of   *)
(* src/src/loop.ts that every loop write goes through).                    *)
(*                                                                         *)
(* A run is one process that executes a session for an owner.  It acquires *)
(* a lease, reads the journal, and appends through the bound (fenced) view *)
(* with the head it last saw as the expected head.  Runs may stall for any *)
(* time, lose their lease, share an owner id with another run, and be      *)
(* given a lease of another session by a faulty host.  The control plane   *)
(* (dispatcher, mailbox, reconciliation) appends without a lease.  The     *)
(* wall clock may step in either direction.                                *)
(***************************************************************************)
EXTENDS Integers, Sequences

CONSTANTS
  Sessions,     \* session ids
  Runs,         \* processes that execute sessions
  Owners,       \* lease owner ids (worker ids)
  OwnerOf,      \* the owner id each run acquires with
  Durations,    \* lease durations a caller may ask for
  MaxTime,      \* bound: the clock stays in 0 .. MaxTime
  MaxId,        \* bound: ids created by the runtime
  None

\* A lease as its holder presents it.  The expiry its copy carries is never
\* read back by the store, which keeps the one that counts (expiresAt).
Lease == [session : Sessions, leaseId : Nat, ownerId : Owners,
          fencingToken : Nat]

ASSUME FencedJournalAssumption ==
  /\ OwnerOf \in [Runs -> Owners]
  /\ Durations \subseteq Nat \ {0}
  /\ MaxTime \in Nat
  /\ MaxId \in Nat
  /\ None \notin Lease
  /\ None \notin Nat
  /\ None \notin Runs
  /\ None \notin Sessions

VARIABLES
  journal,       \* sessions: the events of each session, oldest first
  activeLeases,  \* activeLeases: the current lease of a session, or None
  expiresAt,     \* expiresAt of the active lease, 0 without one
  lastTokens,    \* lastFencingTokens
  now,           \* what runtime.nowIso() returns
  lastId,        \* ids handed out by runtime.createId()
  held,          \* the lease object each run holds, or None
  attached,      \* the session a run's appender writes to, or None
  headId,        \* SessionAppender.headId
  seen           \* history: how many events the run has read or written

store == <<journal, activeLeases, expiresAt, lastTokens, lastId>>
vars == <<store, now, held, attached, headId, seen>>

\* An event keeps the envelope fields a chain check reads; writer, token and
\* seen record who appended it, under which fencing token (0: none) and how
\* much of the journal that writer had observed.
Event == [id : Nat, sequence : Nat, parentId : Nat \cup {None},
          writer : Runs \cup {None}, token : Nat, seen : Nat]

\* Type correctness of the store and of what the runs remember of it; a run
\* has a session open only through a lease it was given.
TypeOK ==
  /\ journal \in [Sessions -> Seq(Event)]
  /\ activeLeases \in [Sessions -> Lease \cup {None}]
  /\ expiresAt \in [Sessions -> Nat]
  /\ lastTokens \in [Sessions -> Nat]
  /\ now \in Nat
  /\ lastId \in Nat
  /\ held \in [Runs -> Lease \cup {None}]
  /\ attached \in [Runs -> Sessions \cup {None}]
  /\ headId \in [Runs -> Nat \cup {None}]
  /\ seen \in [Runs -> Nat]
  /\ \A r \in Runs : attached[r] # None => held[r] # None

Init ==
  /\ journal = [s \in Sessions |-> <<>>]
  /\ activeLeases = [s \in Sessions |-> None]
  /\ expiresAt = [s \in Sessions |-> 0]
  /\ lastTokens = [s \in Sessions |-> 0]
  /\ now = 0
  /\ lastId = 0
  /\ held = [r \in Runs |-> None]
  /\ attached = [r \in Runs |-> None]
  /\ headId = [r \in Runs |-> None]
  /\ seen = [r \in Runs |-> 0]

-----------------------------------------------------------------------------
(* Faulty variants, each put in place of the definition it is named after   *)
(* to see the properties fail.                                             *)

\* sequence: head.sequence - 1, and head.sequence without the increment.
NextEvent_Decremented(s, writer, token, known) ==
  [id |-> lastId + 1, sequence |-> Len(journal[s]) - 1, parentId |-> None,
   writer |-> writer, token |-> token, seen |-> known]

NextEvent_NotIncremented(s, writer, token, known) ==
  [id |-> lastId + 1, sequence |-> Len(journal[s]),
   parentId |-> IF journal[s] = <<>> THEN None ELSE journal[s][Len(journal[s])].id,
   writer |-> writer, token |-> token, seen |-> known]

\* requireLease looks at the expiry of whatever lease is active.
LeaseCurrent_AnyLease(lease) ==
  activeLeases[lease.session] # None /\ expiresAt[lease.session] > now

\* acquireExecutionLease hands an active lease to anyone.
SameOwner_Anyone(r, s) == TRUE

\* The expected head is not compared; the lease's session is not compared.
HeadExpected_Unchecked(r) == TRUE
LeaseOfSession_Unchecked(r) == TRUE

\* lastFencingTokens is not written back.
Grant_TokenNotStored(s) == lastTokens' = lastTokens

-----------------------------------------------------------------------------
\* The id of the last event of a journal, None for an empty one.
HeadId(events) == IF events = <<>> THEN None ELSE events[Len(events)].id

\* createJournalEvent: the envelope of the next event after the given head.
NextEvent(s, writer, token, known) ==
  [id |-> lastId + 1, sequence |-> Len(journal[s]) + 1,
   parentId |-> HeadId(journal[s]),
   writer |-> writer, token |-> token, seen |-> known]

\* appendInternal, once its guards have passed.
Push(s, event) ==
  /\ lastId < MaxId
  /\ lastId' = lastId + 1
  /\ journal' = [journal EXCEPT ![s] = Append(@, event)]

\* requireLease: the lease a caller presents is its session's current one and
\* has not expired.
LeaseCurrent(lease) ==
  /\ activeLeases[lease.session] # None
  /\ activeLeases[lease.session].leaseId = lease.leaseId
  /\ activeLeases[lease.session].ownerId = lease.ownerId
  /\ activeLeases[lease.session].fencingToken = lease.fencingToken
  /\ expiresAt[lease.session] > now

LiveLease(s) == activeLeases[s] # None /\ expiresAt[s] > now

\* The active lease is the requester's own.
SameOwner(r, s) == activeLeases[s].ownerId = OwnerOf[r]

\* Every grant of a session takes the next fencing token.
Grant(s) == lastTokens' = [lastTokens EXCEPT ![s] = @ + 1]

\* assertExpectedJournalHead, with the appender's head as the expected one.
HeadExpected(r) == HeadId(journal[attached[r]]) = headId[r]

\* appendFenced refuses a lease of another session.
LeaseOfSession(r) == attached[r] = held[r].session

-----------------------------------------------------------------------------
\* acquireExecutionLease, when no unexpired lease is active.
AcquireFresh(r, s, d) ==
  /\ held[r] = None
  /\ ~LiveLease(s)
  /\ lastId < MaxId
  /\ LET lease == [session |-> s, leaseId |-> lastId + 1,
                   ownerId |-> OwnerOf[r],
                   fencingToken |-> lastTokens[s] + 1]
     IN  /\ activeLeases' = [activeLeases EXCEPT ![s] = lease]
         /\ held' = [held EXCEPT ![r] = lease]
  /\ expiresAt' = [expiresAt EXCEPT ![s] = now + d]
  /\ Grant(s)
  /\ lastId' = lastId + 1
  /\ UNCHANGED <<journal, now, attached, headId, seen>>

\* acquireExecutionLease by the owner of the unexpired lease: the same lease
\* object is returned.  Any other owner gets null, which changes nothing.
AcquireShared(r, s) ==
  /\ held[r] = None
  /\ LiveLease(s)
  /\ SameOwner(r, s)
  /\ held' = [held EXCEPT ![r] = activeLeases[s]]
  /\ UNCHANGED <<store, now, attached, headId, seen>>

\* renewExecutionLease: a lease the store refuses throws and changes nothing.
Renew(r, d) ==
  /\ held[r] # None
  /\ LeaseCurrent(held[r])
  /\ expiresAt' = [expiresAt EXCEPT ![held[r].session] = now + d]
  /\ UNCHANGED <<journal, activeLeases, lastTokens, lastId, now,
                 held, attached, headId, seen>>

\* releaseExecutionLease; the caller keeps the (now void) lease object.
Release(r) ==
  /\ held[r] # None
  /\ LeaseCurrent(held[r])
  /\ activeLeases' = [activeLeases EXCEPT ![held[r].session] = None]
  /\ expiresAt' = [expiresAt EXCEPT ![held[r].session] = 0]
  /\ UNCHANGED <<journal, lastTokens, lastId, now, held, attached, headId, seen>>

\* runAgentLoop opens a session: it reads the journal and starts an appender
\* at the head it read.
Attach(r, s) ==
  /\ held[r] # None
  /\ attached[r] = None
  /\ attached' = [attached EXCEPT ![r] = s]
  /\ headId' = [headId EXCEPT ![r] = HeadId(journal[s])]
  /\ seen' = [seen EXCEPT ![r] = Len(journal[s])]
  /\ UNCHANGED <<store, now, held>>

\* SessionAppender.append through bindExecutionLease: appendFenced with the
\* expected head.  A refused append throws and changes nothing.
AppendFenced(r) ==
  /\ attached[r] # None
  /\ LeaseOfSession(r)
  /\ LeaseCurrent(held[r])
  /\ HeadExpected(r)
  /\ Push(attached[r],
          NextEvent(attached[r], r, held[r].fencingToken, seen[r]))
  /\ headId' = [headId EXCEPT ![r] = lastId + 1]
  /\ seen' = [seen EXCEPT ![r] = @ + 1]
  /\ UNCHANGED <<activeLeases, expiresAt, lastTokens, now, held, attached>>

\* append without a lease or an expected head: the fork link, a mailbox
\* receipt outside a loop, an action reconciliation.
AppendUnfenced(s) ==
  /\ Push(s, NextEvent(s, None, 0, Len(journal[s])))
  /\ UNCHANGED <<activeLeases, expiresAt, lastTokens, now,
                 held, attached, headId, seen>>

\* The run's process ends, whether or not it released its lease.
Exit(r) ==
  /\ held[r] # None
  /\ held' = [held EXCEPT ![r] = None]
  /\ attached' = [attached EXCEPT ![r] = None]
  /\ headId' = [headId EXCEPT ![r] = None]
  /\ seen' = [seen EXCEPT ![r] = 0]
  /\ UNCHANGED <<store, now>>

\* The wall clock: any step forward or backward.
ClockStep ==
  /\ now' \in 0 .. MaxTime
  /\ UNCHANGED <<store, held, attached, headId, seen>>

Next ==
  \/ \E r \in Runs, s \in Sessions, d \in Durations : AcquireFresh(r, s, d)
  \/ \E r \in Runs, s \in Sessions : AcquireShared(r, s)
  \/ \E r \in Runs, d \in Durations : Renew(r, d)
  \/ \E r \in Runs : Release(r)
  \/ \E r \in Runs, s \in Sessions : Attach(r, s)
  \/ \E r \in Runs : AppendFenced(r)
  \/ \E s \in Sessions : AppendUnfenced(s)
  \/ \E r \in Runs : Exit(r)
  \/ ClockStep

Spec == Init /\ [][Next]_vars

-----------------------------------------------------------------------------
Fenced(event) == event.token # 0

\* validateChain accepts every journal: sequences are contiguous from 1, each
\* parent is the previous event, no id repeats.
ChainIntact ==
  \A s \in Sessions : \A i \in 1 .. Len(journal[s]) :
    /\ journal[s][i].sequence = i
    /\ journal[s][i].parentId = (IF i = 1 THEN None ELSE journal[s][i - 1].id)
    /\ \A j \in 1 .. (i - 1) : journal[s][j].id < journal[s][i].id

\* Once a run wrote under a fencing token, no run writes under an older one,
\* however long it stalled and wherever the clock went (appendFenced).
TokensOrdered ==
  \A s \in Sessions : \A j \in 1 .. Len(journal[s]) : \A i \in 1 .. (j - 1) :
    Fenced(journal[s][i]) /\ Fenced(journal[s][j])
      => journal[s][i].token <= journal[s][j].token

\* All events written under one token come from runs of one owner: two owners
\* never execute a session under the same grant (acquireExecutionLease).
OneOwnerPerToken ==
  \A s \in Sessions : \A j \in 1 .. Len(journal[s]) : \A i \in 1 .. (j - 1) :
    /\ Fenced(journal[s][i])
    /\ journal[s][i].token = journal[s][j].token
    => OwnerOf[journal[s][i].writer] = OwnerOf[journal[s][j].writer]

\* A run appends only with the whole journal observed: nothing the control
\* plane or a run of the same owner wrote in between is overlooked
\* (assertExpectedJournalHead under the appender's tracked head).
WriterKnewHistory ==
  \A s \in Sessions : \A i \in 1 .. Len(journal[s]) :
    journal[s][i].seen = i - 1

\* A superseded run is silent: a fenced append only ever happens under the
\* newest token granted for that session.
OnlyNewestTokenAppends ==
  [][\A s \in Sessions :
       Len(journal'[s]) > Len(journal[s]) /\ Fenced(journal'[s][Len(journal'[s])])
         => journal'[s][Len(journal'[s])].token = lastTokens[s]]_vars

-----------------------------------------------------------------------------
\* The fencing tokens along each journal, 0 for appends without a lease.
Tokens == [s \in Sessions |-> [i \in 1 .. Len(journal[s]) |-> journal[s][i].token]]

\* The session journal implements the log with epochs: its tokens are the
\* epochs, a grant opens one, and a fenced append only ever writes to the
\* newest, although leases are checked against a clock that steps both ways
\* and are shared between runs of an owner.
Epochs == INSTANCE EpochLog WITH log <- Tokens, epoch <- lastTokens

ImplementsEpochLog == Epochs!Spec
=============================================================================
