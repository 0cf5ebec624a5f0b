------------------------ MODULE FencedJournalProofs ------------------------
(***************************************************************************)
(* Proofs about module FencedJournal, for any sessions, runs, owners,      *)
(* durations and bounds.  The argument goes in layers, each an inductive   *)
(* invariant that uses the ones before it: types, leases, tokens, owners,  *)
(* and the chain with what a run knows of it.                              *)
(***************************************************************************)
EXTENDS FencedJournal, TLAPS, SequenceTheorems

-----------------------------------------------------------------------------
(* What the operators return.                                               *)

\* The head id of a journal of events is the id of its last event, or None
\* for the empty journal (createJournalEvent, assertExpectedJournalHead).
LEMMA HeadIdType ==
  ASSUME NEW events \in Seq(Event)
  PROVE  /\ HeadId(events) \in Nat \cup {None}
         /\ events = <<>> <=> Len(events) = 0
         /\ Len(events) # 0 => HeadId(events) = events[Len(events)].id
         /\ Len(events) = 0 => HeadId(events) = None
<1>1. Len(events) \in Nat /\ (events = <<>> <=> Len(events) = 0)
  BY EmptySeq
<1>2. CASE events = <<>>
  BY <1>1, <1>2 DEF HeadId
<1>3. CASE events # <<>>
  <2>1. Len(events) \in 1 .. Len(events)
    BY <1>1, <1>3
  <2>2. events[Len(events)] \in Event
    BY <2>1, ElementOfSeq
  <2>3. QED
    BY <1>1, <1>3, <2>2 DEF HeadId, Event
<1>4. QED
  BY <1>2, <1>3

\* An append extends the journal of one session by one event and changes
\* nothing else of any journal (appendInternal).
LEMMA PushExtends ==
  ASSUME TypeOK, NEW s \in Sessions, NEW event \in Event, Push(s, event)
  PROVE  /\ journal' \in [Sessions -> Seq(Event)]
         /\ lastId' = lastId + 1
         /\ \A t \in Sessions \ {s} : journal'[t] = journal[t]
         /\ Len(journal[s]) \in Nat
         /\ Len(journal'[s]) = Len(journal[s]) + 1
         /\ \A i \in 1 .. Len(journal[s]) : journal'[s][i] = journal[s][i]
         /\ journal'[s][Len(journal[s]) + 1] = event
<1>1. journal[s] \in Seq(Event) /\ journal' = [journal EXCEPT ![s] = Append(journal[s], event)]
  BY DEF TypeOK, Push
<1>2. journal'[s] = Append(journal[s], event)
  BY <1>1 DEF TypeOK
<1>3. /\ Append(journal[s], event) \in Seq(Event)
      /\ Len(Append(journal[s], event)) = Len(journal[s]) + 1
      /\ \A i \in 1 .. Len(journal[s]) : Append(journal[s], event)[i] = journal[s][i]
      /\ Append(journal[s], event)[Len(journal[s]) + 1] = event
  BY <1>1, AppendProperties
<1>4. \A t \in Sessions \ {s} : journal'[t] = journal[t]
  BY <1>1 DEF TypeOK
<1>5. Len(journal[s]) \in Nat
  BY <1>1, LenProperties
<1>6. QED
  BY <1>1, <1>2, <1>3, <1>4, <1>5 DEF Push, TypeOK

\* After an append, an entry is the one that was there, with all before it,
\* or the appended event at the end of its journal.
LEMMA PushEntries ==
  ASSUME TypeOK, NEW s \in Sessions, NEW event \in Event, Push(s, event),
         NEW t \in Sessions, NEW i \in 1 .. Len(journal'[t])
  PROVE  \/ /\ i \in 1 .. Len(journal[t])
            /\ \A k \in 1 .. i : journal'[t][k] = journal[t][k]
         \/ /\ t = s
            /\ i = Len(journal[s]) + 1
            /\ journal'[t][i] = event
            /\ \A k \in 1 .. (i - 1) : /\ k \in 1 .. Len(journal[s])
                                       /\ journal'[t][k] = journal[s][k]
<1>1. /\ \A u \in Sessions \ {s} : journal'[u] = journal[u]
      /\ Len(journal[s]) \in Nat
      /\ Len(journal'[s]) = Len(journal[s]) + 1
      /\ \A k \in 1 .. Len(journal[s]) : journal'[s][k] = journal[s][k]
      /\ journal'[s][Len(journal[s]) + 1] = event
  BY PushExtends
<1>2. CASE t # s
  BY <1>1, <1>2
<1>3. CASE t = s /\ i \in 1 .. Len(journal[s])
  <2>1. \A k \in 1 .. i : k \in 1 .. Len(journal[s])
    BY <1>1, <1>3
  <2>2. QED
    BY <1>1, <1>3, <2>1
<1>4. CASE t = s /\ i = Len(journal[s]) + 1
  <2>1. \A k \in 1 .. (i - 1) : k \in 1 .. Len(journal[s])
    BY <1>1, <1>4
  <2>2. QED
    BY <1>1, <1>4, <2>1
<1>5. t = s => i \in 1 .. Len(journal[s]) \/ i = Len(journal[s]) + 1
  BY <1>1
<1>6. QED
  BY <1>2, <1>3, <1>4, <1>5

-----------------------------------------------------------------------------
(* Types.                                                                   *)

\* Every event that the actions append is an event.
LEMMA NextEventType ==
  ASSUME TypeOK, NEW s \in Sessions, NEW writer \in Runs \cup {None},
         NEW token \in Nat, NEW known \in Nat
  PROVE  /\ NextEvent(s, writer, token, known) \in Event
         /\ Len(journal[s]) \in Nat
<1>1. journal[s] \in Seq(Event)
  BY DEF TypeOK
<1>2. HeadId(journal[s]) \in Nat \cup {None} /\ Len(journal[s]) \in Nat
  BY <1>1, HeadIdType, LenProperties
<1>3. QED
  BY <1>2 DEF TypeOK, NextEvent, Event

\* Every entry of a journal is an event.
LEMMA JournalType ==
  ASSUME TypeOK, NEW s \in Sessions
  PROVE  /\ Len(journal[s]) \in Nat
         /\ \A i \in 1 .. Len(journal[s]) : journal[s][i] \in Event
<1>1. journal[s] \in Seq(Event)
  BY DEF TypeOK
<1>2. QED
  BY <1>1, LenProperties, ElementOfSeq

\* The lease a run holds is a lease, and its session a session.
LEMMA HeldType ==
  ASSUME TypeOK, NEW r \in Runs, held[r] # None
  PROVE  held[r] \in Lease /\ held[r].session \in Sessions /\ held[r].fencingToken \in Nat
BY DEF TypeOK, Lease

\* Type correctness: every operation keeps the store, the leases and what the
\* runs remember well-formed.
THEOREM TypeCorrect == Spec => []TypeOK
<1> USE FencedJournalAssumption
<1>1. Init => TypeOK
  <2> SUFFICES ASSUME Init PROVE TypeOK
    OBVIOUS
  <2>1. <<>> \in Seq(Event)
    BY EmptySeq
  <2>2. QED
    BY <2>1 DEF Init, TypeOK
<1>2. TypeOK /\ [Next]_vars => TypeOK'
  <2> SUFFICES ASSUME TypeOK, [Next]_vars PROVE TypeOK'
    OBVIOUS
  <2>1. ASSUME NEW r \in Runs, NEW s \in Sessions, NEW d \in Durations, AcquireFresh(r, s, d)
        PROVE  TypeOK'
    <3> DEFINE lease == [session |-> s, leaseId |-> lastId + 1, ownerId |-> OwnerOf[r],
                         fencingToken |-> lastTokens[s] + 1]
    <3>1. lease \in Lease
      BY DEF TypeOK, Lease
    <3>2. d \in Nat
      OBVIOUS
    <3>3. /\ activeLeases' = [activeLeases EXCEPT ![s] = lease]
          /\ held' = [held EXCEPT ![r] = lease]
      BY <2>1 DEF AcquireFresh
    <3> HIDE DEF lease
    <3>4. QED
      BY <2>1, <3>1, <3>2, <3>3 DEF TypeOK, AcquireFresh, Grant
  <2>2. ASSUME NEW r \in Runs, NEW s \in Sessions, AcquireShared(r, s)
        PROVE  TypeOK'
    <3>1. activeLeases[s] \in Lease
      BY <2>2 DEF TypeOK, AcquireShared, LiveLease
    <3>2. QED
      BY <2>2, <3>1 DEF TypeOK, AcquireShared, store
  <2>3. ASSUME NEW r \in Runs, NEW d \in Durations, Renew(r, d)
        PROVE  TypeOK'
    <3>1. d \in Nat /\ now + d \in Nat
      <4>1. d \in Nat
        OBVIOUS
      <4>2. QED
        BY <4>1 DEF TypeOK
    <3>2. held[r].session \in Sessions
      BY <2>3, HeldType DEF Renew
    <3>3. QED
      BY <2>3, <3>1, <3>2 DEF TypeOK, Renew
  <2>4. ASSUME NEW r \in Runs, Release(r)
        PROVE  TypeOK'
    <3>1. held[r].session \in Sessions
      BY <2>4, HeldType DEF Release
    <3>2. QED
      BY <2>4, <3>1 DEF TypeOK, Release
  <2>5. ASSUME NEW r \in Runs, NEW s \in Sessions, Attach(r, s)
        PROVE  TypeOK'
    <3>1. HeadId(journal[s]) \in Nat \cup {None} /\ Len(journal[s]) \in Nat
      BY HeadIdType, LenProperties DEF TypeOK
    <3>2. QED
      BY <2>5, <3>1 DEF TypeOK, Attach, store
  <2>6. ASSUME NEW r \in Runs, AppendFenced(r)
        PROVE  TypeOK'
    <3> DEFINE s == attached[r]
               event == NextEvent(s, r, held[r].fencingToken, seen[r])
    <3>1. s \in Sessions
      BY <2>6 DEF TypeOK, AppendFenced
    <3>2. held[r] # None
      BY <2>6 DEF TypeOK, AppendFenced
    <3>3. event \in Event
      BY <3>1, <3>2, HeldType, NextEventType DEF TypeOK
    <3>4. journal' \in [Sessions -> Seq(Event)] /\ lastId' = lastId + 1
      <4>1. Push(s, event)
        BY <2>6 DEF AppendFenced
      <4> HIDE DEF event, s
      <4>2. QED
        BY <3>1, <3>3, <4>1, PushExtends
    <3>5. QED
      BY <2>6, <3>4 DEF TypeOK, AppendFenced
  <2>7. ASSUME NEW s \in Sessions, AppendUnfenced(s)
        PROVE  TypeOK'
    <3> DEFINE event == NextEvent(s, None, 0, Len(journal[s]))
    <3>1. Len(journal[s]) \in Nat
      BY LenProperties DEF TypeOK
    <3>2. event \in Event
      BY <3>1, NextEventType
    <3>3. journal' \in [Sessions -> Seq(Event)] /\ lastId' = lastId + 1
      <4>1. Push(s, event)
        BY <2>7 DEF AppendUnfenced
      <4> HIDE DEF event
      <4>2. QED
        BY <3>2, <4>1, PushExtends
    <3>4. QED
      BY <2>7, <3>3 DEF TypeOK, AppendUnfenced
  <2>8. ASSUME NEW r \in Runs, Exit(r)
        PROVE  TypeOK'
    BY <2>8 DEF TypeOK, Exit, store
  <2>9. CASE ClockStep
    BY <2>9 DEF TypeOK, ClockStep, store
  <2>10. CASE UNCHANGED vars
    BY <2>10 DEF TypeOK, vars, store
  <2>11. QED
    BY <2>1, <2>2, <2>3, <2>4, <2>5, <2>6, <2>7, <2>8, <2>9, <2>10 DEF Next
<1>3. QED
  BY <1>1, <1>2, PTL DEF Spec

-----------------------------------------------------------------------------
(* Leases.                                                                  *)

\* An active lease is of its session and carries the newest token granted.
LeaseSound ==
  \A s \in Sessions : activeLeases[s] # None =>
    /\ activeLeases[s].session = s
    /\ activeLeases[s].fencingToken = lastTokens[s]
    /\ activeLeases[s].fencingToken > 0

\* A run holds only leases granted to its owner.
HeldSound ==
  \A r \in Runs : held[r] # None =>
    /\ held[r].ownerId = OwnerOf[r]
    /\ held[r].fencingToken > 0

LeasesInv == LeaseSound /\ HeldSound

\* The store never backs a grant that is not the newest one of its session,
\* and a run never holds a grant of another owner (acquireExecutionLease).
THEOREM LeasesCorrect == Spec => []LeasesInv
<1> USE FencedJournalAssumption
<1>1. Init => LeasesInv
  BY DEF Init, LeasesInv, LeaseSound, HeldSound
<1>2. TypeOK /\ LeasesInv /\ [Next]_vars => LeasesInv'
  <2> SUFFICES ASSUME TypeOK, LeasesInv, [Next]_vars PROVE LeasesInv'
    OBVIOUS
  <2>1. ASSUME NEW r \in Runs, NEW s \in Sessions, NEW d \in Durations, AcquireFresh(r, s, d)
        PROVE  LeasesInv'
    <3> DEFINE lease == [session |-> s, leaseId |-> lastId + 1, ownerId |-> OwnerOf[r],
                         fencingToken |-> lastTokens[s] + 1]
    <3>1. /\ activeLeases' = [activeLeases EXCEPT ![s] = lease]
          /\ held' = [held EXCEPT ![r] = lease]
          /\ lastTokens' = [lastTokens EXCEPT ![s] = @ + 1]
      BY <2>1 DEF AcquireFresh, Grant
    <3>2. /\ lease.session = s
          /\ lease.ownerId = OwnerOf[r]
          /\ lease.fencingToken = lastTokens[s] + 1
          /\ lastTokens[s] + 1 > 0
      BY DEF TypeOK
    <3> HIDE DEF lease
    <3>3. LeaseSound'
      BY <3>1, <3>2 DEF LeasesInv, LeaseSound, TypeOK
    <3>4. HeldSound'
      BY <3>1, <3>2 DEF LeasesInv, HeldSound, TypeOK
    <3>5. QED
      BY <3>3, <3>4 DEF LeasesInv
  <2>2. ASSUME NEW r \in Runs, NEW s \in Sessions, AcquireShared(r, s)
        PROVE  LeasesInv'
    BY <2>2 DEF LeasesInv, LeaseSound, HeldSound, TypeOK, AcquireShared, LiveLease, SameOwner, store
  <2>3. ASSUME NEW r \in Runs, Release(r)
        PROVE  LeasesInv'
    BY <2>3 DEF LeasesInv, LeaseSound, HeldSound, TypeOK, Release
  <2>4. ASSUME NEW r \in Runs, Exit(r)
        PROVE  LeasesInv'
    BY <2>4 DEF LeasesInv, LeaseSound, HeldSound, TypeOK, Exit, store
  <2>5. ASSUME UNCHANGED <<activeLeases, lastTokens, held>>
        PROVE  LeasesInv'
    BY <2>5 DEF LeasesInv, LeaseSound, HeldSound
  <2>6. \/ \E r \in Runs, s \in Sessions, d \in Durations : AcquireFresh(r, s, d)
        \/ \E r \in Runs, s \in Sessions : AcquireShared(r, s)
        \/ \E r \in Runs : Release(r) \/ Exit(r)
        \/ UNCHANGED <<activeLeases, lastTokens, held>>
    BY DEF Next, vars, store, Renew, Attach, AppendFenced, AppendUnfenced, ClockStep
  <2>7. QED
    BY <2>1, <2>2, <2>3, <2>4, <2>5, <2>6
<1>3. QED
  BY <1>1, <1>2, TypeCorrect, PTL DEF Spec

-----------------------------------------------------------------------------
(* How one step may change a journal.                                       *)

\* A fenced append is under the newest token of its session, by a run of the
\* owner of the active lease (appendFenced, requireLease).
LEMMA FencedAppend ==
  ASSUME TypeOK, LeasesInv, NEW r \in Runs, AppendFenced(r)
  PROVE  /\ attached[r] \in Sessions
         /\ held[r].fencingToken = lastTokens[attached[r]]
         /\ held[r].fencingToken > 0
         /\ activeLeases[attached[r]] # None
         /\ activeLeases[attached[r]].ownerId = OwnerOf[r]
         /\ NextEvent(attached[r], r, held[r].fencingToken, seen[r]) \in Event
         /\ Push(attached[r], NextEvent(attached[r], r, held[r].fencingToken, seen[r]))
<1>1. attached[r] \in Sessions /\ held[r] # None /\ held[r].session = attached[r]
  BY DEF TypeOK, AppendFenced, LeaseOfSession
<1>2. /\ activeLeases[attached[r]] # None
      /\ activeLeases[attached[r]].ownerId = held[r].ownerId
      /\ activeLeases[attached[r]].fencingToken = held[r].fencingToken
  BY <1>1 DEF AppendFenced, LeaseCurrent
<1>3. /\ held[r].ownerId = OwnerOf[r]
      /\ held[r].fencingToken = lastTokens[attached[r]]
      /\ held[r].fencingToken > 0
  BY <1>1, <1>2 DEF LeasesInv, LeaseSound, HeldSound
<1>4. NextEvent(attached[r], r, held[r].fencingToken, seen[r]) \in Event
  BY <1>1, HeldType, NextEventType DEF TypeOK
<1>5. QED
  BY <1>1, <1>2, <1>3, <1>4 DEF AppendFenced

\* So is an append without a lease well-formed.
LEMMA UnfencedAppend ==
  ASSUME TypeOK, NEW s \in Sessions, AppendUnfenced(s)
  PROVE  /\ NextEvent(s, None, 0, Len(journal[s])) \in Event
         /\ Push(s, NextEvent(s, None, 0, Len(journal[s])))
BY NextEventType, LenProperties DEF TypeOK, AppendUnfenced

\* Journals change by these two actions only; tokens and ids only grow.
LEMMA JournalSteps ==
  ASSUME TypeOK, [Next]_vars
  PROVE  /\ \/ \E r \in Runs : AppendFenced(r)
            \/ \E s \in Sessions : AppendUnfenced(s)
            \/ journal' = journal
         /\ \A s \in Sessions : lastTokens[s] <= lastTokens'[s]
         /\ lastId <= lastId'
<1>1. \/ \E r \in Runs : AppendFenced(r)
      \/ \E s \in Sessions : AppendUnfenced(s)
      \/ journal' = journal
  BY DEF Next, vars, store, AcquireFresh, AcquireShared, Renew, Release, Attach, Exit, ClockStep
<1>2. \/ lastTokens' = lastTokens
      \/ \E s \in Sessions : lastTokens' = [lastTokens EXCEPT ![s] = @ + 1]
  BY DEF Next, vars, store, AcquireFresh, AcquireShared, Renew, Release, Attach,
         AppendFenced, AppendUnfenced, Exit, ClockStep, Grant
<1>3. lastId' \in {lastId, lastId + 1}
  BY DEF Next, vars, store, AcquireFresh, AcquireShared, Renew, Release, Attach,
         AppendFenced, AppendUnfenced, Exit, ClockStep, Push
<1>4. \A s \in Sessions : lastTokens[s] <= lastTokens'[s]
  <2>1. \A s \in Sessions : lastTokens[s] \in Nat
    BY DEF TypeOK
  <2>2. \A s \in Sessions : lastTokens'[s] \in {lastTokens[s], lastTokens[s] + 1}
    BY <1>2 DEF TypeOK
  <2>3. QED
    BY <2>1, <2>2
<1>5. lastId <= lastId'
  BY <1>3 DEF TypeOK
<1>6. QED
  BY <1>1, <1>4, <1>5

-----------------------------------------------------------------------------
(* Fencing tokens.                                                          *)

\* No event carries a token that was not granted yet.
TokensGranted ==
  \A s \in Sessions : \A i \in 1 .. Len(journal[s]) : journal[s][i].token <= lastTokens[s]

TokensInv == TokensOrdered /\ TokensGranted

\* Fencing tokens never go back along a journal: a superseded run writes
\* nothing after the run that superseded it wrote (appendFenced).
THEOREM TokensCorrect == Spec => [](TokensOrdered /\ TokensGranted)
<1> USE FencedJournalAssumption
<1>1. Init => TokensInv
  BY DEF Init, TokensInv, TokensOrdered, TokensGranted
<1>2. TypeOK /\ LeasesInv /\ TokensInv /\ [Next]_vars /\ TypeOK' => TokensInv'
  <2> SUFFICES ASSUME TypeOK, LeasesInv, TokensInv, [Next]_vars, TypeOK' PROVE TokensInv'
    OBVIOUS
  <2>1. \A s \in Sessions : /\ Len(journal[s]) \in Nat
                           /\ \A i \in 1 .. Len(journal[s]) : journal[s][i].token \in Nat
    BY JournalType DEF Event
  <2>2. \A s \in Sessions : lastTokens[s] \in Nat /\ lastTokens'[s] \in Nat
    BY DEF TypeOK
  <2>3. \A s \in Sessions : lastTokens[s] <= lastTokens'[s]
    BY JournalSteps
  <2>4. ASSUME NEW s \in Sessions, NEW event \in Event, Push(s, event),
               event.token \in {0, lastTokens[s]}
        PROVE  TokensInv'
    <3>1. event.token \in Nat /\ event.token <= lastTokens[s]
      BY <2>2, <2>4
    <3>2. TokensGranted'
      <4> SUFFICES ASSUME NEW t \in Sessions, NEW i \in 1 .. Len(journal'[t])
                   PROVE  journal'[t][i].token <= lastTokens'[t]
        BY DEF TokensGranted
      <4>1. CASE i \in 1 .. Len(journal[t]) /\ journal'[t][i] = journal[t][i]
        <5>1. journal[t][i].token \in Nat /\ journal[t][i].token <= lastTokens[t]
          BY <2>1, <4>1 DEF TokensInv, TokensGranted
        <5>2. QED
          BY <2>2, <2>3, <4>1, <5>1
      <4>2. CASE t = s /\ journal'[t][i] = event
        BY <2>2, <2>3, <3>1, <4>2
      <4>3. i \in 1 .. i
        OBVIOUS
      <4>4. QED
        BY <2>4, <4>1, <4>2, <4>3, PushEntries
    <3>3. TokensOrdered'
      <4> SUFFICES ASSUME NEW t \in Sessions, NEW j \in 1 .. Len(journal'[t]),
                          NEW i \in 1 .. (j - 1),
                          Fenced(journal'[t][i]), Fenced(journal'[t][j])
                   PROVE  journal'[t][i].token <= journal'[t][j].token
        BY DEF TokensOrdered, Fenced
      <4>1. CASE /\ j \in 1 .. Len(journal[t])
                 /\ \A k \in 1 .. j : journal'[t][k] = journal[t][k]
        <5>1. journal'[t][i] = journal[t][i] /\ journal'[t][j] = journal[t][j]
          BY <4>1
        <5>2. Fenced(journal[t][i]) /\ Fenced(journal[t][j])
          BY <5>1
        <5>3. QED
          BY <4>1, <5>1, <5>2 DEF TokensInv, TokensOrdered
      <4>2. CASE /\ t = s
                 /\ journal'[t][j] = event
                 /\ i \in 1 .. Len(journal[s]) /\ journal'[t][i] = journal[s][i]
        <5>1. journal[s][i].token <= lastTokens[s]
          BY <4>2 DEF TokensInv, TokensGranted
        <5>2. event.token = lastTokens[s]
          BY <2>4, <4>2 DEF Fenced
        <5>3. QED
          BY <4>2, <5>1, <5>2
      <4>3. QED
        BY <2>4, <4>1, <4>2, PushEntries
    <3>4. QED
      BY <3>2, <3>3 DEF TokensInv
  <2>5. CASE \E r \in Runs : AppendFenced(r)
    <3>1. PICK r \in Runs : AppendFenced(r)
      BY <2>5
    <3> DEFINE event == NextEvent(attached[r], r, held[r].fencingToken, seen[r])
    <3>2. event.token = held[r].fencingToken
      BY DEF NextEvent
    <3>3. /\ attached[r] \in Sessions /\ event \in Event /\ Push(attached[r], event)
          /\ held[r].fencingToken = lastTokens[attached[r]]
      BY <3>1, FencedAppend
    <3> HIDE DEF event
    <3>4. QED
      BY <2>4, <3>2, <3>3
  <2>6. CASE \E s \in Sessions : AppendUnfenced(s)
    <3>1. PICK s \in Sessions : AppendUnfenced(s)
      BY <2>6
    <3> DEFINE event == NextEvent(s, None, 0, Len(journal[s]))
    <3>2. event.token = 0
      BY DEF NextEvent
    <3>3. event \in Event /\ Push(s, event)
      BY <3>1, UnfencedAppend
    <3> HIDE DEF event
    <3>4. QED
      BY <2>4, <3>2, <3>3
  <2>7. CASE journal' = journal
    <3>1. TokensOrdered'
      BY <2>7 DEF TokensInv, TokensOrdered
    <3>2. TokensGranted'
      BY <2>1, <2>2, <2>3, <2>7 DEF TokensInv, TokensGranted
    <3>3. QED
      BY <3>1, <3>2 DEF TokensInv
  <2>8. QED
    BY <2>5, <2>6, <2>7, JournalSteps
<1>3. TokensInv => TokensOrdered /\ TokensGranted
  BY DEF TokensInv
<1>4. QED
  BY <1>1, <1>2, <1>3, TypeCorrect, LeasesCorrect, PTL DEF Spec

-----------------------------------------------------------------------------
(* Owners.                                                                  *)

\* What was written under the newest token was written by runs of the owner
\* whose lease is active.
CurrentOwner ==
  \A s \in Sessions : activeLeases[s] # None =>
    \A i \in 1 .. Len(journal[s]) : journal[s][i].token = lastTokens[s] =>
      OwnerOf[journal[s][i].writer] = activeLeases[s].ownerId

OwnersInv == OneOwnerPerToken /\ CurrentOwner

\* All events under one fencing token were written by runs of one owner
\* (acquireExecutionLease shares a live lease with its owner alone).
THEOREM OwnersCorrect == Spec => []OneOwnerPerToken
<1> USE FencedJournalAssumption
<1>1. Init => OwnersInv
  BY DEF Init, OwnersInv, OneOwnerPerToken, CurrentOwner
<1>2. TypeOK /\ LeasesInv /\ TokensGranted /\ OwnersInv /\ [Next]_vars => OwnersInv'
  <2> SUFFICES ASSUME TypeOK, LeasesInv, TokensGranted, OwnersInv, [Next]_vars
               PROVE  OwnersInv'
    OBVIOUS
  <2>1. \A s \in Sessions : /\ Len(journal[s]) \in Nat
                           /\ \A i \in 1 .. Len(journal[s]) : journal[s][i].token \in Nat
    BY JournalType DEF Event
  <2>2. \A s \in Sessions : lastTokens[s] \in Nat
    BY DEF TypeOK
  <2>3. ASSUME NEW s \in Sessions, NEW event \in Event, Push(s, event),
               UNCHANGED <<activeLeases, lastTokens>>,
               \/ event.token = 0
               \/ /\ event.token = lastTokens[s]
                  /\ activeLeases[s] # None
                  /\ activeLeases[s].ownerId = OwnerOf[event.writer]
        PROVE  OwnersInv'
    <3>1. OneOwnerPerToken'
      <4> SUFFICES ASSUME NEW t \in Sessions, NEW j \in 1 .. Len(journal'[t]),
                          NEW i \in 1 .. (j - 1),
                          Fenced(journal'[t][i]),
                          journal'[t][i].token = journal'[t][j].token
                   PROVE  OwnerOf[journal'[t][i].writer] = OwnerOf[journal'[t][j].writer]
        BY DEF OneOwnerPerToken, Fenced
      <4>1. CASE /\ j \in 1 .. Len(journal[t])
                 /\ \A k \in 1 .. j : journal'[t][k] = journal[t][k]
        <5>1. journal'[t][i] = journal[t][i] /\ journal'[t][j] = journal[t][j]
          BY <4>1
        <5>2. Fenced(journal[t][i])
          BY <5>1, Zenon DEF Fenced
        <5>3. journal[t][i].token = journal[t][j].token
          BY <5>1, Zenon
        <5>4. OwnerOf[journal[t][i].writer] = OwnerOf[journal[t][j].writer]
          BY <4>1, <5>2, <5>3 DEF OwnersInv, OneOwnerPerToken
        <5>5. QED
          BY <5>1, <5>4
      <4>2. CASE /\ t = s
                 /\ journal'[t][j] = event
                 /\ i \in 1 .. Len(journal[s]) /\ journal'[t][i] = journal[s][i]
        <5>1. /\ journal[s][i].token = lastTokens[s]
              /\ activeLeases[s] # None
              /\ activeLeases[s].ownerId = OwnerOf[event.writer]
          BY <2>3, <4>2 DEF Fenced
        <5>2. OwnerOf[journal[s][i].writer] = activeLeases[s].ownerId
          BY <4>2, <5>1 DEF OwnersInv, CurrentOwner
        <5>3. QED
          BY <4>2, <5>1, <5>2
      <4>3. QED
        BY <2>3, <4>1, <4>2, PushEntries
    <3>2. CurrentOwner'
      <4> SUFFICES ASSUME NEW t \in Sessions, activeLeases[t] # None,
                          NEW i \in 1 .. Len(journal'[t]),
                          journal'[t][i].token = lastTokens[t]
                   PROVE  OwnerOf[journal'[t][i].writer] = activeLeases[t].ownerId
        BY <2>3 DEF CurrentOwner
      <4>1. CASE i \in 1 .. Len(journal[t]) /\ journal'[t][i] = journal[t][i]
        BY <4>1 DEF OwnersInv, CurrentOwner
      <4>2. CASE t = s /\ journal'[t][i] = event
        <5>1. lastTokens[s] > 0
          BY <4>2 DEF LeasesInv, LeaseSound
        <5>2. event.token # 0
          BY <2>2, <4>2, <5>1
        <5>3. QED
          BY <2>3, <4>2, <5>2
      <4>3. i \in 1 .. i
        OBVIOUS
      <4>4. QED
        BY <2>3, <4>1, <4>2, <4>3, PushEntries
    <3>3. QED
      BY <3>1, <3>2 DEF OwnersInv
  <2>4. CASE \E r \in Runs : AppendFenced(r)
    <3>1. PICK r \in Runs : AppendFenced(r)
      BY <2>4
    <3> DEFINE event == NextEvent(attached[r], r, held[r].fencingToken, seen[r])
    <3>2. event.token = held[r].fencingToken /\ event.writer = r
      BY DEF NextEvent
    <3>3. /\ attached[r] \in Sessions /\ event \in Event /\ Push(attached[r], event)
          /\ held[r].fencingToken = lastTokens[attached[r]]
          /\ activeLeases[attached[r]] # None
          /\ activeLeases[attached[r]].ownerId = OwnerOf[r]
      BY <3>1, FencedAppend
    <3>4. UNCHANGED <<activeLeases, lastTokens>>
      BY <3>1 DEF AppendFenced
    <3> HIDE DEF event
    <3>5. QED
      BY <2>3, <3>2, <3>3, <3>4
  <2>5. CASE \E s \in Sessions : AppendUnfenced(s)
    <3>1. PICK s \in Sessions : AppendUnfenced(s)
      BY <2>5
    <3> DEFINE event == NextEvent(s, None, 0, Len(journal[s]))
    <3>2. event.token = 0
      BY DEF NextEvent
    <3>3. event \in Event /\ Push(s, event)
      BY <3>1, UnfencedAppend
    <3>4. UNCHANGED <<activeLeases, lastTokens>>
      BY <3>1 DEF AppendUnfenced
    <3> HIDE DEF event
    <3>5. QED
      BY <2>3, <3>2, <3>3, <3>4
  <2>6. ASSUME NEW r \in Runs, NEW s \in Sessions, NEW d \in Durations, AcquireFresh(r, s, d)
        PROVE  OwnersInv'
    <3>1. /\ journal' = journal
          /\ lastTokens' = [lastTokens EXCEPT ![s] = @ + 1]
          /\ \A t \in Sessions \ {s} : activeLeases'[t] = activeLeases[t]
      BY <2>6 DEF AcquireFresh, Grant, TypeOK
    <3>2. \A i \in 1 .. Len(journal[s]) : journal[s][i].token # lastTokens'[s]
      BY <2>1, <2>2, <3>1 DEF TokensGranted, TypeOK
    <3>3. CurrentOwner'
      <4> SUFFICES ASSUME NEW t \in Sessions, activeLeases'[t] # None,
                          NEW i \in 1 .. Len(journal[t]),
                          journal[t][i].token = lastTokens'[t]
                   PROVE  OwnerOf[journal[t][i].writer] = activeLeases'[t].ownerId
        BY <3>1 DEF CurrentOwner
      <4>1. t # s
        BY <3>2
      <4>2. QED
        BY <3>1, <4>1 DEF OwnersInv, CurrentOwner, TypeOK
    <3>4. OneOwnerPerToken'
      BY <3>1 DEF OwnersInv, OneOwnerPerToken
    <3>5. QED
      BY <3>3, <3>4 DEF OwnersInv
  <2>7. ASSUME NEW r \in Runs, Release(r)
        PROVE  OwnersInv'
    <3>1. /\ UNCHANGED <<journal, lastTokens>>
          /\ activeLeases' = [activeLeases EXCEPT ![held[r].session] = None]
      BY <2>7 DEF Release
    <3>2. \A t \in Sessions : activeLeases'[t] # None => activeLeases'[t] = activeLeases[t]
      BY <3>1 DEF TypeOK
    <3>3. QED
      BY <3>1, <3>2 DEF OwnersInv, OneOwnerPerToken, CurrentOwner
  <2>8. CASE UNCHANGED <<journal, activeLeases, lastTokens>>
    BY <2>8 DEF OwnersInv, OneOwnerPerToken, CurrentOwner
  <2>9. \/ \E r \in Runs : AppendFenced(r)
        \/ \E s \in Sessions : AppendUnfenced(s)
        \/ \E r \in Runs, s \in Sessions, d \in Durations : AcquireFresh(r, s, d)
        \/ \E r \in Runs : Release(r)
        \/ UNCHANGED <<journal, activeLeases, lastTokens>>
    BY DEF Next, vars, store, AcquireShared, Renew, Attach, Exit, ClockStep
  <2>10. QED
    BY <2>4, <2>5, <2>6, <2>7, <2>8, <2>9
<1>3. OwnersInv => OneOwnerPerToken
  BY DEF OwnersInv
<1>4. QED
  BY <1>1, <1>2, <1>3, TypeCorrect, LeasesCorrect, TokensCorrect, PTL DEF Spec

-----------------------------------------------------------------------------
(* The chain, and what a run knows of it.                                   *)

\* Ids in a journal were handed out before.
IdsGiven ==
  \A s \in Sessions : \A i \in 1 .. Len(journal[s]) : journal[s][i].id <= lastId

\* A run's head is the id of the last event it has seen.
HeadSeen ==
  \A r \in Runs : attached[r] # None =>
    /\ seen[r] <= Len(journal[attached[r]])
    /\ seen[r] = 0 => headId[r] = None
    /\ seen[r] # 0 => headId[r] = journal[attached[r]][seen[r]].id

ChainInv == ChainIntact /\ IdsGiven /\ HeadSeen /\ WriterKnewHistory

\* An append that expects the head a run knows finds the run knowing the whole
\* journal, because ids do not repeat (assertExpectedJournalHead).
LEMMA HeadMeansAll ==
  ASSUME TypeOK, ChainInv, NEW r \in Runs, attached[r] # None, HeadExpected(r)
  PROVE  seen[r] = Len(journal[attached[r]])
<1> DEFINE s == attached[r]
           n == Len(journal[s])
<1>1. s \in Sessions /\ seen[r] \in Nat
  BY DEF TypeOK
<1>2. /\ journal[s] \in Seq(Event)
      /\ n \in Nat
      /\ \A i \in 1 .. n : journal[s][i] \in Event
  BY <1>1, JournalType DEF TypeOK
<1>3. /\ seen[r] <= n
      /\ seen[r] = 0 => headId[r] = None
      /\ seen[r] # 0 => headId[r] = journal[s][seen[r]].id
  BY DEF ChainInv, HeadSeen
<1>4. headId[r] = HeadId(journal[s])
  BY DEF HeadExpected
<1>5. CASE n = 0
  BY <1>1, <1>2, <1>3, <1>5
<1>6. CASE n # 0
  <2>1. headId[r] = journal[s][n].id
    BY <1>2, <1>4, <1>6, HeadIdType
  <2>2. journal[s][n].id \in Nat
    <3>1. journal[s][n] \in Event
      BY <1>2, <1>6
    <3>2. QED
      BY <3>1 DEF Event
  <2>3. seen[r] # 0 /\ seen[r] \in 1 .. n
    BY <1>1, <1>2, <1>3, <2>1, <2>2, FencedJournalAssumption
  <2>4. journal[s][seen[r]].id \in Nat
    BY <1>2, <2>3 DEF Event
  <2>5. seen[r] < n => journal[s][seen[r]].id < journal[s][n].id
    BY <1>1, <1>2, <1>6, <2>3 DEF ChainInv, ChainIntact
  <2>6. QED
    BY <1>1, <1>2, <1>3, <2>1, <2>2, <2>3, <2>4, <2>5
<1>7. QED
  BY <1>5, <1>6

\* An append of the next event keeps the chain and the ids.
LEMMA PushKeepsChain ==
  ASSUME TypeOK, ChainInv, NEW s \in Sessions, NEW writer \in Runs \cup {None},
         NEW token \in Nat, Push(s, NextEvent(s, writer, token, Len(journal[s])))
  PROVE  ChainIntact' /\ IdsGiven' /\ WriterKnewHistory'
<1> DEFINE n == Len(journal[s])
           event == NextEvent(s, writer, token, n)
<1>1. /\ n \in Nat
      /\ \A i \in 1 .. n : journal[s][i] \in Event
      /\ \A t \in Sessions : Len(journal[t]) \in Nat
      /\ \A t \in Sessions : \A i \in 1 .. Len(journal[t]) : journal[t][i].id \in Nat
      /\ lastId \in Nat
  BY JournalType DEF TypeOK, Event
<1>2. event \in Event
  BY <1>1, NextEventType
<1>3. /\ event.id = lastId + 1
      /\ event.sequence = n + 1
      /\ event.parentId = HeadId(journal[s])
      /\ event.seen = n
  BY DEF NextEvent
<1>4. /\ n = 0 => HeadId(journal[s]) = None
      /\ n # 0 => HeadId(journal[s]) = journal[s][n].id
  BY HeadIdType DEF TypeOK
<1> HIDE DEF event
<1>5. lastId' = lastId + 1 /\ Push(s, event)
  BY <1>2, PushExtends DEF event
<1>6. ASSUME NEW t \in Sessions, NEW i \in 1 .. Len(journal'[t])
      PROVE  \/ /\ i \in 1 .. Len(journal[t])
                /\ \A k \in 1 .. i : journal'[t][k] = journal[t][k]
             \/ /\ t = s /\ i = n + 1 /\ journal'[t][i] = event
                /\ \A k \in 1 .. n : journal'[t][k] = journal[s][k]
  <2>1. i = n + 1 => i - 1 = n
    BY <1>1
  <2>2. QED
    BY <1>2, <1>5, <2>1, PushEntries
<1>7. ChainIntact'
  <2> SUFFICES ASSUME NEW t \in Sessions, NEW i \in 1 .. Len(journal'[t])
               PROVE  /\ journal'[t][i].sequence = i
                      /\ journal'[t][i].parentId = (IF i = 1 THEN None ELSE journal'[t][i - 1].id)
                      /\ \A j \in 1 .. (i - 1) : journal'[t][j].id < journal'[t][i].id
    BY DEF ChainIntact
  <2>1. CASE /\ i \in 1 .. Len(journal[t])
             /\ \A k \in 1 .. i : journal'[t][k] = journal[t][k]
    <3>1. /\ journal[t][i].sequence = i
          /\ journal[t][i].parentId = (IF i = 1 THEN None ELSE journal[t][i - 1].id)
          /\ \A j \in 1 .. (i - 1) : journal[t][j].id < journal[t][i].id
      BY <2>1 DEF ChainInv, ChainIntact
    <3>2. journal'[t][i] = journal[t][i] /\ (i # 1 => journal'[t][i - 1] = journal[t][i - 1])
      BY <2>1
    <3>3. \A j \in 1 .. (i - 1) : journal'[t][j] = journal[t][j]
      BY <2>1
    <3>4. QED
      BY <3>1, <3>2, <3>3
  <2>2. CASE /\ t = s /\ i = n + 1 /\ journal'[t][i] = event
             /\ \A k \in 1 .. n : journal'[t][k] = journal[s][k]
    <3>1. ASSUME NEW j \in 1 .. n PROVE journal'[t][j].id < lastId + 1
      <4>1. journal[s][j].id <= lastId /\ journal[s][j].id \in Nat
        BY <1>1 DEF ChainInv, IdsGiven
      <4>2. QED
        BY <1>1, <2>2, <4>1
    <3>2. n # 0 => journal'[t][n] = journal[s][n]
      BY <1>1, <2>2
    <3>3. /\ n = 0 => event.parentId = None
          /\ n # 0 => event.parentId = journal'[t][n].id
      BY <1>3, <1>4, <3>2
    <3>4. i - 1 = n /\ (i = 1 <=> n = 0)
      BY <1>1, <2>2
    <3>5. QED
      BY <1>3, <2>2, <3>1, <3>3, <3>4
  <2>3. QED
    BY <1>6, <2>1, <2>2
<1>8. IdsGiven'
  <2> SUFFICES ASSUME NEW t \in Sessions, NEW i \in 1 .. Len(journal'[t])
               PROVE  journal'[t][i].id <= lastId + 1
    BY <1>5 DEF IdsGiven
  <2>1. CASE i \in 1 .. Len(journal[t]) /\ journal'[t][i] = journal[t][i]
    <3>1. journal[t][i].id <= lastId /\ journal[t][i].id \in Nat
      BY <1>1, <2>1 DEF ChainInv, IdsGiven
    <3>2. QED
      BY <1>1, <2>1, <3>1
  <2>2. CASE journal'[t][i] = event
    BY <1>1, <1>3, <2>2
  <2>3. i \in 1 .. i
    OBVIOUS
  <2>4. QED
    BY <1>6, <2>1, <2>2, <2>3
<1>9. WriterKnewHistory'
  <2> SUFFICES ASSUME NEW t \in Sessions, NEW i \in 1 .. Len(journal'[t])
               PROVE  journal'[t][i].seen = i - 1
    BY DEF WriterKnewHistory
  <2>1. CASE i \in 1 .. Len(journal[t]) /\ journal'[t][i] = journal[t][i]
    BY <2>1 DEF ChainInv, WriterKnewHistory
  <2>2. CASE i = n + 1 /\ journal'[t][i] = event
    BY <1>1, <1>3, <2>2
  <2>3. i \in 1 .. i
    OBVIOUS
  <2>4. QED
    BY <1>6, <2>1, <2>2, <2>3
<1>10. QED
  BY <1>7, <1>8, <1>9

\* An append changes no journal prefix, so what other runs have seen stays.
LEMMA PushKeepsHeads ==
  ASSUME TypeOK, HeadSeen, NEW s \in Sessions, NEW event \in Event, Push(s, event)
  PROVE  \A r \in Runs : attached[r] # None =>
           /\ seen[r] <= Len(journal'[attached[r]])
           /\ seen[r] # 0 => headId[r] = journal'[attached[r]][seen[r]].id
<1>1. /\ \A t \in Sessions \ {s} : journal'[t] = journal[t]
      /\ Len(journal[s]) \in Nat
      /\ Len(journal'[s]) = Len(journal[s]) + 1
      /\ \A i \in 1 .. Len(journal[s]) : journal'[s][i] = journal[s][i]
  BY PushExtends
<1>2. SUFFICES ASSUME NEW r \in Runs, attached[r] # None
               PROVE  /\ seen[r] <= Len(journal'[attached[r]])
                      /\ seen[r] # 0 => headId[r] = journal'[attached[r]][seen[r]].id
  OBVIOUS
<1>3. attached[r] \in Sessions /\ seen[r] \in Nat
  BY <1>2 DEF TypeOK
<1>4. /\ seen[r] <= Len(journal[attached[r]])
      /\ seen[r] # 0 => headId[r] = journal[attached[r]][seen[r]].id
  BY <1>2 DEF HeadSeen
<1>5. CASE attached[r] # s
  BY <1>1, <1>3, <1>4, <1>5
<1>6. CASE attached[r] = s
  BY <1>1, <1>3, <1>4, <1>6
<1>7. QED
  BY <1>5, <1>6

\* The journal of every session is a chain, and every event in it was written
\* by someone who knew all that came before: nothing another process appended
\* in between is overlooked (assertExpectedJournalHead, SessionAppender).
THEOREM ChainCorrect == Spec => [](ChainIntact /\ WriterKnewHistory)
<1> USE FencedJournalAssumption
<1>1. Init => ChainInv
  <2> SUFFICES ASSUME Init PROVE ChainInv
    OBVIOUS
  <2>1. \A s \in Sessions : Len(journal[s]) = 0
    BY EmptySeq DEF Init
  <2>2. \A r \in Runs : attached[r] = None
    BY DEF Init
  <2>3. QED
    BY <2>1, <2>2 DEF ChainInv, ChainIntact, IdsGiven, HeadSeen, WriterKnewHistory
<1>2. TypeOK /\ LeasesInv /\ ChainInv /\ [Next]_vars => ChainInv'
  <2> SUFFICES ASSUME TypeOK, LeasesInv, ChainInv, [Next]_vars PROVE ChainInv'
    OBVIOUS
  <2>1. ASSUME NEW r \in Runs, AppendFenced(r)
        PROVE  ChainInv'
    <3> DEFINE s == attached[r]
               event == NextEvent(s, r, held[r].fencingToken, seen[r])
    <3>1. s \in Sessions /\ event \in Event /\ Push(s, event)
      BY <2>1, FencedAppend
    <3>2. s # None /\ HeadExpected(r)
      BY <2>1 DEF AppendFenced
    <3>3. seen[r] = Len(journal[s])
      BY <3>2, HeadMeansAll
    <3>4. held[r].fencingToken \in Nat
      BY <3>2, HeldType DEF TypeOK
    <3>5. ChainIntact' /\ IdsGiven' /\ WriterKnewHistory'
      BY <3>1, <3>3, <3>4, PushKeepsChain
    <3>6. HeadSeen'
      <4>1. \A q \in Runs : attached[q] # None =>
               /\ seen[q] <= Len(journal'[attached[q]])
               /\ seen[q] # 0 => headId[q] = journal'[attached[q]][seen[q]].id
        <5> HIDE DEF event
        <5>1. QED
          BY <3>1, PushKeepsHeads DEF ChainInv
      <4>2. /\ Len(journal'[s]) = Len(journal[s]) + 1
            /\ Len(journal[s]) \in Nat
            /\ journal'[s][Len(journal[s]) + 1] = event
        <5> HIDE DEF event
        <5>1. QED
          BY <3>1, PushExtends
      <4>3. event.id = lastId + 1
        BY DEF NextEvent
      <4>4. /\ attached' = attached
            /\ headId' = [headId EXCEPT ![r] = lastId + 1]
            /\ seen' = [seen EXCEPT ![r] = @ + 1]
        BY <2>1 DEF AppendFenced
      <4> HIDE DEF event
      <4>5. SUFFICES ASSUME NEW q \in Runs, attached[q] # None
                     PROVE  /\ seen'[q] <= Len(journal'[attached[q]])
                            /\ seen'[q] = 0 => headId'[q] = None
                            /\ seen'[q] # 0 => headId'[q] = journal'[attached[q]][seen'[q]].id
        BY <4>4 DEF HeadSeen
      <4>6. CASE q = r
        <5>1. seen'[r] = Len(journal[s]) + 1 /\ headId'[r] = lastId + 1
          BY <3>3, <4>4 DEF TypeOK
        <5>2. QED
          BY <4>2, <4>3, <4>6, <5>1
      <4>7. CASE q # r
        <5>1. seen'[q] = seen[q] /\ headId'[q] = headId[q]
          BY <4>4, <4>7 DEF TypeOK
        <5>2. seen[q] = 0 => headId[q] = None
          BY <4>5 DEF ChainInv, HeadSeen
        <5>3. QED
          BY <4>1, <4>5, <5>1, <5>2
      <4>8. QED
        BY <4>6, <4>7
    <3>7. QED
      BY <3>5, <3>6 DEF ChainInv
  <2>2. ASSUME NEW s \in Sessions, AppendUnfenced(s)
        PROVE  ChainInv'
    <3> DEFINE event == NextEvent(s, None, 0, Len(journal[s]))
    <3>1. event \in Event /\ Push(s, event)
      BY <2>2, UnfencedAppend
    <3>2. ChainIntact' /\ IdsGiven' /\ WriterKnewHistory'
      BY <3>1, PushKeepsChain
    <3> HIDE DEF event
    <3>3. HeadSeen'
      <4>1. UNCHANGED <<attached, headId, seen>>
        BY <2>2 DEF AppendUnfenced
      <4>2. QED
        BY <3>1, <4>1, PushKeepsHeads DEF ChainInv, HeadSeen
    <3>4. QED
      BY <3>2, <3>3 DEF ChainInv
  <2>3. ASSUME journal' = journal
        PROVE  ChainIntact' /\ IdsGiven' /\ WriterKnewHistory'
    <3>1. \A s \in Sessions : \A i \in 1 .. Len(journal[s]) : journal[s][i].id \in Nat
      BY JournalType DEF Event
    <3>2. lastId <= lastId' /\ lastId \in Nat /\ lastId' \in Nat
      <4>1. lastId' \in {lastId, lastId + 1}
        BY DEF Next, vars, store, AcquireFresh, AcquireShared, Renew, Release, Attach,
               AppendFenced, AppendUnfenced, Exit, ClockStep, Push
      <4>2. QED
        BY <4>1 DEF TypeOK
    <3>3. IdsGiven'
      BY <2>3, <3>1, <3>2 DEF ChainInv, IdsGiven
    <3>4. ChainIntact'
      BY <2>3 DEF ChainInv, ChainIntact
    <3>5. WriterKnewHistory'
      BY <2>3 DEF ChainInv, WriterKnewHistory
    <3>6. QED
      BY <3>3, <3>4, <3>5
  <2>4. ASSUME NEW r \in Runs, NEW s \in Sessions, Attach(r, s)
        PROVE  ChainInv'
    <3>1. /\ journal' = journal
          /\ attached' = [attached EXCEPT ![r] = s]
          /\ headId' = [headId EXCEPT ![r] = HeadId(journal[s])]
          /\ seen' = [seen EXCEPT ![r] = Len(journal[s])]
      BY <2>4 DEF Attach, store
    <3>2. /\ Len(journal[s]) \in Nat
          /\ Len(journal[s]) = 0 => HeadId(journal[s]) = None
          /\ Len(journal[s]) # 0 => HeadId(journal[s]) = journal[s][Len(journal[s])].id
      BY HeadIdType, LenProperties DEF TypeOK
    <3>3. SUFFICES ASSUME NEW q \in Runs, attached'[q] # None
                   PROVE  /\ seen'[q] <= Len(journal[attached'[q]])
                          /\ seen'[q] = 0 => headId'[q] = None
                          /\ seen'[q] # 0 => headId'[q] = journal[attached'[q]][seen'[q]].id
      BY <2>3, <3>1 DEF ChainInv, HeadSeen
    <3>4. CASE q = r
      BY <3>1, <3>2, <3>4 DEF TypeOK
    <3>5. CASE q # r
      BY <3>1, <3>3, <3>5 DEF TypeOK, ChainInv, HeadSeen
    <3>6. QED
      BY <3>4, <3>5
  <2>5. ASSUME NEW r \in Runs, Exit(r)
        PROVE  ChainInv'
    <3>1. /\ journal' = journal
          /\ attached' = [attached EXCEPT ![r] = None]
          /\ headId' = [headId EXCEPT ![r] = None]
          /\ seen' = [seen EXCEPT ![r] = 0]
      BY <2>5 DEF Exit, store
    <3>2. \A q \in Runs : attached'[q] # None =>
             /\ attached'[q] = attached[q]
             /\ headId'[q] = headId[q]
             /\ seen'[q] = seen[q]
      BY <3>1 DEF TypeOK
    <3>3. HeadSeen'
      BY <3>1, <3>2 DEF ChainInv, HeadSeen
    <3>4. QED
      BY <2>3, <3>1, <3>3 DEF ChainInv
  <2>6. ASSUME UNCHANGED <<journal, attached, headId, seen>>
        PROVE  ChainInv'
    BY <2>3, <2>6 DEF ChainInv, HeadSeen
  <2>7. \/ \E r \in Runs : AppendFenced(r) \/ Exit(r)
        \/ \E s \in Sessions : AppendUnfenced(s)
        \/ \E r \in Runs, s \in Sessions : Attach(r, s)
        \/ UNCHANGED <<journal, attached, headId, seen>>
    BY DEF Next, vars, store, AcquireFresh, AcquireShared, Renew, Release, ClockStep
  <2>8. QED
    BY <2>1, <2>2, <2>4, <2>5, <2>6, <2>7
<1>3. ChainInv => ChainIntact /\ WriterKnewHistory
  BY DEF ChainInv
<1>4. QED
  BY <1>1, <1>2, <1>3, TypeCorrect, LeasesCorrect, PTL DEF Spec

\* The second half of it alone: whoever appended an event had observed every
\* event before it (assertExpectedJournalHead, SessionAppender).
THEOREM HistoryKnown == Spec => []WriterKnewHistory
<1>1. ChainIntact /\ WriterKnewHistory => WriterKnewHistory
  OBVIOUS
<1>2. QED
  BY <1>1, ChainCorrect, PTL

-----------------------------------------------------------------------------
(* What a step may append, and the abstract log.                            *)

\* A superseded run is silent: a fenced append happens only under the newest
\* token granted for its session (requireLease).
THEOREM NewestTokenAppends == Spec => OnlyNewestTokenAppends
<1> DEFINE Newest ==
      \A s \in Sessions :
        Len(journal'[s]) > Len(journal[s]) /\ Fenced(journal'[s][Len(journal'[s])])
          => journal'[s][Len(journal'[s])].token = lastTokens[s]
<1>1. TypeOK /\ LeasesInv /\ [Next]_vars => Newest
  <2> SUFFICES ASSUME TypeOK, LeasesInv, [Next]_vars PROVE Newest
    OBVIOUS
  <2>1. \A t \in Sessions : Len(journal[t]) \in Nat
    BY JournalType
  <2>2. ASSUME NEW s \in Sessions, NEW event \in Event, Push(s, event),
               event.token \in {0, lastTokens[s]}
        PROVE  Newest
    <3>1. /\ \A t \in Sessions \ {s} : journal'[t] = journal[t]
          /\ Len(journal'[s]) = Len(journal[s]) + 1
          /\ journal'[s][Len(journal[s]) + 1] = event
      BY <2>2, PushExtends
    <3>2. QED
      BY <2>1, <2>2, <3>1 DEF Fenced
  <2>3. ASSUME NEW r \in Runs, AppendFenced(r)
        PROVE  Newest
    <3> DEFINE event == NextEvent(attached[r], r, held[r].fencingToken, seen[r])
    <3>1. event.token = held[r].fencingToken
      BY DEF NextEvent
    <3>2. /\ attached[r] \in Sessions /\ event \in Event /\ Push(attached[r], event)
          /\ held[r].fencingToken = lastTokens[attached[r]]
      BY <2>3, FencedAppend
    <3> HIDE DEF event, Newest
    <3>3. QED
      BY <2>2, <3>1, <3>2
  <2>4. ASSUME NEW s \in Sessions, AppendUnfenced(s)
        PROVE  Newest
    <3> DEFINE event == NextEvent(s, None, 0, Len(journal[s]))
    <3>1. event.token = 0
      BY DEF NextEvent
    <3>2. event \in Event /\ Push(s, event)
      BY <2>4, UnfencedAppend
    <3> HIDE DEF event, Newest
    <3>3. QED
      BY <2>2, <3>1, <3>2
  <2>5. CASE journal' = journal
    BY <2>1, <2>5
  <2>6. QED
    BY <2>3, <2>4, <2>5, JournalSteps
<1>2. QED
  BY <1>1, TypeCorrect, LeasesCorrect, PTL DEF Spec, OnlyNewestTokenAppends

\* The tokens of an appended event are appended to the tokens of its journal.
LEMMA PushAppendsToken ==
  ASSUME TypeOK, NEW s \in Sessions, NEW event \in Event, Push(s, event)
  PROVE  Tokens' = [Tokens EXCEPT ![s] = Append(@, event.token)]
<1> DEFINE n == Len(journal[s])
           before == [i \in 1 .. n |-> journal[s][i].token]
           after == [i \in 1 .. (n + 1) |-> journal'[s][i].token]
<1>1. /\ \A t \in Sessions \ {s} : journal'[t] = journal[t]
      /\ n \in Nat
      /\ Len(journal'[s]) = n + 1
      /\ \A i \in 1 .. n : journal'[s][i] = journal[s][i]
      /\ journal'[s][n + 1] = event
  BY PushExtends
<1>2. \A i \in 1 .. n : journal[s][i].token \in Nat
  BY JournalType DEF Event
<1>3. before \in Seq(Nat) /\ Len(before) = n
  BY <1>1, <1>2
<1>4. event.token \in Nat
  BY DEF Event
<1>5. /\ Append(before, event.token) \in Seq(Nat)
      /\ Len(Append(before, event.token)) = n + 1
      /\ \A i \in 1 .. n : Append(before, event.token)[i] = before[i]
      /\ Append(before, event.token)[n + 1] = event.token
  BY <1>3, <1>4, AppendProperties
<1>6. after \in Seq(Nat) /\ Len(after) = n + 1
  <2>1. ASSUME NEW i \in 1 .. (n + 1) PROVE journal'[s][i].token \in Nat
    <3>1. CASE i \in 1 .. n
      BY <1>1, <1>2, <3>1
    <3>2. CASE i = n + 1
      BY <1>1, <1>4, <3>2
    <3>3. QED
      BY <1>1, <3>1, <3>2
  <2>2. QED
    BY <1>1, <2>1
<1>7. \A i \in 1 .. (n + 1) : after[i] = Append(before, event.token)[i]
  BY <1>1, <1>5
<1>8. after = Append(before, event.token)
  <2> HIDE DEF after, before
  <2>1. QED
    BY <1>5, <1>6, <1>7, SeqEqual
<1>9. Tokens'[s] = after /\ Tokens[s] = before
  BY <1>1 DEF Tokens
<1>10. \A t \in Sessions \ {s} : Tokens'[t] = Tokens[t]
  BY <1>1 DEF Tokens
<1>11. Tokens = [t \in Sessions |-> Tokens[t]] /\ Tokens' = [t \in Sessions |-> Tokens'[t]]
  BY DEF Tokens
<1> HIDE DEF after, before
<1>12. QED
  BY <1>8, <1>9, <1>10, <1>11

\* The fenced session journal implements the log with one open epoch: every
\* step opens an epoch, writes to the open one, writes outside of any, or
\* changes nothing of it.
THEOREM Refinement == Spec => ImplementsEpochLog
<1> USE FencedJournalAssumption
<1>1. Init => Epochs!Init
  <2> SUFFICES ASSUME Init PROVE Epochs!Init
    OBVIOUS
  <2>1. ASSUME NEW s \in Sessions
        PROVE  [i \in 1 .. Len(journal[s]) |-> journal[s][i].token] = <<>>
    BY EmptySeq DEF Init
  <2>2. Tokens = [s \in Sessions |-> <<>>]
    BY <2>1 DEF Tokens
  <2>3. QED
    BY <2>2 DEF Init, Epochs!Init
<1>2. TypeOK /\ LeasesInv /\ [Next]_vars => [Epochs!Next]_<<Tokens, lastTokens>>
  <2> SUFFICES ASSUME TypeOK, LeasesInv, [Next]_vars
               PROVE  [Epochs!Next]_<<Tokens, lastTokens>>
    OBVIOUS
  <2>1. ASSUME NEW r \in Runs, AppendFenced(r)
        PROVE  Epochs!Write(attached[r])
    <3> DEFINE event == NextEvent(attached[r], r, held[r].fencingToken, seen[r])
    <3>1. event.token = held[r].fencingToken
      BY DEF NextEvent
    <3>2. /\ attached[r] \in Sessions /\ event \in Event /\ Push(attached[r], event)
          /\ held[r].fencingToken = lastTokens[attached[r]]
          /\ held[r].fencingToken > 0
      BY <2>1, FencedAppend
    <3> HIDE DEF event
    <3>3. Tokens' = [Tokens EXCEPT ![attached[r]] = Append(@, lastTokens[attached[r]])]
      BY <3>1, <3>2, PushAppendsToken
    <3>4. QED
      BY <2>1, <3>2, <3>3 DEF AppendFenced, Epochs!Write
  <2>2. ASSUME NEW s \in Sessions, AppendUnfenced(s)
        PROVE  Epochs!WriteOutside(s)
    <3> DEFINE event == NextEvent(s, None, 0, Len(journal[s]))
    <3>1. event.token = 0
      BY DEF NextEvent
    <3>2. event \in Event /\ Push(s, event)
      BY <2>2, UnfencedAppend
    <3> HIDE DEF event
    <3>3. Tokens' = [Tokens EXCEPT ![s] = Append(@, 0)]
      BY <3>1, <3>2, PushAppendsToken
    <3>4. QED
      BY <2>2, <3>3 DEF AppendUnfenced, Epochs!WriteOutside
  <2>3. ASSUME NEW r \in Runs, NEW s \in Sessions, NEW d \in Durations, AcquireFresh(r, s, d)
        PROVE  Epochs!Open(s)
    BY <2>3 DEF AcquireFresh, Grant, Tokens, Epochs!Open
  <2>4. CASE UNCHANGED <<journal, lastTokens>>
    BY <2>4 DEF Tokens
  <2>5. \/ \E r \in Runs : AppendFenced(r)
        \/ \E s \in Sessions : AppendUnfenced(s)
        \/ \E r \in Runs, s \in Sessions, d \in Durations : AcquireFresh(r, s, d)
        \/ UNCHANGED <<journal, lastTokens>>
    BY DEF Next, vars, store, AcquireShared, Renew, Release, Attach, Exit, ClockStep
  <2>6. \A r \in Runs : AppendFenced(r) => attached[r] \in Sessions
    BY FencedAppend
  <2>7. QED
    BY <2>1, <2>2, <2>3, <2>4, <2>5, <2>6 DEF Epochs!Next
<1>3. QED
  BY <1>1, <1>2, TypeCorrect, LeasesCorrect, PTL DEF Spec, ImplementsEpochLog, Epochs!Spec
=============================================================================
