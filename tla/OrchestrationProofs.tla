------------------------ MODULE OrchestrationProofs -------------------------
(***************************************************************************)
(* Proofs about module Orchestration, for any number of dispatchers,       *)
(* completers and receivers, any mail and any bound on the faults.  The    *)
(* journals only grow, which is all that the mailbox invariants need of a  *)
(* dispatcher and most of what the dispatch invariants need of a receiver. *)
(***************************************************************************)
EXTENDS Orchestration, PositionLemmas

-----------------------------------------------------------------------------
(* What the searches of the code find.                                      *)

\* The first position that passes a test.
Found(i, positions) ==
  IF positions = {} THEN i = 0 ELSE i \in positions /\ \A j \in positions : i <= j

\* RecordAt finds the record of a mail.
LEMMA RecordAtFinds ==
  ASSUME NEW snapshot \in Seq(MailboxRecord), NEW mail
  PROVE  Found(RecordAt(snapshot, mail), {i \in 1 .. Len(snapshot) : snapshot[i].mail = mail})
<1> DEFINE I == {i \in 1 .. Len(snapshot) : snapshot[i].mail = mail}
<1>1. I \in SUBSET Nat OBVIOUS
<1>2. RecordAt(snapshot, mail) = IF I # {} THEN Min(I) ELSE 0
  BY DEF RecordAt, SelectInSeq
<1> HIDE DEF I
<1>3. I # {} => Min(I) \in I /\ \A j \in I : Min(I) <= j
  BY <1>1, MinIsLeast
<1>4. Found(RecordAt(snapshot, mail), I)
  BY <1>2, <1>3 DEF Found
<1> QED BY <1>4 DEF I

\* CompletionIn finds the first completion.
LEMMA CompletionInFinds ==
  ASSUME NEW events \in Seq(Event)
  PROVE  Found(CompletionIn(events), {i \in 1 .. Len(events) : events[i].type = "child.completed"})
<1> DEFINE I == {i \in 1 .. Len(events) : events[i].type = "child.completed"}
<1>1. I \in SUBSET Nat OBVIOUS
<1>2. CompletionIn(events) = IF I # {} THEN Min(I) ELSE 0
  BY DEF CompletionIn, SelectInSeq
<1> HIDE DEF I
<1>3. I # {} => Min(I) \in I /\ \A j \in I : Min(I) <= j
  BY <1>1, MinIsLeast
<1>4. Found(CompletionIn(events), I)
  BY <1>2, <1>3 DEF Found
<1> QED BY <1>4 DEF I

\* LinkIn finds the first link.
LEMMA LinkInFinds ==
  ASSUME NEW events \in Seq(Event)
  PROVE  Found(LinkIn(events), {i \in 1 .. Len(events) : events[i].type = "child.started"})
<1> DEFINE I == {i \in 1 .. Len(events) : events[i].type = "child.started"}
<1>1. I \in SUBSET Nat OBVIOUS
<1>2. LinkIn(events) = IF I # {} THEN Min(I) ELSE 0
  BY DEF LinkIn, SelectInSeq
<1> HIDE DEF I
<1>3. I # {} => Min(I) \in I /\ \A j \in I : Min(I) <= j
  BY <1>1, MinIsLeast
<1>4. Found(LinkIn(events), I)
  BY <1>2, <1>3 DEF Found
<1> QED BY <1>4 DEF I

\* An event tells what a mail says: it is the mail's own, or the completion
\* that reports the same result.
Tells(e, mail) ==
  /\ e.value = Reported(mail)
  /\ e.mail = mail \/ (mail \in Results /\ e.type = "child.completed")

\* A recognised event without a conflict tells what the mail says; where none
\* is recognised no event is the mail's, and none completes the child of a
\* result.
LEMMA RecognisedTells ==
  ASSUME NEW events \in Seq(Event), NEW mail \in Mails
  PROVE  LET i == Recognised(mail, events)
         IN  /\ i \in 0 .. Len(events)
             /\ i # 0 /\ ~Conflicting(mail, events) => Tells(events[i], mail)
             /\ i = 0 => \A j \in 1 .. Len(events) :
                            /\ events[j].mail # mail
                            /\ mail \in Results => events[j].type # "child.completed"
<1> DEFINE I == {i \in 1 .. Len(events) : events[i].mail = mail}
           own == SelectInSeq(events, LAMBDA e : e.mail = mail)
<1>1. I \in SUBSET Nat OBVIOUS
<1>2. own = IF I # {} THEN Min(I) ELSE 0
  BY DEF SelectInSeq
<1>3. Found(own, I)
  <2> HIDE DEF I, own
  <2> QED BY <1>1, <1>2, MinIsLeast DEF Found
<1>4. Recognised(mail, events) = IF own # 0 \/ mail \in Texts THEN own ELSE CompletionIn(events)
  BY DEF Recognised
<1>5. own \in 0 .. Len(events) /\ (own # 0 => events[own].mail = mail)
      /\ (own = 0 => \A j \in 1 .. Len(events) : events[j].mail # mail)
  <2> HIDE DEF own
  <2> QED BY <1>3 DEF Found
<1> HIDE DEF I, own
<1>6. CompletionIn(events) \in 0 .. Len(events)
      /\ (CompletionIn(events) # 0 => events[CompletionIn(events)].type = "child.completed")
      /\ (CompletionIn(events) = 0 => \A j \in 1 .. Len(events) : events[j].type # "child.completed")
  BY CompletionInFinds DEF Found
<1>7. mail \in Results <=> mail \notin Texts
  BY SessionJournalsAssumption DEF Mails
<1> QED BY <1>4, <1>5, <1>6, <1>7 DEF Tells, Conflicting

\* Pending mail is a sequence of mails.
LEMMA PendingType ==
  ASSUME NEW snapshot \in Seq(MailboxRecord)
  PROVE  Pending(snapshot) \in Seq(Mails)
<1> DEFINE W == Waiting(snapshot)
<1>1. W \in SUBSET (1 .. Len(snapshot)) /\ Len(snapshot) \in Nat
  BY DEF Waiting
<1>2. Cardinality(W) \in Nat
  BY <1>1, PositionsFinite
<1>3. ASSUME NEW k \in 1 .. Cardinality(W)
      PROVE  Nth(W, k) \in W
  <2>1. \E i \in W : Cardinality({j \in W : j < i}) = k - 1
    BY <1>1, KthExists
  <2> QED BY <2>1 DEF Nth
<1>4. \A i \in W : snapshot[i].mail \in Mails
  <2>1. \A i \in W : snapshot[i] \in MailboxRecord
    BY <1>1
  <2> QED BY <2>1 DEF MailboxRecord
<1>5. \A k \in 1 .. Cardinality(W) : snapshot[Nth(W, k)].mail \in Mails
  BY <1>3, <1>4
<1>6. Pending(snapshot) = [k \in 1 .. Cardinality(W) |-> snapshot[Nth(W, k)].mail]
  BY DEF Pending
<1> HIDE DEF W
<1> QED BY <1>2, <1>5, <1>6

\* So is the batch a receiver takes.
LEMMA NextBatchType ==
  ASSUME NEW snapshot \in Seq(MailboxRecord)
  PROVE  NextBatch(snapshot) \in Seq(Mails)
<1> DEFINE P == Pending(snapshot)
           n == IF Len(P) < Batch THEN Len(P) ELSE Batch
<1>1. P \in Seq(Mails) /\ n \in 0 .. Len(P)
  BY PendingType, MailboxAssumption
<1>2. NextBatch(snapshot) = SubSeq(P, 1, n)
  BY DEF NextBatch
<1> HIDE DEF P, n
<1> QED BY <1>1, <1>2

-----------------------------------------------------------------------------
(* Types, with what they rest on: a dispatcher that has a fork in hand has  *)
(* the one of the catalog, and a receiver at work has a batch.              *)

\* Where a dispatcher has a descriptor in hand.
Holding == {"start", "link", "recover", "readFork", "readChild", "startChild", "readParent",
            "linkParent", "enqueue"}

DispatchTypes ==
  /\ journal \in [Sessions -> Seq(Event)]
  /\ catalog \in [Sessions -> Descriptor \cup {None}]
  /\ configs \subseteq Configs /\ queue \in WorkItem \cup {None}
  /\ disp \in [Dispatchers -> Dispatcher] /\ completer \in [Completers -> Completer]

Held ==
  /\ catalog[Child] # None => catalog[Child].created \in Stamps
  /\ \A d \in Dispatchers :
       disp[d].pc \in Holding => catalog[Child] # None /\ disp[d].session = catalog[Child]

MailTypes ==
  /\ \A snapshot \in disk \cup {box} : IsSnapshot(snapshot)
  /\ op \in Operation \cup {None}
  /\ receiver \in [Receivers -> Receiver]

Busy ==
  /\ \A r \in Receivers : receiver[r].pc # "idle" => receiver[r].batch # <<>>
  /\ op # None /\ op.by # None => receiver[op.by].pc = "waiting"

Base == DispatchTypes /\ Held /\ MailTypes /\ Busy

\* What the writers record is an event.
LEMMA EventTypes ==
  /\ \A session \in Descriptor \cup {None} :
       SessionStarted(session) \in Event /\ ChildStarted(session) \in Event
  /\ \A value \in Values \cup {None} : ChildCompleted(value) \in Event
  /\ \A mail \in Mails : MailboxEvent(mail) \in Event
<1>1. \A mail \in Mails : Reported(mail) \in Values \cup {None}
  BY ValueInAssumption DEF Reported, Mails
<1> QED BY <1>1 DEF SessionStarted, ChildStarted, ChildCompleted, MailboxEvent, Event, Mails

\* Recording an event keeps the journals typed.
LEMMA RecordType ==
  ASSUME DispatchTypes, NEW s \in Sessions, NEW e \in Event, Record(s, e)
  PROVE  journal' \in [Sessions -> Seq(Event)]
BY DEF DispatchTypes, Record

Pcs == {"idle", "forking", "config", "session", "start", "link", "raced", "recover", "readFork",
        "readChild", "startChild", "readParent", "linkParent", "enqueue"}

\* A dispatcher moves to a place: the others stay where they are.
At(d, pc, session, known) ==
  /\ disp' \in [Dispatchers -> Dispatcher]
  /\ disp'[d].pc = pc /\ disp'[d].session = session /\ disp'[d].known = known
  /\ \A o \in Dispatchers : o # d => disp'[o] = disp[o]
Rests(d) == At(d, "idle", None, 0)

\* A dispatcher that goes on keeps what it has in hand, or takes something.
LEMMA GoMoves ==
  ASSUME DispatchTypes, NEW d \in Dispatchers, NEW pc \in Pcs
  PROVE  /\ Go(d, pc) => At(d, pc, disp[d].session, disp[d].known)
         /\ \A known \in Nat :
              disp' = [disp EXCEPT ![d].pc = pc, ![d].known = known]
                => At(d, pc, disp[d].session, known)
         /\ \A session \in Descriptor \cup {None} :
              disp' = [disp EXCEPT ![d].pc = pc, ![d].session = session]
                => At(d, pc, session, disp[d].known)
<1>1. disp[d] \in Dispatcher /\ disp \in [Dispatchers -> Dispatcher]
  BY DEF DispatchTypes
<1>2. Go(d, pc) => At(d, pc, disp[d].session, disp[d].known)
  BY <1>1 DEF Go, At, Dispatcher, Pcs
<1>3. ASSUME NEW known \in Nat, disp' = [disp EXCEPT ![d].pc = pc, ![d].known = known]
      PROVE  At(d, pc, disp[d].session, known)
  BY <1>1, <1>3 DEF At, Dispatcher, Pcs
<1>4. ASSUME NEW session \in Descriptor \cup {None},
             disp' = [disp EXCEPT ![d].pc = pc, ![d].session = session]
      PROVE  At(d, pc, session, disp[d].known)
  BY <1>1, <1>4 DEF At, Dispatcher, Pcs
<1> QED BY <1>2, <1>3, <1>4

\* One that fails is at rest.
LEMMA FailMoves ==
  ASSUME DispatchTypes, NEW d \in Dispatchers, Fail(d)
  PROVE  Rests(d)
BY DEF Fail, Rests, At, AtRest, DispatchTypes, Dispatcher

\* What each step of a dispatcher does to it.
LEMMA ForkMoves ==
  ASSUME DispatchTypes, NEW d \in Dispatchers
  PROVE  /\ Call(d) =>
              \/ At(d, "forking", disp[d].session, disp[d].known) /\ catalog[Child] = None
              \/ At(d, "recover", catalog[Child], disp[d].known) /\ catalog[Child] # None
         /\ ReadForkPoint(d) =>
              \/ At(d, "raced", disp[d].session, disp[d].known)
              \/ /\ At(d, "config", disp[d].session, Len(journal[Parent]))
                 /\ Len(journal[Parent]) # 0
         /\ PutForkConfig(d) => At(d, "session", disp[d].session, disp[d].known)
         /\ StartFork(d) =>
              \/ At(d, "link", disp[d].session, disp[d].known) /\ HeadIs(Child, 0)
              \/ At(d, "raced", disp[d].session, disp[d].known) /\ UNCHANGED journal
         /\ LinkFork(d) => At(d, "enqueue", disp[d].session, disp[d].known)
         /\ Raced(d) =>
              \/ Rests(d)
              \/ At(d, "recover", catalog[Child], disp[d].known) /\ catalog[Child] # None
<1>0. Len(journal[Parent]) \in Nat /\ catalog[Child] \in Descriptor \cup {None}
  BY DEF DispatchTypes, Sessions
<1>1. \A pc \in {"forking", "recover", "raced", "config", "session", "link", "enqueue"} : pc \in Pcs
  BY DEF Pcs
<1>2. Call(d) =>
              \/ At(d, "forking", disp[d].session, disp[d].known) /\ catalog[Child] = None
              \/ At(d, "recover", catalog[Child], disp[d].known) /\ catalog[Child] # None
  BY <1>0, <1>1, GoMoves DEF Call
<1>3. ReadForkPoint(d) =>
              \/ At(d, "raced", disp[d].session, disp[d].known)
              \/ /\ At(d, "config", disp[d].session, Len(journal[Parent]))
                 /\ Len(journal[Parent]) # 0
  BY <1>0, <1>1, GoMoves DEF ReadForkPoint, HeadIs
<1>4. PutForkConfig(d) => At(d, "session", disp[d].session, disp[d].known)
  BY <1>1, GoMoves DEF PutForkConfig
<1>5. StartFork(d) =>
              \/ At(d, "link", disp[d].session, disp[d].known) /\ HeadIs(Child, 0)
              \/ At(d, "raced", disp[d].session, disp[d].known) /\ UNCHANGED journal
  <2>1. CASE HeadIs(Child, 0)
    BY <1>1, <2>1, GoMoves DEF StartFork
  <2>2. CASE ~HeadIs(Child, 0)
    BY <1>1, <2>2, GoMoves DEF StartFork
  <2> QED BY <2>1, <2>2
<1>6. LinkFork(d) => At(d, "enqueue", disp[d].session, disp[d].known)
  BY <1>1, GoMoves DEF LinkFork
<1>7. Raced(d) =>
              \/ Rests(d)
              \/ At(d, "recover", catalog[Child], disp[d].known) /\ catalog[Child] # None
  BY <1>0, <1>1, GoMoves, FailMoves DEF Raced
<1> QED BY <1>2, <1>3, <1>4, <1>5, <1>6, <1>7

LEMMA RecoverMoves ==
  ASSUME DispatchTypes, NEW d \in Dispatchers
  PROVE  /\ CheckFork(d) =>
              \/ Rests(d) /\ UNCHANGED configs
              \/ /\ At(d, "readFork", disp[d].session, disp[d].known)
                 /\ disp[d].session.config = ConfigOf[d] /\ configs' = configs \cup {ConfigOf[d]}
         /\ ReadFork(d) =>
              \/ Rests(d)
              \/ At(d, "readChild", disp[d].session, disp[d].known)
         /\ ReadChild(d) =>
              \/ Rests(d)
              \/ At(d, "startChild", disp[d].session, disp[d].known)
              \/ At(d, "readParent", disp[d].session, disp[d].known) /\ Len(journal[Child]) # 0
         /\ StartChild(d) =>
              \/ /\ At(d, "readParent", disp[d].session, disp[d].known)
                 /\ HeadIs(Child, 0) /\ Record(Child, SessionStarted(disp[d].session))
              \/ At(d, "readChild", disp[d].session, disp[d].known) /\ UNCHANGED journal
         /\ ReadParent(d) =>
              \/ Rests(d)
              \/ /\ At(d, "linkParent", disp[d].session, Len(journal[Parent]))
                 /\ LinkIn(journal[Parent]) = 0
              \/ /\ At(d, "enqueue", disp[d].session, disp[d].known)
                 /\ LinkIn(journal[Parent]) # 0
         /\ LinkParent(d) =>
              \/ /\ At(d, "enqueue", disp[d].session, disp[d].known)
                 /\ LinkHead(d) /\ Record(Parent, ChildStarted(disp[d].session))
              \/ At(d, "readParent", disp[d].session, disp[d].known) /\ UNCHANGED journal
         /\ Enqueue(d) \/ Crash(d) => Rests(d)
<1>0. Len(journal[Parent]) \in Nat
  BY DEF DispatchTypes, Sessions
<1>1. \A pc \in {"readFork", "readChild", "startChild", "readParent", "linkParent", "enqueue"} :
        pc \in Pcs
  BY DEF Pcs
<1>2. CheckFork(d) =>
              \/ Rests(d) /\ UNCHANGED configs
              \/ /\ At(d, "readFork", disp[d].session, disp[d].known)
                 /\ disp[d].session.config = ConfigOf[d] /\ configs' = configs \cup {ConfigOf[d]}
  BY <1>1, GoMoves, FailMoves DEF CheckFork
<1>3. ReadFork(d) =>
              \/ Rests(d)
              \/ At(d, "readChild", disp[d].session, disp[d].known)
  BY <1>1, GoMoves, FailMoves DEF ReadFork
<1>4. ReadChild(d) =>
              \/ Rests(d)
              \/ At(d, "startChild", disp[d].session, disp[d].known)
              \/ At(d, "readParent", disp[d].session, disp[d].known) /\ Len(journal[Child]) # 0
  BY <1>1, GoMoves, FailMoves DEF ReadChild, HeadIs
<1>5. StartChild(d) =>
              \/ /\ At(d, "readParent", disp[d].session, disp[d].known)
                 /\ HeadIs(Child, 0) /\ Record(Child, SessionStarted(disp[d].session))
              \/ At(d, "readChild", disp[d].session, disp[d].known) /\ UNCHANGED journal
  BY <1>1, GoMoves DEF StartChild
<1>6. ReadParent(d) =>
              \/ Rests(d)
              \/ /\ At(d, "linkParent", disp[d].session, Len(journal[Parent]))
                 /\ LinkIn(journal[Parent]) = 0
              \/ /\ At(d, "enqueue", disp[d].session, disp[d].known)
                 /\ LinkIn(journal[Parent]) # 0
  BY <1>0, <1>1, GoMoves, FailMoves DEF ReadParent
<1>7. LinkParent(d) =>
              \/ /\ At(d, "enqueue", disp[d].session, disp[d].known)
                 /\ LinkHead(d) /\ Record(Parent, ChildStarted(disp[d].session))
              \/ At(d, "readParent", disp[d].session, disp[d].known) /\ UNCHANGED journal
  BY <1>1, GoMoves DEF LinkParent
<1>8. Enqueue(d) \/ Crash(d) => Rests(d)
  BY FailMoves DEF Enqueue, Crash
<1> QED BY <1>2, <1>3, <1>4, <1>5, <1>6, <1>7, <1>8


\* A dispatcher that ends up with the descriptor of the catalog in hand, or
\* with nothing, keeps Held.
LEMMA HeldByMove ==
  ASSUME Held, UNCHANGED catalog,
         NEW d \in Dispatchers, NEW pc, NEW session, NEW known, At(d, pc, session, known),
         pc \in Holding => catalog[Child] # None /\ session = catalog[Child]
  PROVE  Held'
BY DEF Held, At

\* A step of a dispatcher keeps the types and the descriptor in hand.
LEMMA ForkBase ==
  ASSUME DispatchTypes, Held, NEW d \in Dispatchers, Fork(d)
  PROVE  (DispatchTypes /\ Held)'
<1>0. disp[d].session \in Descriptor \cup {None} /\ Parent \in Sessions /\ Child \in Sessions
  BY DEF DispatchTypes, Dispatcher, Sessions
<1>1. CASE Call(d)
  <2>1. Held'
    BY <1>1, ForkMoves, HeldByMove DEF Call, OnlyDisp, Holding
  <2>2. disp' \in [Dispatchers -> Dispatcher]
    BY <1>1, ForkMoves DEF At
  <2> QED BY <1>1, <2>1, <2>2 DEF Call, OnlyDisp, DispatchTypes
<1>2. CASE ReadForkPoint(d)
  <2>1. Held'
    BY <1>2, ForkMoves, HeldByMove DEF ReadForkPoint, OnlyDisp, Holding
  <2>2. disp' \in [Dispatchers -> Dispatcher]
    BY <1>2, ForkMoves DEF At
  <2> QED BY <1>2, <2>1, <2>2 DEF ReadForkPoint, OnlyDisp, DispatchTypes
<1>3. CASE PutForkConfig(d)
  <2>1. Held'
    BY <1>3, ForkMoves, HeldByMove DEF PutForkConfig, Holding
  <2>2. disp' \in [Dispatchers -> Dispatcher]
    BY <1>3, ForkMoves DEF At
  <2> QED BY <1>3, <2>1, <2>2, SessionDispatchAssumption DEF PutForkConfig, DispatchTypes
<1>4. CASE PutChild(d)
  <2>1. PICK stamp \in StampsNow :
          LET child == [config |-> ConfigOf[d], created |-> stamp, fork |-> disp[d].known]
          IN  IF Puttable(Child, child)
              THEN /\ Put(Child, child)
                   /\ disp' = [disp EXCEPT ![d] = [pc |-> "start", session |-> child, known |-> 0]]
              ELSE /\ disp' = [disp EXCEPT ![d] = [AtRest EXCEPT !.pc = "raced"]]
                   /\ UNCHANGED catalog
    BY <1>4 DEF PutChild
  <2> DEFINE child == [config |-> ConfigOf[d], created |-> stamp, fork |-> disp[d].known]
  <2>2. stamp \in Stamps
    BY <2>1, SessionJournalsAssumption DEF StampsNow
  <2>3. child \in Descriptor /\ child # None /\ child.created \in Stamps
    BY <2>2, SessionDispatchAssumption, DescriptorAssumption DEF DispatchTypes, Dispatcher, Descriptor
  <2>4. UNCHANGED <<journal, configs, queue, creator, completer, forkLinked, faults>>
    BY <1>4 DEF PutChild
  <2> HIDE DEF child
  <2>5. CASE Puttable(Child, child)
    <3>1. catalog' = [catalog EXCEPT ![Child] = child] /\ catalog[Child] \in {None, child}
          /\ disp' = [disp EXCEPT ![d] = [pc |-> "start", session |-> child, known |-> 0]]
      BY <2>1, <2>5 DEF child, Put, Puttable
    <3>2. At(d, "start", child, 0)
      BY <2>3, <3>1 DEF At, DispatchTypes, Dispatcher
    <3>3. catalog'[Child] = child /\ catalog' \in [Sessions -> Descriptor \cup {None}]
      BY <1>0, <2>3, <3>1 DEF DispatchTypes
    <3>4. Held'
      BY <2>3, <3>1, <3>2, <3>3 DEF Held, At
    <3> QED BY <2>4, <3>2, <3>3, <3>4 DEF DispatchTypes, At
  <2>6. CASE ~Puttable(Child, child)
    <3>1. disp' = [disp EXCEPT ![d] = [AtRest EXCEPT !.pc = "raced"]] /\ UNCHANGED catalog
      BY <2>1, <2>6 DEF child
    <3>2. At(d, "raced", None, 0)
      BY <3>1 DEF At, AtRest, DispatchTypes, Dispatcher
    <3>3. Held'
      BY <3>1, <3>2, HeldByMove DEF Holding
    <3> QED BY <2>4, <3>1, <3>2, <3>3 DEF DispatchTypes, At
  <2> QED BY <2>5, <2>6
<1>5. CASE StartFork(d)
  <2>1. journal' \in [Sessions -> Seq(Event)]
    BY <1>0, <1>5, RecordType, EventTypes DEF StartFork, DispatchTypes
  <2>2. Held'
    BY <1>5, ForkMoves, HeldByMove DEF StartFork, Held, Holding
  <2>3. disp' \in [Dispatchers -> Dispatcher]
    BY <1>5, ForkMoves DEF At
  <2> QED BY <1>5, <2>1, <2>2, <2>3 DEF StartFork, DispatchTypes
<1>6. CASE LinkFork(d)
  <2>1. journal' \in [Sessions -> Seq(Event)]
    BY <1>0, <1>6, RecordType, EventTypes DEF LinkFork
  <2>2. Held'
    BY <1>6, ForkMoves, HeldByMove DEF LinkFork, Held, Holding
  <2>3. disp' \in [Dispatchers -> Dispatcher]
    BY <1>6, ForkMoves DEF At
  <2> QED BY <1>6, <2>1, <2>2, <2>3 DEF LinkFork, DispatchTypes
<1>7. CASE Raced(d)
  <2>1. Held'
    BY <1>7, ForkMoves, HeldByMove DEF Raced, OnlyDisp, Holding, Rests
  <2>2. disp' \in [Dispatchers -> Dispatcher]
    BY <1>7, ForkMoves DEF At, Rests
  <2> QED BY <1>7, <2>1, <2>2 DEF Raced, OnlyDisp, DispatchTypes
<1> QED BY <1>1, <1>2, <1>3, <1>4, <1>5, <1>6, <1>7 DEF Fork

LEMMA RecoverBase ==
  ASSUME DispatchTypes, Held, NEW d \in Dispatchers, Recover(d) \/ Crash(d)
  PROVE  (DispatchTypes /\ Held)'
<1>0. disp[d].session \in Descriptor \cup {None} /\ Parent \in Sessions /\ Child \in Sessions
  BY DEF DispatchTypes, Dispatcher, Sessions
<1>1. UNCHANGED catalog /\ disp' \in [Dispatchers -> Dispatcher]
  BY RecoverMoves DEF Recover, CheckFork, ReadFork, ReadChild, StartChild, ReadParent, LinkParent,
    Enqueue, Crash, OnlyDisp, At, Rests
<1>2. Held'
  BY <1>1, RecoverMoves, HeldByMove
     DEF Recover, CheckFork, ReadFork, ReadChild, StartChild, ReadParent, LinkParent, Held, Holding,
         Rests
<1>3. journal' \in [Sessions -> Seq(Event)]
  BY <1>0, RecordType, EventTypes
     DEF Recover, CheckFork, ReadFork, ReadChild, StartChild, ReadParent, LinkParent, Enqueue, Crash,
         OnlyDisp, DispatchTypes
<1>4. configs' \subseteq Configs
  BY SessionDispatchAssumption
     DEF Recover, CheckFork, ReadFork, ReadChild, StartChild, ReadParent, LinkParent, Enqueue, Crash,
         OnlyDisp, DispatchTypes
<1>5. queue' \in WorkItem \cup {None}
  <2>1. CASE Enqueue(d)
    <3>1. disp[d].session \in Descriptor /\ disp[d].session.created \in Stamps
      BY <1>0, <2>1 DEF Enqueue, Held, Holding
    <3>2. WorkOf(disp[d].session) \in WorkItem
      BY <3>1 DEF WorkOf, WorkItem, Descriptor
    <3> QED BY <2>1, <3>2 DEF Enqueue, DispatchTypes
  <2>2. CASE ~Enqueue(d)
    BY <2>2 DEF Recover, CheckFork, ReadFork, ReadChild, StartChild, ReadParent, LinkParent, Crash,
         OnlyDisp, DispatchTypes
  <2> QED BY <2>1, <2>2
<1>6. completer' \in [Completers -> Completer]
  BY DEF Recover, CheckFork, ReadFork, ReadChild, StartChild, ReadParent, LinkParent, Enqueue, Crash,
         OnlyDisp, DispatchTypes
<1> QED BY <1>1, <1>2, <1>3, <1>4, <1>5, <1>6 DEF DispatchTypes

\* So do creating the parent and completing the child.
LEMMA CreateBase ==
  ASSUME DispatchTypes, Held, Create \/ \E c \in Completers : Complete(c)
  PROVE  (DispatchTypes /\ Held)'
<1> USE SessionJournalsAssumption DEF Sessions
<1>1. CASE CreateDescriptor
  <2>1. PICK config \in Configs : Put(Parent, Root(config)) /\ configs' = configs \cup {config}
    BY <1>1 DEF CreateDescriptor
  <2>2. Root(config) \in Descriptor
    BY DEF Root, Descriptor
  <2> QED BY <1>1, <2>1, <2>2 DEF CreateDescriptor, Put, DispatchTypes, Held
<1>2. CASE CreateStart
  <2>1. catalog[Parent] \in Descriptor \cup {None}
    BY DEF DispatchTypes
  <2>2. journal' \in [Sessions -> Seq(Event)]
    BY <1>2, <2>1, RecordType, EventTypes DEF CreateStart
  <2> QED BY <1>2, <2>2 DEF CreateStart, DispatchTypes, Held
<1>3. ASSUME NEW c \in Completers, NEW value \in Values \cup {None}
      PROVE  Looked(value) \in Completer
  BY DEF Looked, NoResult, DispatchTypes, Completer
<1>4. ASSUME NEW c \in Completers, NEW value \in Values, Finish(c, value)
      PROVE  (DispatchTypes /\ Held)'
  BY <1>3, <1>4 DEF Finish, OnlyCompleter, DispatchTypes, Held
<1>5. ASSUME NEW c \in Completers, AppendCompletion(c)
      PROVE  (DispatchTypes /\ Held)'
  <2>1. completer[c].value \in Values \cup {None} /\ completer[c] \in Completer
    BY DEF DispatchTypes, Completer
  <2>2. journal' \in [Sessions -> Seq(Event)]
    BY <1>5, <2>1, RecordType, EventTypes DEF AppendCompletion, DispatchTypes
  <2>3. NoResult \in Completer
    BY DEF NoResult, Completer
  <2>4. completer' \in [Completers -> Completer]
    BY <1>3, <1>5, <2>1, <2>3 DEF AppendCompletion, DispatchTypes
  <2> QED BY <1>5, <2>2, <2>4 DEF AppendCompletion, OnlyCompleter, DispatchTypes, Held
<1> QED BY <1>1, <1>2, <1>4, <1>5 DEF Create, Complete

-----------------------------------------------------------------------------
(* Types of the mailbox.                                                    *)

\* The record of an operation's mail, and what a write leaves there.
LEMMA SnapshotTypes ==
  ASSUME NEW snapshot, IsSnapshot(snapshot), NEW mail \in Mails
  PROVE  /\ RecordAt(snapshot, mail) \in 0 .. Len(snapshot)
         /\ RecordAt(snapshot, mail) = 0 =>
              /\ \A i \in 1 .. Len(snapshot) : snapshot[i].mail # mail
              /\ IsSnapshot(Append(snapshot, [mail |-> mail, delivery |-> 0]))
         /\ RecordAt(snapshot, mail) # 0 => snapshot[RecordAt(snapshot, mail)].mail = mail
         /\ \A i \in 1 .. Len(snapshot), event \in Nat :
              IsSnapshot([snapshot EXCEPT ![i].delivery = event])
<1>0. snapshot \in Seq(MailboxRecord) /\ Len(snapshot) \in Nat
  BY DEF IsSnapshot
<1>1. Found(RecordAt(snapshot, mail), {i \in 1 .. Len(snapshot) : snapshot[i].mail = mail})
  BY <1>0, RecordAtFinds
<1>2. /\ RecordAt(snapshot, mail) \in 0 .. Len(snapshot)
      /\ RecordAt(snapshot, mail) = 0 => \A i \in 1 .. Len(snapshot) : snapshot[i].mail # mail
      /\ RecordAt(snapshot, mail) # 0 => snapshot[RecordAt(snapshot, mail)].mail = mail
  BY <1>0, <1>1 DEF Found
<1>3. ASSUME \A i \in 1 .. Len(snapshot) : snapshot[i].mail # mail
      PROVE  IsSnapshot(Append(snapshot, [mail |-> mail, delivery |-> 0]))
  <2> DEFINE record == [mail |-> mail, delivery |-> 0]
             longer == Append(snapshot, record)
  <2>1. record \in MailboxRecord /\ record.mail = mail
    BY DEF MailboxRecord
  <2> HIDE DEF record
  <2>2. longer \in Seq(MailboxRecord) /\ Len(longer) = Len(snapshot) + 1
        /\ longer[Len(snapshot) + 1] = record
        /\ \A i \in 1 .. Len(snapshot) : longer[i] = snapshot[i]
    BY <1>0, <2>1
  <2> HIDE DEF longer
  <2>3. \A i, j \in 1 .. Len(longer) : longer[i].mail = longer[j].mail => i = j
    BY <1>0, <1>3, <2>1, <2>2 DEF IsSnapshot
  <2>4. IsSnapshot(longer)
    BY <2>2, <2>3 DEF IsSnapshot
  <2> QED BY <2>4 DEF longer, record
<1>4. ASSUME NEW i \in 1 .. Len(snapshot), NEW event \in Nat
      PROVE  IsSnapshot([snapshot EXCEPT ![i].delivery = event])
  <2> DEFINE marked == [snapshot EXCEPT ![i].delivery = event]
  <2>1. \A j \in 1 .. Len(snapshot) : snapshot[j] \in MailboxRecord
    BY <1>0
  <2>2. marked \in Seq(MailboxRecord) /\ Len(marked) = Len(snapshot)
    BY <1>0, <2>1 DEF MailboxRecord
  <2>3. \A j \in 1 .. Len(snapshot) : marked[j].mail = snapshot[j].mail
    BY <1>0, <2>1 DEF MailboxRecord
  <2> HIDE DEF marked
  <2> QED BY <2>2, <2>3 DEF IsSnapshot, marked
<1> QED BY <1>2, <1>3, <1>4

\* A receiver that goes on has mail left.
LEMMA AdvancedType ==
  ASSUME NEW r \in Receivers, receiver[r] \in Receiver, receiver[r].batch # <<>>
  PROVE  /\ Advanced(r) \in Receiver
         /\ Advanced(r).pc # "idle" =>
              /\ Advanced(r).pc = "working" /\ Advanced(r).batch # <<>>
              /\ Advanced(r).known = receiver[r].known
         /\ Advanced(r).pc = "idle" => Advanced(r).known = 0
<1> DEFINE b == receiver[r].batch
<1>1. b \in Seq(Mails) /\ b # <<>>
  BY DEF Receiver
<1>2. Tail(b) \in Seq(Mails) /\ Len(Tail(b)) = Len(b) - 1 /\ Len(b) \in Nat \ {0}
  <2> HIDE DEF b
  <2> QED BY <1>1, HeadTailProperties, EmptySeq
<1>3. CASE Len(b) = 1
  BY <1>3 DEF Advanced, Idle, Receiver
<1>4. CASE Len(b) # 1
  <2>1. Advanced(r) = [receiver[r] EXCEPT !.pc = "working", !.batch = Tail(b), !.event = 0]
    BY <1>4 DEF Advanced
  <2>2. receiver[r] \in Receiver
    OBVIOUS
  <2> DEFINE t == Tail(b)
  <2>3. t \in Seq(Mails) /\ Len(t) # 0
    BY <1>2, <1>4
  <2>4. Advanced(r) = [receiver[r] EXCEPT !.pc = "working", !.batch = t, !.event = 0]
    BY <2>1
  <2> HIDE DEF b, t
  <2>5. t # <<>>
    BY <2>3
  <2>6. Advanced(r) \in Receiver
    <3>1. Advanced(r) = [pc |-> "working", batch |-> t, known |-> receiver[r].known, event |-> 0]
      BY <2>2, <2>4 DEF Receiver
    <3>2. receiver[r].known \in Nat
      BY <2>2 DEF Receiver
    <3> QED BY <2>3, <3>1, <3>2 DEF Receiver
  <2>7. Advanced(r).pc = "working" /\ Advanced(r).batch = t /\ Advanced(r).known = receiver[r].known
    BY <2>2, <2>4 DEF Receiver
  <2> QED BY <2>5, <2>6, <2>7
<1> QED BY <1>3, <1>4

\* Steps of the store keep the types.
LEMMA StoreBase ==
  ASSUME MailTypes, Busy, StoreStep
  PROVE  (MailTypes /\ Busy)'
<1> USE MailboxAssumption
<1>1. ASSUME NEW mail \in Mails, Send(mail)
      PROVE  (MailTypes /\ Busy)'
  <2>1. IsSnapshot(Sent(mail))
    BY SnapshotTypes DEF MailTypes, Sent
  <2>2. box' = Sent(mail) /\ disk' = disk \cup {Sent(mail)} /\ op' = [by |-> None, mail |-> mail]
        /\ UNCHANGED receiver
    BY <1>1 DEF Send, Write
  <2>3. op' \in Operation /\ op'.by = None
    BY <2>2 DEF Operation
  <2> QED BY <2>1, <2>2, <2>3 DEF MailTypes, Busy
<1>2. ASSUME NEW r \in Receivers, WriteFails(r)
      PROVE  (MailTypes /\ Busy)'
  BY <1>2 DEF WriteFails, MailTypes, Busy, Idle, Receiver
<1>3. CASE Synced
  <2>1. op \in Operation /\ op' = None /\ disk' = {box} /\ UNCHANGED box
    BY <1>3 DEF Synced, MailTypes, Surviving
  <2>2. CASE op.by = None
    BY <1>3, <2>1, <2>2 DEF Synced, MailTypes, Busy
  <2>3. CASE op.by # None
    <3>1. op.by \in Receivers /\ op # None
      BY <2>1, <2>3, OperationAssumption DEF Operation
    <3> DEFINE q == op.by
    <3>2. receiver[q] \in Receiver /\ receiver[q].batch # <<>>
      BY <2>3, <3>1 DEF MailTypes, Busy
    <3>3. Advanced(q) \in Receiver /\ (Advanced(q).pc # "idle" => Advanced(q).batch # <<>>)
      BY <3>1, <3>2, AdvancedType
    <3>4. receiver' = [receiver EXCEPT ![q] = Advanced(q)]
      BY <1>3, <2>3 DEF Synced
    <3> HIDE DEF q
    <3> QED BY <2>1, <3>3, <3>4 DEF MailTypes, Busy
  <2> QED BY <2>2, <2>3
<1>4. CASE SyncFails
  BY <1>4 DEF SyncFails, MailTypes, Busy, Idle, Receiver
<1>5. CASE HostDies
  BY <1>5 DEF HostDies, MailTypes, Busy, Idle, Receiver
<1>6. CASE PowerLost
  BY <1>6 DEF PowerLost, MailTypes, Busy, Idle, Receiver
<1> QED BY <1>1, <1>2, <1>3, <1>4, <1>5, <1>6 DEF StoreStep

-----------------------------------------------------------------------------
(* The journals only grow.                                                  *)

Grew(s) ==
  /\ Len(journal[s]) <= Len(journal'[s])
  /\ \A i \in 1 .. Len(journal[s]) : journal'[s][i] = journal[s][i]

\* What an append does to the journals.
LEMMA RecordGrows ==
  ASSUME DispatchTypes, NEW s \in Sessions, NEW e, Record(s, e)
  PROVE  /\ Len(journal'[s]) = Len(journal[s]) + 1 /\ journal'[s][Len(journal[s]) + 1] = e
         /\ Grew(s)
         /\ \A o \in Sessions : o # s => journal'[o] = journal[o]
         /\ \A o \in Sessions : Grew(o)
<1>1. journal \in [Sessions -> Seq(Event)] /\ journal'[s] = Append(journal[s], e)
      /\ \A o \in Sessions : o # s => journal'[o] = journal[o]
  BY DEF DispatchTypes, Record
<1>2. Len(journal'[s]) = Len(journal[s]) + 1 /\ journal'[s][Len(journal[s]) + 1] = e
      /\ \A i \in 1 .. Len(journal[s]) : journal'[s][i] = journal[s][i]
  BY <1>1
<1>3. \A o \in Sessions : Len(journal[o]) \in Nat
  BY <1>1
<1>4. Grew(s)
  BY <1>2, <1>3 DEF Grew
<1>5. \A o \in Sessions : o # s => Grew(o)
  BY <1>1, <1>3 DEF Grew
<1> QED BY <1>1, <1>2, <1>4, <1>5

\* A journal that is left alone has not lost anything either.
LEMMA StillGrew ==
  ASSUME DispatchTypes, UNCHANGED journal
  PROVE  \A s \in Sessions : Grew(s)
BY DEF DispatchTypes, Grew

-----------------------------------------------------------------------------
(* What receivers know and what they are about to acknowledge.              *)

Known == \A r \in Receivers : receiver[r].known <= Len(journal[Parent])

\* An event that is about to be acknowledged tells what the mail says.
Telling ==
  \A r \in Receivers : receiver[r].pc \in {"acknowledging", "waiting"} =>
    /\ receiver[r].event \in 1 .. Len(journal[Parent])
    /\ Tells(journal[Parent][receiver[r].event], Current(r))

\* The mail of the running write is recorded, and marked by an acknowledgement.
Marked ==
  op # None =>
    /\ RecordAt(box, op.mail) # 0
    /\ op.by # None => box[RecordAt(box, op.mail)].delivery # 0

\* DeliveredIsRecorded, in terms of Tells.
Delivery ==
  \A snapshot \in disk \cup {box} : \A i \in 1 .. Len(snapshot) :
    snapshot[i].delivery # 0 =>
      /\ snapshot[i].delivery \in 1 .. Len(journal[Parent])
      /\ Tells(journal[Parent][snapshot[i].delivery], snapshot[i].mail)

\* AcceptedSurvive, with the types of the histories.
Kept ==
  /\ box \in disk
  /\ \A a \in accepted : a[1] \in Nat \ {0}
  /\ \A c \in confirmed : c[1] \in Nat \ {0} /\ c[2] # 0
  /\ \A snapshot \in disk :
       /\ \A a \in accepted : a[1] <= Len(snapshot) /\ snapshot[a[1]].mail = a[2]
       /\ \A c \in confirmed : c[1] <= Len(snapshot) /\ snapshot[c[1]].delivery = c[2]

MailInv == Known /\ Telling /\ Marked /\ Delivery /\ Kept

\* Reads of the journal, and the mail in hand, are typed.
LEMMA KnownTypes ==
  ASSUME DispatchTypes, MailTypes, Busy, Known, NEW r \in Receivers
  PROVE  /\ KnownTo(r) \in Seq(Event) /\ Len(KnownTo(r)) = receiver[r].known
         /\ \A i \in 1 .. receiver[r].known : KnownTo(r)[i] = journal[Parent][i]
         /\ receiver[r].pc # "idle" => Current(r) \in Mails
         /\ receiver[r].known \in 0 .. Len(journal[Parent])
<1>1. journal[Parent] \in Seq(Event) /\ receiver[r].known \in Nat /\ receiver[r].batch \in Seq(Mails)
  BY DEF DispatchTypes, MailTypes, Sessions, Receiver
<1>2. receiver[r].known \in 0 .. Len(journal[Parent])
  BY <1>1 DEF Known
<1> DEFINE J == journal[Parent]
           n == receiver[r].known
<1>3. SubSeq(J, 1, n) \in Seq(Event) /\ Len(SubSeq(J, 1, n)) = n
      /\ \A i \in 1 .. n : SubSeq(J, 1, n)[i] = J[i]
  <2>1. J \in Seq(Event) /\ n \in 0 .. Len(J)
    BY <1>1, <1>2
  <2> HIDE DEF J, n
  <2> QED BY <2>1
<1>4. receiver[r].pc # "idle" => Current(r) \in Mails
  BY <1>1, HeadTailProperties DEF Busy, Current
<1> QED BY <1>2, <1>3, <1>4 DEF KnownTo, Read

\* A mail has one record.
LEMMA RecordIs ==
  ASSUME NEW snapshot, IsSnapshot(snapshot), NEW i \in 1 .. Len(snapshot)
  PROVE  RecordAt(snapshot, snapshot[i].mail) = i
<1>1. snapshot[i].mail \in Mails /\ Len(snapshot) \in Nat
  <2>1. snapshot \in Seq(MailboxRecord)
    BY DEF IsSnapshot
  <2>2. snapshot[i] \in MailboxRecord /\ Len(snapshot) \in Nat
    BY <2>1
  <2> QED BY <2>2 DEF MailboxRecord
<1> DEFINE k == RecordAt(snapshot, snapshot[i].mail)
<1>2. k \in 1 .. Len(snapshot) /\ snapshot[k].mail = snapshot[i].mail
  <2>1. /\ k \in 0 .. Len(snapshot)
        /\ k = 0 => \A j \in 1 .. Len(snapshot) : snapshot[j].mail # snapshot[i].mail
        /\ k # 0 => snapshot[k].mail = snapshot[i].mail
    BY <1>1, SnapshotTypes
  <2> HIDE DEF k
  <2> QED BY <1>1, <2>1
<1> HIDE DEF k
<1>3. k = i
  BY <1>2 DEF IsSnapshot
<1> QED BY <1>3 DEF k

\* Whoever writes the journal, what the mailbox says of it stays true.
LEMMA MailGrows ==
  ASSUME DispatchTypes, MailTypes, MailInv, Grew(Parent), UNCHANGED mailboxVars
  PROVE  (MailTypes /\ MailInv)' /\ (Busy => Busy')
<1>1. \A r \in Receivers : receiver[r].known \in Nat /\ receiver[r].event \in Nat
  BY DEF MailTypes, Receiver
<1>2. Len(journal[Parent]) \in Nat /\ UNCHANGED <<box, disk, op, receiver, accepted, confirmed>>
  BY DEF DispatchTypes, Sessions, mailboxVars
<1>3. MailTypes' /\ (Busy => Busy') /\ Marked' /\ Kept'
  BY <1>2 DEF MailTypes, Busy, MailInv, Marked, Kept
<1>4. Known'
  BY <1>1, <1>2 DEF MailInv, Known, Grew
<1>5. Telling' /\ Delivery'
  BY <1>1, <1>2 DEF MailInv, Telling, Delivery, Grew, Current
<1> QED BY <1>3, <1>4, <1>5 DEF MailInv

-----------------------------------------------------------------------------
(* The mailbox invariant, kept by the store.                                *)

\* A written snapshot has every record of the one it replaces, in place, and
\* every mark.
Extends(new, old) ==
  /\ IsSnapshot(new) /\ Len(old) <= Len(new)
  /\ \A i \in 1 .. Len(old) :
       /\ new[i].mail = old[i].mail
       /\ old[i].delivery # 0 => new[i].delivery = old[i].delivery

\* What send writes.
LEMMA SentExtends ==
  ASSUME IsSnapshot(box), NEW mail \in Mails
  PROVE  /\ Extends(Sent(mail), box)
         /\ RecordAt(Sent(mail), mail) # 0
         /\ \A i \in 1 .. Len(Sent(mail)) :
              Sent(mail)[i].delivery # 0 => i <= Len(box) /\ Sent(mail)[i] = box[i]
<1>1. box \in Seq(MailboxRecord) /\ Len(box) \in Nat
  BY DEF IsSnapshot
<1>2. CASE RecordAt(box, mail) # 0
  BY <1>1, <1>2 DEF Sent, Extends
<1>3. CASE RecordAt(box, mail) = 0
  <2> DEFINE record == [mail |-> mail, delivery |-> 0]
             new == Append(box, record)
  <2>1. Sent(mail) = new /\ IsSnapshot(new)
    BY <1>3, SnapshotTypes DEF Sent
  <2>2. record.mail = mail /\ record.delivery = 0 /\ record \in MailboxRecord
    BY DEF MailboxRecord
  <2> HIDE DEF record
  <2>3. Len(new) = Len(box) + 1 /\ new[Len(box) + 1] = record
        /\ \A i \in 1 .. Len(box) : new[i] = box[i]
    BY <1>1, <2>2
  <2> HIDE DEF new
  <2>4. RecordAt(new, new[Len(box) + 1].mail) = Len(box) + 1
    BY <1>1, <2>1, <2>3, RecordIs
  <2> QED BY <1>1, <2>1, <2>2, <2>3, <2>4 DEF Extends
<1> QED BY <1>2, <1>3

\* What acknowledge writes.
LEMMA MarkedExtends ==
  ASSUME IsSnapshot(box), NEW i \in 1 .. Len(box), NEW event \in Nat \ {0},
         box[i].delivery \in {0, event}
  PROVE  LET new == [box EXCEPT ![i].delivery = event]
         IN  /\ Extends(new, box) /\ Len(new) = Len(box) /\ new[i].delivery = event
             /\ RecordAt(new, box[i].mail) = i
             /\ \A j \in 1 .. Len(box) : j # i => new[j] = box[j]
<1> DEFINE new == [box EXCEPT ![i].delivery = event]
<1>1. box \in Seq(MailboxRecord) /\ Len(box) \in Nat
  BY DEF IsSnapshot
<1>2. \A j \in 1 .. Len(box) : box[j] \in MailboxRecord
  BY <1>1
<1>3. /\ Len(new) = Len(box) /\ new[i].delivery = event /\ new[i].mail = box[i].mail
      /\ \A j \in 1 .. Len(box) : j # i => new[j] = box[j]
  BY <1>1, <1>2 DEF MailboxRecord
<1>4. IsSnapshot(new)
  BY <1>2, SnapshotTypes DEF MailboxRecord
<1> HIDE DEF new
<1>5. RecordAt(new, new[i].mail) = i
  BY <1>1, <1>3, <1>4, RecordIs
<1>6. Extends(new, box)
  BY <1>1, <1>3, <1>4 DEF Extends
<1>7. /\ Extends(new, box) /\ Len(new) = Len(box) /\ new[i].delivery = event
      /\ RecordAt(new, box[i].mail) = i
      /\ \A j \in 1 .. Len(box) : j # i => new[j] = box[j]
  BY <1>3, <1>5, <1>6
<1> QED BY <1>7 DEF new

\* A write keeps what was accepted and confirmed.
LEMMA WriteKeeps ==
  ASSUME Kept, NEW new, Extends(new, box), box' = new, disk' = disk \cup {new},
         UNCHANGED <<accepted, confirmed>>, IsSnapshot(box)
  PROVE  Kept'
<1>1. Len(box) \in Nat
  BY DEF IsSnapshot
<1>2. \A a \in accepted : a[1] \in 1 .. Len(box) /\ box[a[1]].mail = a[2]
  BY <1>1 DEF Kept
<1>3. \A c \in confirmed : c[1] \in 1 .. Len(box) /\ box[c[1]].delivery = c[2] /\ c[2] # 0
  BY <1>1 DEF Kept
<1>4. Len(new) \in Nat
  BY DEF Extends, IsSnapshot
<1>5. \A a \in accepted : a[1] <= Len(new) /\ new[a[1]].mail = a[2]
  BY <1>1, <1>2, <1>4 DEF Extends
<1>6. \A c \in confirmed : c[1] <= Len(new) /\ new[c[1]].delivery = c[2]
  BY <1>1, <1>3, <1>4 DEF Extends
<1> QED BY <1>5, <1>6 DEF Kept

\* The steps of the store keep the invariant.
LEMMA StoreInv ==
  ASSUME DispatchTypes, MailTypes, Busy, MailInv, StoreStep, UNCHANGED journal
  PROVE  MailInv'
<1> USE MailboxAssumption
<1>0. IsSnapshot(box)
  BY DEF MailTypes
<1>t. \A r \in Receivers : receiver[r] \in Receiver /\ receiver \in [Receivers -> Receiver]
  BY DEF MailTypes
<1>J. Len(journal[Parent]) \in Nat /\ 0 <= Len(journal[Parent])
  BY DEF DispatchTypes, Sessions
<1>1. ASSUME NEW mail \in Mails, Send(mail)
      PROVE  MailInv'
  <2>1. box' = Sent(mail) /\ disk' = disk \cup {Sent(mail)} /\ op' = [by |-> None, mail |-> mail]
        /\ UNCHANGED <<receiver, accepted, confirmed>>
    BY <1>1 DEF Send, Write
  <2>2. Kept'
    BY <1>0, <2>1, SentExtends, WriteKeeps DEF MailInv
  <2>3. Delivery'
    <3>1. \A i \in 1 .. Len(Sent(mail)) :
            Sent(mail)[i].delivery # 0 =>
              /\ Sent(mail)[i].delivery \in 1 .. Len(journal[Parent])
              /\ Tells(journal[Parent][Sent(mail)[i].delivery], Sent(mail)[i].mail)
      <4>1. Len(box) \in Nat /\ Len(Sent(mail)) \in Nat
        BY <1>0, SentExtends DEF IsSnapshot, Extends
      <4> QED BY <1>0, <4>1, SentExtends DEF MailInv, Delivery
    <3> QED BY <2>1, <3>1 DEF MailInv, Delivery
  <2>4. Marked'
    BY <1>0, <2>1, SentExtends DEF Marked
  <2> QED BY <2>1, <2>2, <2>3, <2>4 DEF MailInv, Known, Telling, Current
<1>2. ASSUME NEW r \in Receivers, WriteFails(r)
      PROVE  MailInv'
  BY <1>2, <1>t, <1>J DEF WriteFails, MailInv, Known, Telling, Marked, Delivery, Kept, Idle, Current
<1>4. CASE SyncFails
  BY <1>4, <1>t, <1>J DEF SyncFails, MailInv, Known, Telling, Marked, Delivery, Kept, Idle, Current
<1>5. CASE HostDies
  BY <1>5, <1>t, <1>J DEF HostDies, MailInv, Known, Telling, Marked, Delivery, Kept, Idle, Current
<1>6. CASE PowerLost
  BY <1>6, <1>t, <1>J DEF PowerLost, MailInv, Known, Telling, Marked, Delivery, Kept, Idle, Current
<1>3. CASE Synced
  <2>1. op \in Operation /\ op # None /\ op.mail \in Mails /\ op.by \in Receivers \cup {None}
    BY <1>3, OperationAssumption DEF Synced, MailTypes, Operation
  <2>2. disk' = {box} /\ op' = None /\ UNCHANGED box
    BY <1>3 DEF Synced, Surviving
  <2> DEFINE i == RecordAt(box, op.mail)
  <2>3. i \in 1 .. Len(box) /\ box[i].mail = op.mail /\ Len(box) \in Nat
        /\ (op.by # None => box[i].delivery # 0)
    <3>1. i # 0 /\ (op.by # None => box[i].delivery # 0)
      BY <2>1 DEF MailInv, Marked
    <3>2. i \in 0 .. Len(box) /\ (i # 0 => box[i].mail = op.mail)
      BY <1>0, <2>1, SnapshotTypes
    <3>3. Len(box) \in Nat
      BY <1>0 DEF IsSnapshot
    <3> HIDE DEF i
    <3> QED BY <3>1, <3>2, <3>3
  <2>4. Marked' /\ Delivery'
    BY <2>2 DEF MailInv, Marked, Delivery
  <2>5. CASE op.by = None
    <3>1. accepted' = accepted \cup {<<i, op.mail>>} /\ UNCHANGED <<receiver, confirmed>>
      BY <1>3, <2>5 DEF Synced
    <3> HIDE DEF i
    <3>2. Kept'
      BY <2>2, <2>3, <3>1 DEF MailInv, Kept
    <3> QED BY <2>4, <3>1, <3>2 DEF MailInv, Known, Telling, Current
  <2>6. CASE op.by # None
    <3> DEFINE q == op.by
    <3>1. confirmed' = confirmed \cup {<<i, box[i].delivery>>} /\ UNCHANGED accepted
          /\ receiver' = [receiver EXCEPT ![q] = Advanced(q)]
      BY <1>3, <2>6 DEF Synced
    <3>2. q \in Receivers /\ receiver[q].pc = "waiting" /\ receiver[q].batch # <<>>
      BY <2>1, <2>6 DEF Busy
    <3>3. /\ Advanced(q).pc \in {"idle", "working"}
          /\ Advanced(q).known <= Len(journal[Parent])
      <4>1. receiver[q] \in Receiver /\ receiver[q].known <= Len(journal[Parent])
        BY <1>t, <3>2 DEF MailInv, Known
      <4> HIDE DEF q
      <4> QED BY <1>J, <3>2, <4>1, AdvancedType
    <3> HIDE DEF i, q
    <3>4. Kept'
      BY <2>2, <2>3, <2>6, <3>1 DEF MailInv, Kept
    <3>5. Known' /\ Telling'
      BY <1>t, <3>1, <3>2, <3>3 DEF MailInv, Known, Telling, Current
    <3> QED BY <2>4, <3>4, <3>5 DEF MailInv
  <2> QED BY <2>5, <2>6
<1> QED BY <1>1, <1>2, <1>3, <1>4, <1>5, <1>6 DEF StoreStep

-----------------------------------------------------------------------------
(* The mailbox invariant, kept by the receivers.                            *)

\* A receiver moves to a place: the others stay where they are.
Stands(r, pc, batch, known, event) ==
  /\ receiver' \in [Receivers -> Receiver]
  /\ receiver'[r].pc = pc /\ receiver'[r].batch = batch
  /\ receiver'[r].known = known /\ receiver'[r].event = event
  /\ \A o \in Receivers : o # r => receiver'[o] = receiver[o]

\* Wherever it moves, if it does not wait and knows what it must.
LEMMA StandsKeeps ==
  ASSUME DispatchTypes, MailTypes, Busy, Known, Telling, Grew(Parent), UNCHANGED <<box, disk, op>>,
         NEW r \in Receivers, NEW pc \in {"idle", "reading", "working", "acknowledging"},
         NEW batch, NEW known \in Nat, NEW event \in Nat,
         Stands(r, pc, batch, known, event), receiver[r].pc # "waiting",
         known <= Len(journal'[Parent]),
         pc # "idle" => batch # <<>>,
         pc = "acknowledging" =>
           event \in 1 .. Len(journal'[Parent]) /\ Tells(journal'[Parent][event], Head(batch))
  PROVE  (MailTypes /\ Busy /\ Known /\ Telling)'
<1>1. \A o \in Receivers : receiver[o].known \in Nat /\ receiver[o].event \in Nat
  BY DEF MailTypes, Receiver
<1>2. Len(journal[Parent]) \in Nat
  BY DEF DispatchTypes, Sessions
<1>3. MailTypes'
  BY DEF MailTypes, Stands
<1>4. Busy'
  BY DEF Busy, Stands, MailTypes, Operation
<1>5. Known'
  BY <1>1, <1>2 DEF Known, Stands, Grew
<1>6. Telling'
  <2>1. ASSUME NEW o \in Receivers, o # r, receiver'[o].pc \in {"acknowledging", "waiting"}
        PROVE  /\ receiver'[o].event \in 1 .. Len(journal'[Parent])
               /\ Tells(journal'[Parent][receiver'[o].event], Head(receiver'[o].batch))
    BY <1>1, <1>2, <2>1 DEF Telling, Stands, Grew, Current
  <2>2. receiver'[r].pc \in {"acknowledging", "waiting"} =>
          /\ receiver'[r].event \in 1 .. Len(journal'[Parent])
          /\ Tells(journal'[Parent][receiver'[r].event], Head(receiver'[r].batch))
    BY DEF Stands
  <2> QED BY <2>1, <2>2 DEF Telling, Current
<1> QED BY <1>3, <1>4, <1>5, <1>6

\* The steps of a receiver that neither write nor record.
LEMMA ReceiverMoves ==
  ASSUME MailTypes, NEW r \in Receivers
  PROVE  /\ ReadPending(r) => Stands(r, "reading", NextBatch(box), 0, 0)
         /\ ReadJournal(r) /\ Len(journal[Parent]) \in Nat =>
              Stands(r, "working", receiver[r].batch, Len(journal[Parent]), receiver[r].event)
         /\ Recognise(r) /\ Recognised(Current(r), KnownTo(r)) \in Nat =>
              Stands(r, "acknowledging", receiver[r].batch, receiver[r].known,
                     Recognised(Current(r), KnownTo(r)))
         /\ receiver' = [receiver EXCEPT ![r] = Idle] => Stands(r, "idle", <<>>, 0, 0)
         /\ receiver' = [receiver EXCEPT ![r].pc = "waiting"] =>
              Stands(r, "waiting", receiver[r].batch, receiver[r].known, receiver[r].event)
         /\ Incorporate(r) =>
              Stands(r, "acknowledging", receiver[r].batch, receiver[r].known + 1, receiver[r].known + 1)
<1> DEFINE B == Seq(Mails)
<1>0. Receiver = [pc : {"idle", "reading", "working", "acknowledging", "waiting"},
                  batch : B, known : Nat, event : Nat] /\ <<>> \in B
  BY DEF Receiver
<1>1. receiver \in [Receivers -> Receiver] /\ receiver[r] \in Receiver /\ NextBatch(box) \in B
  BY NextBatchType DEF MailTypes, IsSnapshot
<1> HIDE DEF B
<1>2. ASSUME ReadPending(r)
      PROVE  Stands(r, "reading", NextBatch(box), 0, 0)
  <2> DEFINE batch == NextBatch(box)
  <2>1. receiver' = [receiver EXCEPT ![r] = [Idle EXCEPT !.pc = "reading", !.batch = batch]]
        /\ batch \in B
    BY <1>1, <1>2 DEF ReadPending
  <2> HIDE DEF batch
  <2>2. Stands(r, "reading", batch, 0, 0)
    BY <1>0, <1>1, <2>1 DEF Stands, Idle
  <2> QED BY <2>2 DEF batch
<1>3. ASSUME ReadJournal(r), Len(journal[Parent]) \in Nat
      PROVE  Stands(r, "working", receiver[r].batch, Len(journal[Parent]), receiver[r].event)
  <2> DEFINE n == Len(journal[Parent])
  <2>1. receiver' = [receiver EXCEPT ![r].pc = "working", ![r].known = n] /\ n \in Nat
    BY <1>3 DEF ReadJournal
  <2> HIDE DEF n
  <2>2. Stands(r, "working", receiver[r].batch, n, receiver[r].event)
    BY <1>0, <1>1, <2>1 DEF Stands
  <2> QED BY <2>2 DEF n
<1>4. ASSUME Recognise(r), Recognised(Current(r), KnownTo(r)) \in Nat
      PROVE  Stands(r, "acknowledging", receiver[r].batch, receiver[r].known,
                    Recognised(Current(r), KnownTo(r)))
  <2> DEFINE event == Recognised(Current(r), KnownTo(r))
  <2>1. receiver' = [receiver EXCEPT ![r].pc = "acknowledging", ![r].event = event] /\ event \in Nat
    BY <1>4 DEF Recognise
  <2> HIDE DEF event
  <2>2. Stands(r, "acknowledging", receiver[r].batch, receiver[r].known, event)
    BY <1>0, <1>1, <2>1 DEF Stands
  <2> QED BY <2>2 DEF event
<1>5. receiver' = [receiver EXCEPT ![r] = Idle] => Stands(r, "idle", <<>>, 0, 0)
  BY <1>0, <1>1 DEF Stands, Idle
<1>6. receiver' = [receiver EXCEPT ![r].pc = "waiting"] =>
        Stands(r, "waiting", receiver[r].batch, receiver[r].known, receiver[r].event)
  BY <1>0, <1>1 DEF Stands
<1>7. ASSUME Incorporate(r)
      PROVE  Stands(r, "acknowledging", receiver[r].batch, receiver[r].known + 1, receiver[r].known + 1)
  <2>1. receiver' = [receiver EXCEPT ![r].pc = "acknowledging",
                                     ![r].event = receiver[r].known + 1, ![r].known = @ + 1]
    BY <1>7 DEF Incorporate
  <2> QED BY <1>0, <1>1, <2>1 DEF Stands
<1> QED BY <1>2, <1>3, <1>4, <1>5, <1>6, <1>7

LEMMA QuietInv ==
  ASSUME DispatchTypes, MailTypes, Busy, MailInv, NEW r \in Receivers, Quiet(r), UNCHANGED journal
  PROVE  (MailTypes /\ Busy /\ MailInv)'
<1>1. Known /\ Telling /\ Marked /\ Delivery /\ Kept /\ Grew(Parent)
  BY StillGrew DEF MailInv, Sessions
<1>2. receiver[r].known \in Nat /\ receiver[r].event \in Nat /\ Len(journal[Parent]) \in Nat
      /\ 0 <= Len(journal[Parent]) /\ receiver[r].known <= Len(journal[Parent])
  BY <1>1 DEF MailTypes, Receiver, DispatchTypes, Sessions, Known
<1>3. ASSUME UNCHANGED <<box, disk, op, accepted, confirmed>>,
             (MailTypes /\ Busy /\ Known /\ Telling)'
      PROVE  (MailTypes /\ Busy /\ MailInv)'
  BY <1>1, <1>3 DEF MailInv, Marked, Delivery, Kept
<1>4. CASE ReadPending(r)
  <2>1. Stands(r, "reading", NextBatch(box), 0, 0) /\ NextBatch(box) # <<>>
        /\ receiver[r].pc # "waiting" /\ UNCHANGED <<box, disk, op, accepted, confirmed>>
    BY <1>4, ReceiverMoves DEF ReadPending
  <2>2. (MailTypes /\ Busy /\ Known /\ Telling)'
    BY <1>1, <1>2, <2>1, StandsKeeps
  <2> QED BY <1>3, <2>1, <2>2
<1>5. CASE ReadJournal(r)
  <2>1. Stands(r, "working", receiver[r].batch, Len(journal[Parent]), receiver[r].event)
        /\ receiver[r].pc = "reading" /\ UNCHANGED <<box, disk, op, accepted, confirmed>>
    BY <1>2, <1>5, ReceiverMoves DEF ReadJournal
  <2>2. receiver[r].batch # <<>>
    BY <2>1 DEF Busy
  <2>3. (MailTypes /\ Busy /\ Known /\ Telling)'
    BY <1>1, <1>2, <2>1, <2>2, StandsKeeps
  <2> QED BY <1>3, <2>1, <2>3
<1>6. CASE Recognise(r)
  <2> DEFINE event == Recognised(Current(r), KnownTo(r))
  <2>1. receiver[r].pc = "working" /\ event # 0 /\ ~Conflicting(Current(r), KnownTo(r))
        /\ UNCHANGED <<box, disk, op, accepted, confirmed>>
    BY <1>6 DEF Recognise, Working
  <2>2. Current(r) \in Mails /\ KnownTo(r) \in Seq(Event) /\ Len(KnownTo(r)) = receiver[r].known
        /\ \A i \in 1 .. receiver[r].known : KnownTo(r)[i] = journal[Parent][i]
    BY <1>1, <2>1, KnownTypes
  <2>3. event \in 0 .. Len(KnownTo(r)) /\ Tells(KnownTo(r)[event], Current(r))
    BY <2>1, <2>2, RecognisedTells
  <2>4. Stands(r, "acknowledging", receiver[r].batch, receiver[r].known, event)
    BY <1>2, <1>6, <2>2, <2>3, ReceiverMoves
  <2> HIDE DEF event
  <2>5. event \in 1 .. Len(journal[Parent]) /\ Tells(journal[Parent][event], Head(receiver[r].batch))
    BY <1>2, <2>1, <2>2, <2>3 DEF Current
  <2>6. receiver[r].batch # <<>> /\ event \in Nat /\ UNCHANGED journal
    BY <2>1, <2>5 DEF Busy
  <2>7. (MailTypes /\ Busy /\ Known /\ Telling)'
    BY <1>1, <1>2, <2>1, <2>4, <2>5, <2>6, StandsKeeps
  <2> QED BY <1>3, <2>1, <2>7
<1>7. CASE Conflict(r) \/ LoseRace(r)
  <2>1. Stands(r, "idle", <<>>, 0, 0) /\ receiver[r].pc # "waiting"
        /\ UNCHANGED <<box, disk, op, accepted, confirmed>>
    BY <1>7, ReceiverMoves DEF Conflict, LoseRace, Working
  <2>2. (MailTypes /\ Busy /\ Known /\ Telling)'
    BY <1>1, <1>2, <2>1, StandsKeeps
  <2> QED BY <1>3, <2>1, <2>2
<1>8. CASE Acknowledge(r)
  <2> DEFINE i == RecordAt(box, Current(r))
             event == receiver[r].event
             new == [box EXCEPT ![i].delivery = event]
  <2>1. receiver[r].pc = "acknowledging" /\ op = None /\ UNCHANGED <<accepted, confirmed>>
    BY <1>8 DEF Acknowledge
  <2>2. CASE ~MayAcknowledge(i, event)
    <3>1. Stands(r, "idle", <<>>, 0, 0) /\ UNCHANGED <<box, disk, op>>
      BY <1>8, <2>2, ReceiverMoves DEF Acknowledge
    <3>2. (MailTypes /\ Busy /\ Known /\ Telling)'
      BY <1>1, <1>2, <2>1, <3>1, StandsKeeps
    <3> QED BY <1>3, <2>1, <3>1, <3>2
  <2>3. CASE MayAcknowledge(i, event)
    <3>1. box' = new /\ disk' = disk \cup {new} /\ op' = [by |-> r, mail |-> Current(r)]
          /\ receiver' = [receiver EXCEPT ![r].pc = "waiting"]
      BY <1>8, <2>3 DEF Acknowledge, Write
    <3>2. Stands(r, "waiting", receiver[r].batch, receiver[r].known, receiver[r].event)
      BY <3>1, ReceiverMoves
    <3>3. event \in 1 .. Len(journal[Parent]) /\ Tells(journal[Parent][event], Current(r))
      BY <1>1, <2>1 DEF Telling
    <3>4. Current(r) \in Mails /\ IsSnapshot(box)
      BY <1>1, <2>1, KnownTypes DEF MailTypes
    <3>5. i \in 1 .. Len(box) /\ box[i].mail = Current(r) /\ box[i].delivery \in {0, event}
          /\ event \in Nat \ {0}
      <4>1. i # 0 /\ box[i].delivery \in {0, event}
        BY <2>3 DEF MayAcknowledge
      <4>2. i \in 0 .. Len(box) /\ (i # 0 => box[i].mail = Current(r))
        BY <3>4, SnapshotTypes
      <4>3. Len(box) \in Nat
        BY <3>4 DEF IsSnapshot
      <4> HIDE DEF i
      <4> QED BY <1>2, <3>3, <4>1, <4>2, <4>3
    <3>6. op' \in Operation /\ op'.by = r /\ op'.mail = box[i].mail
      BY <3>1, <3>4, <3>5 DEF Operation
    <3> HIDE DEF i, event
    <3>7. /\ Extends(new, box) /\ Len(new) = Len(box) /\ new[i].delivery = event
          /\ RecordAt(new, box[i].mail) = i
          /\ \A j \in 1 .. Len(box) : j # i => new[j] = box[j]
      BY <3>4, <3>5, MarkedExtends
    <3> HIDE DEF new
    <3>8. (MailTypes /\ Busy)'
      <4>1. receiver[r].batch # <<>>
        BY <2>1 DEF Busy
      <4> QED BY <3>1, <3>2, <3>6, <3>7, <4>1 DEF MailTypes, Busy, Stands, Extends
    <3>9. Known' /\ Telling'
      <4>1. Known'
        BY <1>1, <1>2, <3>2 DEF Known, Stands
      <4>2. event = receiver[r].event
        BY DEF event
      <4> QED BY <1>1, <3>2, <3>3, <4>1, <4>2 DEF Telling, Stands, Current
    <3>10. Marked'
      BY <3>1, <3>5, <3>6, <3>7 DEF Marked
    <3>11. Kept'
      BY <1>1, <2>1, <3>1, <3>4, <3>7, WriteKeeps
    <3>12. Delivery'
      <4>1. \A j \in 1 .. Len(new) : new[j].delivery # 0 =>
              /\ new[j].delivery \in 1 .. Len(journal[Parent])
              /\ Tells(journal[Parent][new[j].delivery], new[j].mail)
        <5>1. \A j \in 1 .. Len(box) : box[j].delivery # 0 =>
                /\ box[j].delivery \in 1 .. Len(journal[Parent])
                /\ Tells(journal[Parent][box[j].delivery], box[j].mail)
          BY <1>1 DEF Delivery
        <5>2. new[i].mail = Current(r)
          BY <3>5, <3>7 DEF Extends
        <5> QED BY <3>3, <3>7, <5>1, <5>2
      <4> QED BY <1>1, <3>1, <4>1 DEF Delivery
    <3> QED BY <3>8, <3>9, <3>10, <3>11, <3>12 DEF MailInv
  <2> QED BY <2>2, <2>3
<1> QED BY <1>4, <1>5, <1>6, <1>7, <1>8 DEF Quiet

LEMMA IncorporateInv ==
  ASSUME DispatchTypes, MailTypes, Busy, MailInv, NEW r \in Receivers, Incorporate(r)
  PROVE  (MailTypes /\ Busy /\ MailInv)' /\ journal' \in [Sessions -> Seq(Event)]
<1>1. Known /\ Telling /\ Marked /\ Delivery /\ Kept
  BY DEF MailInv
<1>2. receiver[r].known \in Nat /\ Len(journal[Parent]) \in Nat /\ Parent \in Sessions
  BY DEF MailTypes, Receiver, DispatchTypes, Sessions
<1>3. receiver[r].pc = "working" /\ Len(journal[Parent]) = receiver[r].known
      /\ Record(Parent, MailboxEvent(Current(r))) /\ UNCHANGED <<box, disk, op, accepted, confirmed>>
  BY DEF Incorporate, Working, HeadIs
<1>4. Current(r) \in Mails /\ receiver[r].batch # <<>>
  BY <1>1, <1>3, KnownTypes DEF Busy
<1>5. MailboxEvent(Current(r)) \in Event
  BY <1>4, EventTypes
<1>6. journal' \in [Sessions -> Seq(Event)]
  BY <1>2, <1>3, <1>5, RecordType
<1> DEFINE n == receiver[r].known + 1
<1>7. Grew(Parent) /\ Len(journal'[Parent]) = n /\ journal'[Parent][n] = MailboxEvent(Current(r))
  BY <1>2, <1>3, RecordGrows
<1>8. Tells(MailboxEvent(Current(r)), Head(receiver[r].batch))
  BY DEF Tells, MailboxEvent, Current
<1>9. Stands(r, "acknowledging", receiver[r].batch, n, n)
  BY ReceiverMoves
<1>10. n \in Nat /\ n \in 1 .. Len(journal'[Parent]) /\ n <= Len(journal'[Parent])
  BY <1>2, <1>7
<1> HIDE DEF n
<1>11. (MailTypes /\ Busy /\ Known /\ Telling)'
  BY <1>1, <1>3, <1>4, <1>7, <1>8, <1>9, <1>10, StandsKeeps
<1>12. (Marked /\ Kept)'
  BY <1>1, <1>3 DEF Marked, Kept
<1>13. Delivery'
  BY <1>1, <1>2, <1>3, <1>7 DEF Delivery, Grew
<1> QED BY <1>6, <1>11, <1>12, <1>13 DEF MailInv

-----------------------------------------------------------------------------
(* The parent is told once.                                                 *)

Completions(told) == {i \in 1 .. Len(told) : told[i].type = "child.completed"}

\* No mail is told of twice, no completion is told of twice, and a completer
\* that is about to append has seen none in the part of the journal it knows.
OnceInv ==
  /\ \A i, j \in 1 .. Len(journal[Parent]) :
       journal[Parent][i].mail = journal[Parent][j].mail /\ journal[Parent][i].mail # None => i = j
  /\ \A i, j \in Completions(journal[Parent]) : i = j
  /\ \A c \in Completers : completer[c].pc = "appending" =>
       /\ completer[c].known <= Len(journal[Parent])
       /\ \A i \in Completions(journal[Parent]) : completer[c].known < i

\* An append that tells of no mail told of, and of no second completion.
LEMMA OnceGrows ==
  ASSUME DispatchTypes, OnceInv, NEW e, Record(Parent, e), UNCHANGED completer,
         e.mail = None \/ \A i \in 1 .. Len(journal[Parent]) : journal[Parent][i].mail # e.mail,
         e.type = "child.completed" => Completions(journal[Parent]) = {}
  PROVE  OnceInv'
<1> DEFINE J == journal[Parent]
           n == Len(journal[Parent])
<1>1. n \in Nat /\ Len(journal'[Parent]) = n + 1 /\ journal'[Parent][n + 1] = e
      /\ \A i \in 1 .. n : journal'[Parent][i] = J[i]
  BY RecordGrows DEF DispatchTypes, Sessions, Grew
<1>2. \A c \in Completers : completer[c].known \in Nat
  BY DEF DispatchTypes, Completer
<1> HIDE DEF n
<1>3. \A i \in 1 .. n + 1 : i \in 1 .. n \/ i = n + 1
  BY <1>1
<1>4. \A i \in Completions(journal'[Parent]) :
        i \in Completions(J) \/ (i = n + 1 /\ e.type = "child.completed")
  BY <1>1, <1>3 DEF Completions, n
<1>5. \A i, j \in 1 .. n + 1 :
        journal'[Parent][i].mail = journal'[Parent][j].mail /\ journal'[Parent][i].mail # None
          => i = j
  BY <1>1, <1>3 DEF OnceInv, n
<1>6. \A i, j \in Completions(journal'[Parent]) : i = j
  BY <1>4 DEF OnceInv
<1>7. \A c \in Completers : completer[c].pc = "appending" =>
        /\ completer[c].known <= n + 1
        /\ \A i \in Completions(journal'[Parent]) : completer[c].known < i
  BY <1>1, <1>2, <1>4 DEF OnceInv, n
<1> QED BY <1>1, <1>5, <1>6, <1>7 DEF OnceInv

\* Steps that leave the parent's journal and the completers alone.
LEMMA OnceKept ==
  ASSUME OnceInv, journal'[Parent] = journal[Parent], UNCHANGED completer
  PROVE  OnceInv'
BY DEF OnceInv, Completions

\* An event that the dispatchers or the creation write tells of nothing.
LEMMA OncePlain ==
  ASSUME DispatchTypes, OnceInv, NEW session, UNCHANGED completer,
         \/ \E s \in Sessions : Record(s, SessionStarted(session))
         \/ Record(Parent, ChildStarted(session))
  PROVE  OnceInv'
<1>1. CASE Record(Parent, SessionStarted(session))
  BY <1>1, OnceGrows DEF SessionStarted
<1>2. CASE Record(Parent, ChildStarted(session))
  BY <1>2, OnceGrows DEF ChildStarted
<1>3. CASE Record(Child, SessionStarted(session))
  BY <1>3, RecordGrows, OnceKept, SessionJournalsAssumption DEF Sessions
<1> QED BY <1>1, <1>2, <1>3 DEF Sessions

LEMMA DispatchOnce ==
  ASSUME DispatchTypes, OnceInv, NEW d \in Dispatchers, Fork(d) \/ Recover(d) \/ Crash(d)
  PROVE  OnceInv'
<1>1. CASE UNCHANGED journal
  BY <1>1, OnceKept DEF Fork, Recover, Crash, Call, ReadForkPoint, PutForkConfig, PutChild, StartFork,
     LinkFork, Raced, CheckFork, ReadFork, ReadChild, StartChild, ReadParent, LinkParent, Enqueue,
     OnlyDisp
<1>2. CASE ~UNCHANGED journal
  <2>1. UNCHANGED completer
    BY DEF Fork, Recover, Crash, Call, ReadForkPoint, PutForkConfig, PutChild, StartFork,
       LinkFork, Raced, CheckFork, ReadFork, ReadChild, StartChild, ReadParent, LinkParent, Enqueue,
       OnlyDisp
  <2>2. Record(Child, SessionStarted(disp[d].session)) \/ Record(Parent, ChildStarted(disp[d].session))
    BY <1>2 DEF Fork, Recover, Crash, Call, ReadForkPoint, PutForkConfig, PutChild, StartFork,
       LinkFork, Raced, CheckFork, ReadFork, ReadChild, StartChild, ReadParent, LinkParent, Enqueue,
       OnlyDisp
  <2> QED BY <2>1, <2>2, OncePlain DEF Sessions
<1> QED BY <1>1, <1>2

LEMMA LookedOnce ==
  ASSUME DispatchTypes, NEW value
  PROVE  Looked(value).pc = "appending" =>
           /\ Looked(value).known = Len(journal[Parent])
           /\ Completions(journal[Parent]) = {}
<1>1. journal[Parent] \in Seq(Event)
  BY DEF DispatchTypes, Sessions
<1>2. CompletionIn(journal[Parent]) = 0 => Completions(journal[Parent]) = {}
  BY <1>1, CompletionInFinds DEF Found, Completions
<1> QED BY <1>2 DEF Looked, NoResult

LEMMA CreateOnce ==
  ASSUME DispatchTypes, OnceInv, Create \/ \E c \in Completers : Complete(c)
  PROVE  OnceInv'
<1>0. Len(journal[Parent]) \in Nat /\ Parent \in Sessions
  BY DEF DispatchTypes, Sessions
<1>1. CASE Create
  BY <1>1, OnceKept, OncePlain, <1>0 DEF Create, CreateDescriptor, CreateStart
<1>2. ASSUME NEW c \in Completers, NEW value, UNCHANGED journal,
             completer' = [completer EXCEPT ![c] = Looked(value)]
      PROVE  OnceInv'
  <2>1. \A o \in Completers : completer'[o].pc = "appending" =>
          /\ completer'[o].known <= Len(journal[Parent])
          /\ \A i \in Completions(journal[Parent]) : completer'[o].known < i
    BY <1>0, <1>2, LookedOnce DEF OnceInv, DispatchTypes
  <2> QED BY <1>2, <2>1 DEF OnceInv
<1>3. ASSUME NEW c \in Completers, NEW value \in Values, Finish(c, value)
      PROVE  OnceInv'
  BY <1>2, <1>3 DEF Finish
<1>4. ASSUME NEW c \in Completers, AppendCompletion(c)
      PROVE  OnceInv'
  <2>1. CASE ~ResultHead(c)
    <3>1. completer' = [completer EXCEPT ![c] = Looked(completer[c].value)] /\ UNCHANGED journal
      BY <1>4, <2>1 DEF AppendCompletion
    <3> QED BY <1>2, <3>1
  <2>2. CASE ResultHead(c)
    <3> DEFINE e == ChildCompleted(completer[c].value)
    <3>1. Record(Parent, e) /\ completer' = [completer EXCEPT ![c] = NoResult]
          /\ completer[c].pc = "appending" /\ completer[c].known = Len(journal[Parent])
      BY <1>4, <2>2 DEF AppendCompletion, ResultHead, HeadIs
    <3>2. Completions(journal[Parent]) = {}
      BY <1>0, <3>1 DEF OnceInv, Completions
    <3>3. e.mail = None /\ e.type = "child.completed"
      BY DEF ChildCompleted
    <3> HIDE DEF e
    <3>4. Len(journal'[Parent]) = Len(journal[Parent]) + 1
          /\ journal'[Parent][Len(journal[Parent]) + 1] = e
          /\ \A i \in 1 .. Len(journal[Parent]) : journal'[Parent][i] = journal[Parent][i]
      BY <1>0, <3>1, RecordGrows DEF Grew
    <3>5. \A i \in Completions(journal'[Parent]) : i = Len(journal[Parent]) + 1
      <4>1. \A i \in 1 .. Len(journal[Parent]) : journal[Parent][i].type # "child.completed"
        BY <3>2 DEF Completions
      <4>2. \A i \in 1 .. Len(journal'[Parent]) :
              i \in 1 .. Len(journal[Parent]) \/ i = Len(journal[Parent]) + 1
        BY <1>0, <3>4
      <4> QED BY <3>4, <4>1, <4>2 DEF Completions
    <3>6. \A i, j \in 1 .. Len(journal'[Parent]) :
            journal'[Parent][i].mail = journal'[Parent][j].mail /\ journal'[Parent][i].mail # None
              => i = j
      <4>1. \A i \in 1 .. Len(journal'[Parent]) :
              i \in 1 .. Len(journal[Parent]) \/ i = Len(journal[Parent]) + 1
        BY <1>0, <3>4
      <4> QED BY <3>3, <3>4, <4>1 DEF OnceInv
    <3>7. \A o \in Completers : completer'[o].pc = "appending" =>
            /\ completer'[o].known <= Len(journal'[Parent])
            /\ \A i \in Completions(journal'[Parent]) : completer'[o].known < i
      <4>1. ASSUME NEW o \in Completers, completer'[o].pc = "appending"
            PROVE  completer'[o].known \in Nat /\ completer'[o].known <= Len(journal[Parent])
        <5>1. o # c /\ completer'[o] = completer[o] /\ completer[o].known \in Nat
          BY <3>1, <4>1 DEF NoResult, DispatchTypes, Completer
        <5> QED BY <4>1, <5>1 DEF OnceInv
      <4> QED BY <1>0, <3>4, <3>5, <4>1
    <3> QED BY <3>5, <3>6, <3>7 DEF OnceInv
  <2> QED BY <2>1, <2>2
<1> QED BY <1>1, <1>3, <1>4 DEF Complete

LEMMA ReceiveOnce ==
  ASSUME DispatchTypes, MailTypes, Busy, Known, OnceInv,
         NEW r \in Receivers, Incorporate(r), UNCHANGED completer
  PROVE  OnceInv'
<1>1. receiver[r].pc = "working" /\ Len(journal[Parent]) = receiver[r].known
      /\ Recognised(Current(r), KnownTo(r)) = 0
      /\ Record(Parent, MailboxEvent(Current(r)))
  BY DEF Incorporate, Working, HeadIs
<1>2. Current(r) \in Mails /\ KnownTo(r) \in Seq(Event) /\ Len(KnownTo(r)) = Len(journal[Parent])
      /\ \A i \in 1 .. Len(journal[Parent]) : KnownTo(r)[i] = journal[Parent][i]
  BY <1>1, KnownTypes
<1>3. \A j \in 1 .. Len(journal[Parent]) :
        /\ journal[Parent][j].mail # Current(r)
        /\ Current(r) \in Results => journal[Parent][j].type # "child.completed"
  BY <1>1, <1>2, RecognisedTells
<1> DEFINE e == MailboxEvent(Current(r))
<1>4. e.mail = Current(r) /\ (e.type = "child.completed" => Current(r) \in Results)
  BY DEF MailboxEvent
<1>5. e.type = "child.completed" => Completions(journal[Parent]) = {}
  BY <1>3, <1>4 DEF Completions
<1> HIDE DEF e
<1> QED BY <1>1, <1>3, <1>4, <1>5, OnceGrows DEF e

-----------------------------------------------------------------------------
(* The fork: what holds wherever a dispatcher stands, and what holds of the *)
(* catalog, the journals and the queue between them.                        *)

Links(told) == {i \in 1 .. Len(told) : told[i].type = "child.started"}

\* Where a dispatcher has stored its config.
Configured == {"session", "start", "link", "readFork", "readChild", "startChild", "readParent",
               "linkParent", "enqueue"}

\* What holds of a dispatcher at pc with a descriptor and a known part of the
\* parent's journal, given that journal, the child's and the stored configs.
PlaceOK(d, pc, session, known, told, begun, stored) ==
  /\ pc \in {"config", "session"} => known \in 1 .. Len(told)
  /\ pc \in Configured => ConfigOf[d] \in stored
  /\ pc \in Configured \ {"session"} => session.config = ConfigOf[d]
  /\ pc \in {"link", "readParent", "linkParent", "enqueue"} => begun # <<>>
  /\ pc = "enqueue" => Links(told) # {}
  /\ pc = "linkParent" => known <= Len(told) /\ \A i \in Links(told) : known < i

PlacesInv ==
  \A d \in Dispatchers :
    PlaceOK(d, disp[d].pc, disp[d].session, disp[d].known, journal[Parent], journal[Child], configs)

\* The descriptor, the child's journal and the links agree.
ForkAgrees ==
  /\ catalog[Child] # None => catalog[Child].fork \in 1 .. Len(journal[Parent])
  /\ journal[Child] # <<>> =>
       catalog[Child] # None /\ journal[Child][1] = SessionStarted(catalog[Child])
  /\ \A i \in Links(journal[Parent]) :
       /\ catalog[Child] # None /\ journal[Parent][i].session = catalog[Child]
       /\ catalog[Child].fork < i

\* fork links the child itself at most once, before any second link.
LinkedOnce ==
  /\ forkLinked \in BOOLEAN /\ (forkLinked => journal[Child] # <<>>)
  /\ \A d \in Dispatchers : disp[d].pc = "link" =>
       ~forkLinked /\ \A o \in Dispatchers : disp[o].pc = "link" => o = d
  /\ Cardinality(Links(journal[Parent])) <= (IF forkLinked THEN 2 ELSE 1)

\* Work is queued when everything it needs is there.
QueueInv ==
  queue # None =>
    /\ catalog[Child] # None /\ queue = WorkOf(catalog[Child]) /\ catalog[Child].config \in configs
    /\ journal[Child] # <<>> /\ Links(journal[Parent]) # {}

ForkInv == PlacesInv /\ ForkAgrees /\ LinkedOnce /\ QueueInv

\* Links are positions of the journal, and an append adds its own at most.
LEMMA LinksGrow ==
  ASSUME DispatchTypes, NEW e, Record(Parent, e)
  PROVE  /\ Links(journal'[Parent]) =
              IF e.type = "child.started"
              THEN Links(journal[Parent]) \cup {Len(journal[Parent]) + 1}
              ELSE Links(journal[Parent])
         /\ \A i \in Links(journal[Parent]) :
              i \in 1 .. Len(journal[Parent]) /\ journal'[Parent][i] = journal[Parent][i]
         /\ journal'[Parent][Len(journal[Parent]) + 1] = e
         /\ Len(journal'[Parent]) = Len(journal[Parent]) + 1 /\ Len(journal[Parent]) \in Nat
         /\ journal'[Child] = journal[Child]
<1> DEFINE n == Len(journal[Parent])
<1>1. n \in Nat /\ Len(journal'[Parent]) = n + 1 /\ journal'[Parent][n + 1] = e
      /\ \A i \in 1 .. n : journal'[Parent][i] = journal[Parent][i]
  BY RecordGrows DEF DispatchTypes, Sessions, Grew
<1>2. journal'[Child] = journal[Child]
  BY RecordGrows, SessionJournalsAssumption DEF Sessions
<1> HIDE DEF n
<1>3. \A i : i \in 1 .. n + 1 <=> i \in 1 .. n \/ i = n + 1
  BY <1>1
<1>4. \A i : i \in Links(journal'[Parent]) <=>
               i \in Links(journal[Parent]) \/ (i = n + 1 /\ e.type = "child.started")
  BY <1>1, <1>3 DEF Links, n
<1>5. Links(journal'[Parent]) = IF e.type = "child.started"
                                THEN Links(journal[Parent]) \cup {n + 1}
                                ELSE Links(journal[Parent])
  BY <1>4
<1> QED BY <1>1, <1>2, <1>5 DEF Links, n

\* Counting the links of a journal.
LEMMA LinksFinite ==
  ASSUME DispatchTypes
  PROVE  /\ IsFiniteSet(Links(journal[Parent])) /\ Cardinality(Links(journal[Parent])) \in Nat
         /\ \A i : Cardinality(Links(journal[Parent]) \cup {i})
                    <= Cardinality(Links(journal[Parent])) + 1
         /\ Links(journal[Parent]) = {} => \A i : Cardinality(Links(journal[Parent]) \cup {i}) = 1
<1> DEFINE L == Links(journal[Parent])
<1>1. L \in SUBSET (1 .. Len(journal[Parent])) /\ Len(journal[Parent]) \in Nat
  BY DEF Links, DispatchTypes, Sessions
<1> HIDE DEF L
<1>2. IsFiniteSet(L) /\ Cardinality(L) \in Nat
  BY <1>1, PositionsFinite
<1>3. \A i : Cardinality(L \cup {i}) <= Cardinality(L) + 1
  BY <1>2, FS_AddElement
<1>4. L = {} => \A i : Cardinality(L \cup {i}) = 1
  BY FS_Singleton
<1> QED BY <1>2, <1>3, <1>4 DEF L

\* What holds where a dispatcher stands still holds when journals and configs
\* have grown.
LEMMA PlaceGrows ==
  ASSUME DispatchTypes, NEW d \in Dispatchers, Grew(Parent), Grew(Child), configs \subseteq configs',
         journal' \in [Sessions -> Seq(Event)],
         PlaceOK(d, disp[d].pc, disp[d].session, disp[d].known, journal[Parent], journal[Child], configs)
  PROVE  PlaceOK(d, disp[d].pc, disp[d].session, disp[d].known, journal'[Parent], journal'[Child],
                 configs')
<1> DEFINE n == Len(journal[Parent])
           m == Len(journal'[Parent])
<1>1. n \in Nat /\ m \in Nat /\ n <= m /\ disp[d].known \in Nat
  BY DEF Grew, DispatchTypes, Sessions, Dispatcher
<1>2. journal[Child] # <<>> => journal'[Child] # <<>>
  <2>1. journal[Child] \in Seq(Event) /\ journal'[Child] \in Seq(Event)
        /\ Len(journal[Child]) <= Len(journal'[Child])
    BY DEF Grew, DispatchTypes, Sessions
  <2> QED BY <2>1, EmptySeq
<1> HIDE DEF n, m
<1>3. \A i \in Links(journal[Parent]) : i \in Links(journal'[Parent])
  BY <1>1 DEF Links, Grew, n, m
<1>4. \A i \in Links(journal'[Parent]) : i \in Links(journal[Parent]) \/ n < i
  BY <1>1 DEF Links, Grew, n, m
<1> DEFINE pc == disp[d].pc
           known == disp[d].known
<1>5. pc \in {"config", "session"} => known \in 1 .. m
  BY <1>1 DEF PlaceOK, n
<1>6. pc = "enqueue" => Links(journal'[Parent]) # {}
  BY <1>3 DEF PlaceOK
<1>7. pc = "linkParent" => known <= m /\ \A i \in Links(journal'[Parent]) : known < i
  <2>1. pc = "linkParent" => known <= n /\ \A i \in Links(journal[Parent]) : known < i
    BY DEF PlaceOK, n
  <2>2. \A i \in Links(journal'[Parent]) : i \in Nat
    BY DEF Links
  <2> QED BY <1>1, <1>4, <2>1, <2>2
<1> QED BY <1>2, <1>5, <1>6, <1>7 DEF PlaceOK, m

\* A dispatcher moves where what must hold there does.
LEMMA PlacesMove ==
  ASSUME DispatchTypes, PlacesInv, Grew(Parent), Grew(Child), configs \subseteq configs',
         journal' \in [Sessions -> Seq(Event)],
         NEW d \in Dispatchers, NEW pc, NEW session, NEW known, At(d, pc, session, known),
         PlaceOK(d, pc, session, known, journal'[Parent], journal'[Child], configs')
  PROVE  PlacesInv'
<1>1. ASSUME NEW o \in Dispatchers
      PROVE  PlaceOK(o, disp'[o].pc, disp'[o].session, disp'[o].known, journal'[Parent],
                     journal'[Child], configs')
  <2>1. CASE o = d
    BY <2>1 DEF At
  <2>2. CASE o # d
    <3>1. disp'[o] = disp[o]
      BY <2>2 DEF At
    <3>2. PlaceOK(o, disp[o].pc, disp[o].session, disp[o].known, journal[Parent], journal[Child],
                  configs)
      BY DEF PlacesInv
    <3>3. PlaceOK(o, disp[o].pc, disp[o].session, disp[o].known, journal'[Parent], journal'[Child],
                  configs')
      BY <3>2, PlaceGrows
    <3> QED BY <3>1, <3>3
  <2> QED BY <2>1, <2>2
<1> QED BY <1>1 DEF PlacesInv

\* The dispatchers stay where they are.
LEMMA PlacesKept ==
  ASSUME DispatchTypes, PlacesInv, Grew(Parent), Grew(Child), configs \subseteq configs',
         journal' \in [Sessions -> Seq(Event)], UNCHANGED disp
  PROVE  PlacesInv'
BY PlaceGrows DEF PlacesInv

\* Steps that write neither the catalog, the child's journal nor the queue.
LEMMA ForkKept ==
  ASSUME DispatchTypes, ForkAgrees, LinkedOnce, QueueInv,
         catalog'[Child] = catalog[Child], UNCHANGED <<queue, forkLinked>>,
         configs \subseteq configs',
         \/ UNCHANGED journal
         \/ \E e : Record(Parent, e) /\ e.type # "child.started",
         \A d \in Dispatchers : disp'[d].pc = "link" => disp[d].pc = "link"
  PROVE  (ForkAgrees /\ LinkedOnce /\ QueueInv)'
<1>1. /\ Links(journal'[Parent]) = Links(journal[Parent]) /\ journal'[Child] = journal[Child]
      /\ \A i \in Links(journal[Parent]) : journal'[Parent][i] = journal[Parent][i]
      /\ Len(journal[Parent]) <= Len(journal'[Parent])
      /\ Len(journal[Parent]) \in Nat /\ Len(journal'[Parent]) \in Nat
  BY LinksGrow DEF DispatchTypes, Sessions
<1>2. catalog[Child] # None => catalog[Child].fork \in Nat
  BY DEF DispatchTypes, Sessions, Descriptor
<1>3. ForkAgrees'
  BY <1>1, <1>2 DEF ForkAgrees
<1>4. LinkedOnce'
  BY <1>1 DEF LinkedOnce
<1>5. QueueInv'
  BY <1>1 DEF QueueInv
<1> QED BY <1>3, <1>4, <1>5

\* A dispatcher's steps before it has a descriptor in hand, and its failures.
LEMMA EarlyForkInv ==
  ASSUME DispatchTypes, Held, ForkInv, NEW d \in Dispatchers,
         Call(d) \/ ReadForkPoint(d) \/ PutForkConfig(d) \/ Raced(d) \/ CheckFork(d) \/ ReadFork(d)
           \/ ReadChild(d) \/ ReadParent(d) \/ Crash(d)
  PROVE  ForkInv'
<1>0. PlacesInv /\ ForkAgrees /\ LinkedOnce /\ QueueInv
  BY DEF ForkInv
<1>1. UNCHANGED <<journal, catalog, queue, forkLinked>> /\ configs \subseteq configs'
  BY DEF Call, ReadForkPoint, PutForkConfig, Raced, CheckFork, ReadFork, ReadChild, ReadParent, Crash,
         OnlyDisp
<1>2. Grew(Parent) /\ Grew(Child) /\ journal' \in [Sessions -> Seq(Event)]
  BY <1>1, StillGrew DEF Sessions, DispatchTypes
<1>3. PlaceOK(d, disp[d].pc, disp[d].session, disp[d].known, journal[Parent], journal[Child], configs)
  BY <1>0 DEF PlacesInv
<1>4. \E pc \in Pcs \ {"link"} : \E session, known :
        /\ At(d, pc, session, known)
        /\ PlaceOK(d, pc, session, known, journal'[Parent], journal'[Child], configs')
  <2>0. \A pc \in {"idle", "forking", "raced", "recover"} : pc \in Pcs \ {"link"} /\
          \A session, known :
            PlaceOK(d, pc, session, known, journal'[Parent], journal'[Child], configs')
    BY DEF PlaceOK, Configured, Pcs
  <2>1. CASE Call(d)
    BY <2>0, <2>1, ForkMoves
  <2>2. CASE ReadForkPoint(d)
    <3>1. Len(journal[Parent]) \in Nat
      BY DEF DispatchTypes, Sessions
    <3>2. CASE At(d, "raced", disp[d].session, disp[d].known)
      BY <2>0, <3>2
    <3>3. CASE At(d, "config", disp[d].session, Len(journal[Parent])) /\ Len(journal[Parent]) # 0
      BY <1>1, <3>1, <3>3 DEF PlaceOK, Configured, Pcs
    <3> QED BY <2>2, <3>2, <3>3, ForkMoves
  <2>3. CASE PutForkConfig(d)
    BY <1>1, <1>3, <2>3, ForkMoves DEF PutForkConfig, PlaceOK, Configured, Pcs
  <2>4. CASE Raced(d)
    BY <2>0, <2>4, ForkMoves DEF Rests
  <2>5. CASE CheckFork(d)
    BY <1>1, <1>3, <2>5, RecoverMoves DEF CheckFork, Rests, PlaceOK, Configured, Pcs
  <2>6. CASE ReadFork(d)
    BY <1>1, <1>3, <2>6, RecoverMoves DEF ReadFork, OnlyDisp, Rests, PlaceOK, Configured, Pcs
  <2>7. CASE ReadChild(d)
    <3>1. Len(journal[Child]) # 0 => journal[Child] # <<>>
      BY EmptySeq
    <3> QED BY <1>1, <1>3, <2>7, <3>1, RecoverMoves
            DEF ReadChild, OnlyDisp, Rests, PlaceOK, Configured, Pcs
  <2>8. CASE ReadParent(d)
    <3>1. Found(LinkIn(journal[Parent]), Links(journal[Parent])) /\ Len(journal[Parent]) \in Nat
      BY LinkInFinds DEF Links, DispatchTypes, Sessions
    <3>2. LinkIn(journal[Parent]) = 0 => Links(journal[Parent]) = {}
      BY <3>1 DEF Found, Links
    <3>3. LinkIn(journal[Parent]) # 0 => Links(journal[Parent]) # {}
      BY <3>1 DEF Found
    <3>4. configs' = configs
      BY <2>8 DEF ReadParent, OnlyDisp
    <3>5. CASE Rests(d)
      BY <2>0, <3>5 DEF Rests
    <3>6. CASE At(d, "linkParent", disp[d].session, Len(journal[Parent])) /\ LinkIn(journal[Parent]) = 0
      BY <1>1, <1>3, <2>8, <3>1, <3>2, <3>4, <3>6 DEF ReadParent, PlaceOK, Configured, Pcs
    <3>7. CASE At(d, "enqueue", disp[d].session, disp[d].known) /\ LinkIn(journal[Parent]) # 0
      BY <1>1, <1>3, <2>8, <3>3, <3>4, <3>7 DEF ReadParent, PlaceOK, Configured, Pcs
    <3> QED BY <2>8, <3>5, <3>6, <3>7, RecoverMoves
  <2>9. CASE Crash(d)
    BY <2>0, <2>9, RecoverMoves DEF Rests
  <2> QED BY <2>1, <2>2, <2>3, <2>4, <2>5, <2>6, <2>7, <2>8, <2>9
<1>p. PICK pc \in Pcs \ {"link"} : \E session, known :
        /\ At(d, pc, session, known)
        /\ PlaceOK(d, pc, session, known, journal'[Parent], journal'[Child], configs')
  BY <1>4
<1>5. PICK session, known :
        /\ At(d, pc, session, known)
        /\ PlaceOK(d, pc, session, known, journal'[Parent], journal'[Child], configs')
  BY <1>p
<1>6. PlacesInv'
  BY <1>0, <1>1, <1>2, <1>5, PlacesMove
<1>7. \A o \in Dispatchers : disp'[o].pc = "link" => disp[o].pc = "link"
  BY <1>5 DEF At
<1>8. (ForkAgrees /\ LinkedOnce /\ QueueInv)'
  BY <1>0, <1>1, <1>7, ForkKept
<1> QED BY <1>6, <1>8 DEF ForkInv

\* The descriptor of the child is put once.
LEMMA PutChildInv ==
  ASSUME DispatchTypes, Held, ForkInv, NEW d \in Dispatchers, PutChild(d)
  PROVE  ForkInv'
<1>0. PlacesInv /\ ForkAgrees /\ LinkedOnce /\ QueueInv /\ UNCHANGED <<journal, configs, queue, forkLinked>>
      /\ disp[d].pc = "session"
  BY DEF ForkInv, PutChild
<1>1. Grew(Parent) /\ Grew(Child) /\ journal' \in [Sessions -> Seq(Event)] /\ configs \subseteq configs'
  BY <1>0, StillGrew DEF Sessions, DispatchTypes
<1>2. PlaceOK(d, disp[d].pc, disp[d].session, disp[d].known, journal[Parent], journal[Child], configs)
  BY <1>0 DEF PlacesInv
<1>3. PICK stamp \in StampsNow :
        LET child == [config |-> ConfigOf[d], created |-> stamp, fork |-> disp[d].known]
        IN  IF Puttable(Child, child)
            THEN /\ Put(Child, child)
                 /\ disp' = [disp EXCEPT ![d] = [pc |-> "start", session |-> child, known |-> 0]]
            ELSE /\ disp' = [disp EXCEPT ![d] = [AtRest EXCEPT !.pc = "raced"]]
                 /\ UNCHANGED catalog
  BY DEF PutChild
<1> DEFINE child == [config |-> ConfigOf[d], created |-> stamp, fork |-> disp[d].known]
<1>4. stamp \in Stamps
  BY <1>3, SessionJournalsAssumption DEF StampsNow
<1>5. child \in Descriptor /\ child # None
  BY <1>4, SessionDispatchAssumption, DescriptorAssumption DEF DispatchTypes, Dispatcher, Descriptor
<1>6. child.config = ConfigOf[d] /\ child.fork = disp[d].known
  OBVIOUS
<1> HIDE DEF child
<1>7. CASE Puttable(Child, child)
  <2>1. catalog' = [catalog EXCEPT ![Child] = child] /\ catalog[Child] \in {None, child}
        /\ disp' = [disp EXCEPT ![d] = [pc |-> "start", session |-> child, known |-> 0]]
    BY <1>3, <1>7 DEF child, Put, Puttable
  <2>2. At(d, "start", child, 0)
    BY <1>5, <2>1 DEF At, DispatchTypes, Dispatcher
  <2>3. PlaceOK(d, "start", child, 0, journal'[Parent], journal'[Child], configs')
    BY <1>0, <1>2, <1>6 DEF PlaceOK, Configured
  <2>4. PlacesInv'
    BY <1>0, <1>1, <2>2, <2>3, PlacesMove
  <2>5. catalog'[Child] = child
    BY <2>1 DEF DispatchTypes, Sessions
  <2>6. ForkAgrees'
    BY <1>0, <1>2, <1>5, <1>6, <2>1, <2>5 DEF ForkAgrees, PlaceOK
  <2>7. LinkedOnce'
    BY <1>0, <2>2 DEF LinkedOnce, At
  <2>8. QueueInv'
    BY <1>0, <1>5, <2>1, <2>5 DEF QueueInv
  <2> QED BY <2>4, <2>6, <2>7, <2>8 DEF ForkInv
<1>8. CASE ~Puttable(Child, child)
  <2>1. disp' = [disp EXCEPT ![d] = [AtRest EXCEPT !.pc = "raced"]] /\ UNCHANGED catalog
    BY <1>3, <1>8 DEF child
  <2>2. At(d, "raced", None, 0)
    BY <2>1 DEF At, AtRest, DispatchTypes, Dispatcher
  <2>3. PlaceOK(d, "raced", None, 0, journal'[Parent], journal'[Child], configs')
    BY DEF PlaceOK, Configured
  <2>4. PlacesInv'
    BY <1>0, <1>1, <2>2, <2>3, PlacesMove
  <2>5. \A o \in Dispatchers : disp'[o].pc = "link" => disp[o].pc = "link"
    BY <2>2 DEF At
  <2>6. (ForkAgrees /\ LinkedOnce /\ QueueInv)'
    BY <1>0, <1>1, <2>1, <2>5, ForkKept
  <2> QED BY <2>4, <2>6 DEF ForkInv
<1> QED BY <1>7, <1>8

\* The child begins its journal, by fork or by a recovery.
LEMMA StartInv ==
  ASSUME DispatchTypes, Held, ForkInv, NEW d \in Dispatchers, StartFork(d) \/ StartChild(d),
         journal' \in [Sessions -> Seq(Event)]
  PROVE  ForkInv'
<1>0. PlacesInv /\ ForkAgrees /\ LinkedOnce /\ QueueInv
      /\ UNCHANGED <<catalog, configs, queue, forkLinked>>
  BY DEF ForkInv, StartFork, StartChild
<1>1. PlaceOK(d, disp[d].pc, disp[d].session, disp[d].known, journal[Parent], journal[Child], configs)
  BY <1>0 DEF PlacesInv
<1>2. CASE UNCHANGED journal
  <2>1. Grew(Parent) /\ Grew(Child) /\ configs \subseteq configs'
    BY <1>0, <1>2, StillGrew DEF Sessions
  <2>2. \E pc \in {"raced", "readChild"} : At(d, pc, disp[d].session, disp[d].known)
        /\ PlaceOK(d, pc, disp[d].session, disp[d].known, journal'[Parent], journal'[Child], configs')
    <3>1. CASE StartFork(d)
      <4>1. At(d, "raced", disp[d].session, disp[d].known)
        <5>1. ~HeadIs(Child, 0)
          BY <1>2, <3>1, RecordGrows DEF StartFork, Sessions, HeadIs, DispatchTypes
        <5> QED BY <3>1, <5>1, ForkMoves
      <4> QED BY <4>1 DEF PlaceOK, Configured
    <3>2. CASE StartChild(d)
      <4>1. At(d, "readChild", disp[d].session, disp[d].known)
        <5>1. ~HeadIs(Child, 0)
          BY <1>2, <3>2, RecordGrows DEF StartChild, Sessions, HeadIs, DispatchTypes
        <5> QED BY <3>2, <5>1, RecoverMoves
      <4> QED BY <1>0, <1>1, <1>2, <3>2, <4>1 DEF StartChild, PlaceOK, Configured
    <3> QED BY <3>1, <3>2
  <2>3. PICK pc \in {"raced", "readChild"} : At(d, pc, disp[d].session, disp[d].known)
        /\ PlaceOK(d, pc, disp[d].session, disp[d].known, journal'[Parent], journal'[Child], configs')
    BY <2>2
  <2>4. PlacesInv'
    BY <1>0, <2>1, <2>3, PlacesMove
  <2>5. \A o \in Dispatchers : disp'[o].pc = "link" => disp[o].pc = "link"
    BY <2>3 DEF At
  <2> QED BY <1>0, <1>2, <2>1, <2>4, <2>5, ForkKept DEF ForkInv
<1>3. CASE ~UNCHANGED journal
  <2>1. Len(journal[Child]) = 0 /\ Record(Child, SessionStarted(disp[d].session))
        /\ disp[d].pc \in {"start", "startChild"}
    BY <1>3 DEF StartFork, StartChild, HeadIs
  <2>2. catalog[Child] # None /\ disp[d].session = catalog[Child]
    BY <2>1 DEF Held, Holding
  <2>3. Grew(Parent) /\ Grew(Child) /\ configs \subseteq configs' /\ journal'[Parent] = journal[Parent]
        /\ Len(journal'[Child]) = 1 /\ journal'[Child][1] = SessionStarted(catalog[Child])
    <3>1. Len(journal'[Child]) = 0 + 1 /\ journal'[Child][0 + 1] = SessionStarted(disp[d].session)
          /\ Grew(Parent) /\ Grew(Child) /\ journal'[Parent] = journal[Parent]
      BY <2>1, RecordGrows, SessionJournalsAssumption DEF Sessions
    <3> QED BY <1>0, <2>2, <3>1
  <2>4. journal'[Child] # <<>> /\ journal[Child] = <<>>
    <3>1. journal[Child] \in Seq(Event)
      BY DEF DispatchTypes, Sessions
    <3> QED BY <2>1, <2>3, <3>1, EmptySeq
  <2>5. \E pc \in {"link", "readParent"} : At(d, pc, disp[d].session, disp[d].known)
    BY <1>3, ForkMoves, RecoverMoves
  <2>6. PICK pc \in {"link", "readParent"} : At(d, pc, disp[d].session, disp[d].known)
    BY <2>5
  <2>7. PlaceOK(d, pc, disp[d].session, disp[d].known, journal'[Parent], journal'[Child], configs')
    BY <1>0, <1>1, <2>1, <2>4 DEF PlaceOK, Configured
  <2>8. PlacesInv'
    BY <1>0, <2>3, <2>6, <2>7, PlacesMove
  <2>9. ForkAgrees'
    BY <1>0, <2>2, <2>3 DEF ForkAgrees
  <2>10. LinkedOnce'
    <3>1. \A o \in Dispatchers : disp[o].pc # "link"
      BY <1>0, <2>4 DEF PlacesInv, PlaceOK
    <3>2. ~forkLinked
      BY <1>0, <2>4 DEF LinkedOnce
    <3> QED BY <1>0, <2>3, <2>6, <3>1, <3>2 DEF LinkedOnce, At
  <2>11. QueueInv'
    BY <1>0, <2>3, <2>4 DEF QueueInv
  <2> QED BY <2>8, <2>9, <2>10, <2>11 DEF ForkInv
<1> QED BY <1>2, <1>3

\* A dispatcher links the child: fork without looking, a recovery when the
\* journal is as it was when it had no link.
LEMMA LinkInv ==
  ASSUME DispatchTypes, Held, ForkInv, NEW d \in Dispatchers, LinkFork(d) \/ LinkParent(d),
         journal' \in [Sessions -> Seq(Event)]
  PROVE  ForkInv'
<1>0. PlacesInv /\ ForkAgrees /\ LinkedOnce /\ QueueInv /\ UNCHANGED <<catalog, configs, queue>>
      /\ configs \subseteq configs'
  BY DEF ForkInv, LinkFork, LinkParent
<1>1. PlaceOK(d, disp[d].pc, disp[d].session, disp[d].known, journal[Parent], journal[Child], configs)
  BY <1>0 DEF PlacesInv
<1>2. CASE LinkParent(d) /\ ~LinkHead(d)
  <2>1. UNCHANGED <<journal, forkLinked>> /\ disp[d].pc = "linkParent"
        /\ disp' = [disp EXCEPT ![d].pc = "readParent"]
    BY <1>2 DEF LinkParent, Go
  <2>2. At(d, "readParent", disp[d].session, disp[d].known)
    BY <2>1, GoMoves DEF Go, Pcs
  <2>3. Grew(Parent) /\ Grew(Child)
    BY <2>1, StillGrew DEF Sessions
  <2>4. PlaceOK(d, "readParent", disp[d].session, disp[d].known, journal'[Parent], journal'[Child],
                configs')
    BY <1>0, <1>1, <2>1 DEF PlaceOK, Configured
  <2>5. PlacesInv'
    BY <1>0, <2>2, <2>3, <2>4, PlacesMove
  <2>6. \A o \in Dispatchers : disp'[o].pc = "link" => disp[o].pc = "link"
    BY <2>2 DEF At
  <2> QED BY <1>0, <2>1, <2>5, <2>6, ForkKept DEF ForkInv
<1>3. CASE LinkFork(d) \/ (LinkParent(d) /\ LinkHead(d))
  <2> DEFINE e == ChildStarted(disp[d].session)
             L == Links(journal[Parent])
             n == Len(journal[Parent])
  <2>1. Record(Parent, e) /\ disp[d].pc \in {"link", "linkParent"}
        /\ forkLinked' = (forkLinked \/ LinkFork(d))
        /\ (LinkFork(d) => disp[d].pc = "link")
        /\ (~LinkFork(d) => disp[d].pc = "linkParent" /\ n = disp[d].known)
    BY <1>0, <1>3 DEF LinkFork, LinkParent, LinkHead, HeadIs, LinkedOnce
  <2>2. At(d, "enqueue", disp[d].session, disp[d].known)
    <3>1. Go(d, "enqueue") /\ "enqueue" \in Pcs
      BY <1>3 DEF LinkFork, LinkParent, Pcs
    <3> QED BY <3>1, GoMoves
  <2>3. catalog[Child] # None /\ disp[d].session = catalog[Child] /\ journal[Child] # <<>>
    BY <1>1, <2>1 DEF Held, Holding, PlaceOK
  <2>4. e.type = "child.started" /\ e.session = catalog[Child]
    BY <2>3 DEF ChildStarted
  <2> HIDE DEF e
  <2>5. Grew(Parent) /\ Grew(Child)
    BY <2>1, RecordGrows DEF Sessions
  <2>6. /\ Links(journal'[Parent]) = L \cup {n + 1}
        /\ \A i \in L : i \in 1 .. n /\ journal'[Parent][i] = journal[Parent][i]
        /\ journal'[Parent][n + 1] = e /\ Len(journal'[Parent]) = n + 1 /\ n \in Nat
        /\ journal'[Child] = journal[Child]
    BY <2>1, <2>4, LinksGrow
  <2>7. PlaceOK(d, "enqueue", disp[d].session, disp[d].known, journal'[Parent], journal'[Child], configs')
    BY <1>0, <1>1, <2>1, <2>3, <2>6 DEF PlaceOK, Configured
  <2>8. PlacesInv'
    BY <1>0, <2>2, <2>5, <2>7, PlacesMove
  <2>9. ForkAgrees'
    <3>1. catalog[Child].fork \in 1 .. n
      BY <1>0, <2>3 DEF ForkAgrees
    <3> HIDE DEF L, n
    <3>2. catalog'[Child].fork \in 1 .. Len(journal'[Parent])
      BY <1>0, <2>6, <3>1
    <3>3. \A i \in L \cup {n + 1} :
            journal'[Parent][i].session = catalog[Child] /\ catalog[Child].fork < i
      <4>1. ASSUME NEW i \in L
            PROVE  journal'[Parent][i].session = catalog[Child] /\ catalog[Child].fork < i
        BY <1>0, <2>6, <4>1 DEF ForkAgrees, L
      <4>2. journal'[Parent][n + 1].session = catalog[Child] /\ catalog[Child].fork < n + 1
        BY <2>4, <2>6, <3>1
      <4> QED BY <4>1, <4>2
    <3> QED BY <1>0, <2>3, <2>6, <3>2, <3>3 DEF ForkAgrees
  <2>10. LinkedOnce'
    <3>1. Cardinality(L) \in Nat /\ Cardinality(L \cup {n + 1}) <= Cardinality(L) + 1
          /\ Cardinality(L \cup {n + 1}) \in Nat /\ (L = {} => Cardinality(L \cup {n + 1}) = 1)
      <4>1. IsFiniteSet(L)
        BY LinksFinite
      <4> QED BY <4>1, LinksFinite, FS_AddElement, FS_CardinalityType
    <3>2. CASE LinkFork(d)
      <4>1. ~forkLinked /\ Cardinality(L) <= 1 /\ forkLinked' = TRUE
            /\ \A o \in Dispatchers : disp[o].pc = "link" => o = d
        BY <1>0, <2>1, <3>2 DEF LinkedOnce
      <4>2. \A o \in Dispatchers : disp'[o].pc # "link"
        BY <2>2, <4>1 DEF At
      <4> HIDE DEF L, n
      <4> QED BY <2>3, <2>6, <3>1, <4>1, <4>2 DEF LinkedOnce
    <3>3. CASE ~LinkFork(d)
      <4>1. L = {}
        BY <1>1, <2>1, <2>6, <3>3 DEF PlaceOK
      <4>2. Cardinality(Links(journal'[Parent])) = 1 /\ UNCHANGED forkLinked
        BY <1>0, <2>1, <2>6, <3>1, <3>3, <4>1 DEF LinkedOnce
      <4>3. \A o \in Dispatchers : disp'[o].pc = "link" => disp[o].pc = "link"
        BY <2>2 DEF At
      <4> HIDE DEF L, n
      <4> QED BY <1>0, <2>6, <4>2, <4>3 DEF LinkedOnce
    <3> QED BY <3>2, <3>3
  <2>11. QueueInv'
    BY <1>0, <2>6 DEF QueueInv
  <2> QED BY <2>8, <2>9, <2>10, <2>11 DEF ForkInv
<1> QED BY <1>2, <1>3

LEMMA EnqueueInv ==
  ASSUME DispatchTypes, Held, ForkInv, NEW d \in Dispatchers, Enqueue(d)
  PROVE  ForkInv'
<1>0. PlacesInv /\ ForkAgrees /\ LinkedOnce /\ QueueInv
      /\ UNCHANGED <<journal, catalog, configs, forkLinked>> /\ configs \subseteq configs'
      /\ disp[d].pc = "enqueue"
      /\ queue' = IF queue = None THEN WorkOf(disp[d].session) ELSE queue
  BY DEF ForkInv, Enqueue
<1>1. PlaceOK(d, disp[d].pc, disp[d].session, disp[d].known, journal[Parent], journal[Child], configs)
  BY <1>0 DEF PlacesInv
<1>2. At(d, "idle", None, 0)
  BY RecoverMoves DEF Rests
<1>3. Grew(Parent) /\ Grew(Child) /\ journal' \in [Sessions -> Seq(Event)]
  BY <1>0, StillGrew DEF Sessions, DispatchTypes
<1>4. PlaceOK(d, "idle", None, 0, journal'[Parent], journal'[Child], configs')
  BY DEF PlaceOK, Configured
<1>5. PlacesInv'
  BY <1>0, <1>2, <1>3, <1>4, PlacesMove
<1>6. catalog[Child] # None /\ disp[d].session = catalog[Child]
  BY <1>0 DEF Held, Holding
<1>7. QueueInv'
  BY <1>0, <1>1, <1>6 DEF QueueInv, PlaceOK, Configured
<1>8. ForkAgrees'
  BY <1>0 DEF ForkAgrees
<1>9. LinkedOnce'
  BY <1>0, <1>2 DEF LinkedOnce, At
<1> QED BY <1>5, <1>7, <1>8, <1>9 DEF ForkInv

\* A dispatcher's step keeps the fork in order.
LEMMA DispatchFork ==
  ASSUME DispatchTypes, Held, ForkInv, NEW d \in Dispatchers, Fork(d) \/ Recover(d) \/ Crash(d),
         journal' \in [Sessions -> Seq(Event)]
  PROVE  ForkInv'
BY EarlyForkInv, PutChildInv, StartInv, LinkInv, EnqueueInv DEF Fork, Recover

\* So does whoever else writes the parent's journal.
LEMMA OthersFork ==
  ASSUME DispatchTypes, ForkInv, journal' \in [Sessions -> Seq(Event)],
         UNCHANGED <<queue, disp, forkLinked>>, configs \subseteq configs',
         catalog'[Child] = catalog[Child],
         UNCHANGED journal \/ \E e : Record(Parent, e) /\ e.type # "child.started"
  PROVE  ForkInv'
<1>0. PlacesInv /\ ForkAgrees /\ LinkedOnce /\ QueueInv
  BY DEF ForkInv
<1>1. Grew(Parent) /\ Grew(Child)
  BY StillGrew, RecordGrows DEF Sessions
<1>2. PlacesInv'
  BY <1>0, <1>1, PlacesKept
<1> QED BY <1>0, <1>2, ForkKept DEF ForkInv

-----------------------------------------------------------------------------
(* The inductive invariant and the theorems.                                *)

IInv == DispatchTypes /\ Held /\ MailTypes /\ Busy /\ MailInv /\ OnceInv /\ ForkInv

LEMMA InitIInv == Init => IInv
<1> SUFFICES ASSUME Init PROVE IInv
  OBVIOUS
<1> USE SessionJournalsAssumption
<1>0. journal[Parent] = <<>> /\ journal[Child] = <<>> /\ catalog[Child] = None /\ queue = None
      /\ Links(journal[Parent]) = {} /\ Completions(journal[Parent]) = {}
  BY DEF Init, DispatchInit, Sessions, Links, Completions
<1>1. DispatchTypes
  BY DEF Init, DispatchInit, DispatchTypes, AtRest, NoResult, Dispatcher, Completer
<1>2. Held
  BY <1>0 DEF Init, DispatchInit, Held, AtRest, Holding
<1>3. IsSnapshot(<<>>)
  BY DEF IsSnapshot
<1>4. MailTypes
  BY <1>3 DEF Init, MailboxInit, MailTypes, Idle, Receiver
<1>5. Busy
  BY DEF Init, MailboxInit, Busy, Idle
<1>6. MailInv
  BY <1>0 DEF Init, MailboxInit, MailInv, Known, Telling, Marked, Delivery, Kept, Idle
<1>7. OnceInv
  BY <1>0 DEF Init, DispatchInit, OnceInv, NoResult
<1>8. ForkInv
  <2>1. PlacesInv
    BY DEF Init, DispatchInit, PlacesInv, PlaceOK, AtRest, Configured
  <2>2. ForkAgrees
    BY <1>0 DEF ForkAgrees
  <2>3. LinkedOnce
    <3>1. Cardinality(Links(journal[Parent])) = 0
      BY <1>0, FS_EmptySet
    <3>2. forkLinked = FALSE /\ \A d \in Dispatchers : disp[d].pc = "idle"
      BY DEF Init, DispatchInit, AtRest
    <3>3. journal[Child] = <<>> /\ Cardinality(Links(journal[Parent])) <= 1
      BY <1>0, <3>1
    <3> QED BY <3>2, <3>3 DEF LinkedOnce
  <2>4. QueueInv
    BY <1>0 DEF QueueInv
  <2> QED BY <2>1, <2>2, <2>3, <2>4 DEF ForkInv
<1> QED BY <1>1, <1>2, <1>4, <1>5, <1>6, <1>7, <1>8 DEF IInv

\* Steps of the dispatchers, the creation and the completers.
LEMMA DispatchIInv ==
  ASSUME IInv, UNCHANGED mailboxVars,
         \/ Create
         \/ \E d \in Dispatchers : Fork(d) \/ Recover(d) \/ Crash(d)
         \/ \E c \in Completers : Complete(c)
  PROVE  IInv'
<1>0. DispatchTypes /\ Held /\ MailTypes /\ Busy /\ MailInv /\ OnceInv /\ ForkInv
  BY DEF IInv
<1>1. (DispatchTypes /\ Held)'
  BY <1>0, CreateBase, ForkBase, RecoverBase
<1>2. OnceInv'
  BY <1>0, CreateOnce, DispatchOnce
<1>3. journal' \in [Sessions -> Seq(Event)]
  BY <1>1 DEF DispatchTypes
<1>4. CASE \E d \in Dispatchers : Fork(d) \/ Recover(d) \/ Crash(d)
  <2>1. ForkInv'
    BY <1>0, <1>3, <1>4, DispatchFork
  <2>2. \/ UNCHANGED journal
        \/ \E s \in Sessions : \E e : Record(s, e)
    BY <1>4 DEF Fork, Recover, Crash, Call, ReadForkPoint, PutForkConfig, PutChild, StartFork,
       LinkFork, Raced, CheckFork, ReadFork, ReadChild, StartChild, ReadParent, LinkParent, Enqueue,
       OnlyDisp, Sessions
  <2>3. Grew(Parent)
    BY <1>0, <2>2, StillGrew, RecordGrows DEF Sessions
  <2> QED BY <1>0, <1>1, <1>2, <2>1, <2>3, MailGrows DEF IInv
<1>5. CASE Create \/ \E c \in Completers : Complete(c)
  <2>1. UNCHANGED <<queue, disp, forkLinked>> /\ configs \subseteq configs'
    BY <1>5 DEF Create, CreateDescriptor, CreateStart, Complete, Finish, AppendCompletion, OnlyCompleter
  <2>2. catalog'[Child] = catalog[Child]
    BY <1>0, <1>5, SessionJournalsAssumption
       DEF Create, CreateDescriptor, CreateStart, Complete, Finish, AppendCompletion, OnlyCompleter, Put,
           DispatchTypes, Sessions
  <2>3. UNCHANGED journal \/ \E e : Record(Parent, e) /\ e.type # "child.started"
    <3>1. \A session : SessionStarted(session).type # "child.started"
      BY DEF SessionStarted
    <3>2. \A value : ChildCompleted(value).type # "child.started"
      BY DEF ChildCompleted
    <3> QED BY <1>5, <3>1, <3>2
            DEF Create, CreateDescriptor, CreateStart, Complete, Finish, AppendCompletion
  <2>4. ForkInv'
    BY <1>0, <1>3, <2>1, <2>2, <2>3, OthersFork
  <2>5. Grew(Parent)
    BY <1>0, <2>3, StillGrew, RecordGrows DEF Sessions
  <2> QED BY <1>0, <1>1, <1>2, <2>4, <2>5, MailGrows DEF IInv
<1> QED BY <1>4, <1>5

\* Steps of the store.
LEMMA StoreIInv ==
  ASSUME IInv, StoreStep, UNCHANGED <<journal, dispatchVars>>
  PROVE  IInv'
<1>0. DispatchTypes /\ Held /\ MailTypes /\ Busy /\ MailInv /\ OnceInv /\ ForkInv
  BY DEF IInv
<1>1. (MailTypes /\ Busy /\ MailInv)'
  BY <1>0, StoreBase, StoreInv
<1>2. (DispatchTypes /\ Held)'
  BY <1>0 DEF dispatchVars, DispatchTypes, Held
<1>3. OnceInv'
  BY <1>0, OnceKept DEF dispatchVars
<1>4. ForkInv'
  BY <1>0, <1>2, OthersFork DEF dispatchVars, DispatchTypes
<1> QED BY <1>0, <1>1, <1>2, <1>3, <1>4 DEF IInv

\* Steps of a receiver.
LEMMA ReceiveIInv ==
  ASSUME IInv, NEW r \in Receivers, Receive(r), UNCHANGED dispatchVars
  PROVE  IInv'
<1>0. DispatchTypes /\ Held /\ MailTypes /\ Busy /\ MailInv /\ OnceInv /\ ForkInv
  BY DEF IInv
<1>1. UNCHANGED <<catalog, configs, queue, disp, completer, forkLinked>>
  BY DEF dispatchVars
<1>2. CASE Quiet(r) /\ UNCHANGED journal
  <2>1. (MailTypes /\ Busy /\ MailInv)'
    BY <1>0, <1>2, QuietInv
  <2>2. (DispatchTypes /\ Held)'
    BY <1>0, <1>1, <1>2 DEF DispatchTypes, Held
  <2>3. OnceInv'
    BY <1>0, <1>1, <1>2, OnceKept
  <2>4. ForkInv'
    BY <1>0, <1>1, <1>2, <2>2, OthersFork DEF DispatchTypes
  <2> QED BY <2>1, <2>2, <2>3, <2>4 DEF IInv
<1>3. CASE Incorporate(r)
  <2>1. (MailTypes /\ Busy /\ MailInv)' /\ journal' \in [Sessions -> Seq(Event)]
    BY <1>0, <1>3, IncorporateInv
  <2>2. (DispatchTypes /\ Held)'
    BY <1>0, <1>1, <2>1 DEF DispatchTypes, Held
  <2>3. OnceInv'
    BY <1>0, <1>1, <1>3, ReceiveOnce DEF MailInv
  <2>4. \E e : Record(Parent, e) /\ e.type # "child.started"
    BY <1>3 DEF Incorporate, MailboxEvent
  <2>5. ForkInv'
    BY <1>0, <1>1, <2>1, <2>4, OthersFork
  <2> QED BY <2>1, <2>2, <2>3, <2>5 DEF IInv
<1> QED BY <1>2, <1>3 DEF Receive

\* Every step keeps the inductive invariant.
LEMMA NextIInv == IInv /\ [Next]_vars => IInv'
<1> SUFFICES ASSUME IInv, [Next]_vars PROVE IInv'
  OBVIOUS
<1>1. CASE Next
  BY <1>1, DispatchIInv, StoreIInv, ReceiveIInv DEF Next
<1>2. CASE UNCHANGED vars
  <2>1. UNCHANGED <<journal, disk, box, op, receiver, accepted, confirmed>>
        /\ UNCHANGED <<catalog, configs, queue, disp, completer, forkLinked>>
    BY <1>2 DEF vars, dispatchVars, mailboxVars
  <2>2. (DispatchTypes /\ Held /\ MailTypes /\ Busy)'
    BY <2>1 DEF IInv, DispatchTypes, Held, MailTypes, Busy
  <2>3. MailInv'
    BY <2>1 DEF IInv, MailInv, Known, Telling, Marked, Delivery, Kept, Current
  <2>4. OnceInv'
    BY <2>1, OnceKept DEF IInv
  <2>5. ForkInv'
    BY <2>1, <2>2, OthersFork DEF IInv, DispatchTypes
  <2> QED BY <2>2, <2>3, <2>4, <2>5 DEF IInv
<1> QED BY <1>1, <1>2

\* The inductive invariant holds of every behaviour.
LEMMA Inductive == Spec => []IInv
BY InitIInv, NextIInv, PTL DEF Spec

\* TypeOK: every journal, descriptor, snapshot and place is well formed.
THEOREM TypeCorrect == Spec => []TypeOK
<1>1. IInv => TypeOK
  BY DEF IInv, DispatchTypes, MailTypes, TypeOK
<1> QED BY <1>1, Inductive, PTL

\* ToldOnce: the parent's journal tells of a mail, and of the child's
\* completion, at most once, whoever reports them and however often.
THEOREM ToldOnceAlways == Spec => []ToldOnce
<1>1. IInv => ToldOnce
  <2> SUFFICES ASSUME IInv PROVE ToldOnce
    OBVIOUS
  <2> DEFINE done == Completions(journal[Parent])
  <2>1. done \in SUBSET (1 .. Len(journal[Parent])) /\ Len(journal[Parent]) \in Nat
    BY DEF IInv, DispatchTypes, Sessions, Completions
  <2>2. IsFiniteSet(done)
    BY <2>1, PositionsFinite
  <2>3. \A i, j \in done : i = j
    BY DEF IInv, OnceInv
  <2> HIDE DEF done
  <2>4. Cardinality(done) <= 1
    BY <2>2, <2>3, AtMostOne
  <2> QED BY <2>4 DEF IInv, OnceInv, ToldOnce, done, Completions
<1> QED BY <1>1, Inductive, PTL

\* DeliveredIsRecorded: no snapshot, not even one that a power loss brings
\* back, counts a mail as delivered that the journal does not tell of.
THEOREM DeliveredIsRecordedAlways == Spec => []DeliveredIsRecorded
<1>1. IInv => DeliveredIsRecorded
  BY DEF IInv, MailInv, Delivery, Tells, DeliveredIsRecorded
<1> QED BY <1>1, Inductive, PTL

\* AcceptedSurvive: what a resolved send or acknowledgement reported is in
\* every snapshot a reader or a restart may see, in place.
THEOREM AcceptedSurviveAlways == Spec => []AcceptedSurvive
<1>1. IInv => AcceptedSurvive
  BY DEF IInv, MailInv, Kept, AcceptedSurvive
<1> QED BY <1>1, Inductive, PTL

\* WorkIsRunnable: queued work has its descriptor, config, begun journal and
\* agreeing link, and no link too many, however many dispatchers race or die.
THEOREM WorkIsRunnableAlways == Spec => []WorkIsRunnable
<1>1. IInv => WorkIsRunnable
  <2> SUFFICES ASSUME IInv, queue # None PROVE WorkIsRunnable
    BY DEF WorkIsRunnable
  <2>1. ForkAgrees /\ LinkedOnce /\ QueueInv /\ DispatchTypes
    BY DEF IInv, ForkInv
  <2>2. /\ catalog[Child] # None /\ queue = WorkOf(catalog[Child])
        /\ catalog[Child].config \in configs
        /\ journal[Child] # <<>> /\ Links(journal[Parent]) # {}
        /\ journal[Child][1] = SessionStarted(catalog[Child])
    BY <2>1 DEF QueueInv, ForkAgrees
  <2>3. Len(journal[Child]) > 0
    <3>1. journal[Child] \in Seq(Event)
      BY <2>1 DEF DispatchTypes, Sessions
    <3> QED BY <2>2, <3>1, EmptySeq
  <2>4. \A i \in Links(journal[Parent]) :
          catalog[Child].fork < i /\ LinkAgrees(journal[Parent][i], catalog[Child])
    BY <2>1 DEF ForkAgrees, LinkAgrees
  <2>5. Cardinality(Links(journal[Parent])) <= (IF forkLinked THEN 2 ELSE 1)
    BY <2>1 DEF LinkedOnce
  <2> QED BY <2>2, <2>3, <2>4, <2>5 DEF WorkIsRunnable, Links, WorkOf
<1> QED BY <1>1, Inductive, PTL
=============================================================================
