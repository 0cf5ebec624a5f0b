------------------------------- MODULE Mailbox ------------------------------
(***************************************************************************)
(* Mail for a parent session: the FileMailboxStore of one host             *)
(* (src/src/node/mailbox.ts over MemoryMailboxStore), and receiveMailbox   *)
(* (src/src/mailbox.ts), which moves pending mail into the session's       *)
(* journal and acknowledges it afterwards.                                 *)
(*                                                                         *)
(* The store runs one operation at a time.  A write is a new snapshot in a *)
(* temporary file, which nobody sees, that is renamed over the old one and *)
(* then made durable by a sync of the directory.  It may fail before or    *)
(* after the rename, the host may die at any point, and a power loss may   *)
(* bring back an older snapshot.                                           *)
(***************************************************************************)
EXTENDS SessionJournals

CONSTANTS
  Receivers,    \* calls of receiveMailbox that may run at the same time
  Batch,        \* maxMessages
  MaxSends      \* bound: calls of send

ASSUME MailboxAssumption ==
  /\ {Batch, MaxSends} \subseteq Nat
  /\ Batch > 0
  /\ None \notin Receivers

VARIABLES
  box,          \* mailbox.json as a reader sees it
  disk,         \* the snapshots a power loss may leave
  op,           \* the write whose directory is being synced, None when idle
  receiver,     \* where each receiver stands
  accepted,     \* history: mail whose send resolved, with its sequence number
  confirmed,    \* history: mail whose acknowledgement resolved, with its event
  sends         \* bound: calls of send so far

mailboxVars == <<box, disk, op, receiver, accepted, confirmed, sends>>

Mails == Texts \cup Results

\* delivery is the position of the journal event, 0 while the mail is pending.
MailboxRecord == [mail : Mails, delivery : Nat]

\* assertMailboxSnapshot: no mail is recorded twice.
IsSnapshot(snapshot) ==
  /\ snapshot \in Seq(MailboxRecord)
  /\ \A i, j \in 1 .. Len(snapshot) : snapshot[i].mail = snapshot[j].mail => i = j

\* A write: its caller (None: a sender) and the mail it is about.
Operation == [by : Receivers \cup {None}, mail : Mails]
ASSUME OperationAssumption == None \notin Operation

\* known is how much of the journal the receiver knows; event is the event of
\* the first mail of its batch, once it has one.
Receiver == [pc : {"idle", "reading", "working", "acknowledging", "waiting"},
             batch : Seq(Mails), known : Nat, event : Nat]
Idle == [pc |-> "idle", batch |-> <<>>, known |-> 0, event |-> 0]

\* The record of a mail in a snapshot, 0 for none.
RecordAt(snapshot, mail) == SelectInSeq(snapshot, LAMBDA r : r.mail = mail)

\* The positions of the mail that waits, and that mail in their order.
Waiting(snapshot) == {i \in 1 .. Len(snapshot) : snapshot[i].delivery = 0}
Nth(positions, k) ==
  CHOOSE i \in positions : Cardinality({j \in positions : j < i}) = k - 1
Pending(snapshot) ==
  [k \in 1 .. Cardinality(Waiting(snapshot)) |-> snapshot[Nth(Waiting(snapshot), k)].mail]

MailboxInit ==
  /\ box = <<>> /\ disk = {<<>>} /\ op = None
  /\ receiver = [r \in Receivers |-> Idle]
  /\ accepted = {} /\ confirmed = {} /\ sends = 0

-----------------------------------------------------------------------------
(* Faulty variants, each put in place of the definition it is named after.  *)

\* A result reported in another way is not recognised.
Recognised_ByMailOnly(mail, events) ==
  SelectInSeq(events, LAMBDA e : e.mail = mail)

\* A completion with another value is taken for the mail's.
Conflicting_Never(mail, events) == FALSE

\* The write is over as soon as the snapshot is renamed.
Surviving_AtRename(snapshot) == disk \cup {snapshot}

\* A repeated send is recorded again.
Sent_Again(mail) == Append(box, [mail |-> mail, delivery |-> 0])

\* Mail waits until a batch is full.
NextBatch_Full(snapshot) ==
  LET pending == Pending(snapshot)
  IN  IF Len(pending) < Batch THEN <<>> ELSE SubSeq(pending, 1, Batch)

-----------------------------------------------------------------------------
(* The store.                                                               *)

\* send: a mail that is recorded already keeps its record; every send saves.
\* (No sender uses an id for two envelopes, which send refuses.)
Sent(mail) ==
  IF RecordAt(box, mail) # 0 THEN box ELSE Append(box, [mail |-> mail, delivery |-> 0])

\* The snapshot is written and renamed; after a power loss it may be there.
Write(snapshot, by, mail) ==
  /\ op = None
  /\ box' = snapshot /\ disk' = disk \cup {snapshot}
  /\ op' = [by |-> by, mail |-> mail]

Send(mail) ==
  /\ sends < MaxSends /\ sends' = sends + 1
  /\ Write(Sent(mail), None, mail)
  /\ UNCHANGED <<receiver, accepted, confirmed, faults>>

\* What a power loss may leave once the directory is synced.
Surviving(snapshot) == {snapshot}

\* The receiver goes on with the next mail of its batch.
Advanced(r) ==
  IF Len(receiver[r].batch) = 1 THEN Idle
  ELSE [receiver[r] EXCEPT !.pc = "working", !.batch = Tail(@), !.event = 0]

\* syncDirectory returns, and with it the caller's send or acknowledge.
Synced ==
  /\ op # None
  /\ disk' = Surviving(box)
  /\ op' = None
  /\ LET i == RecordAt(box, op.mail)
     IN  IF op.by = None
         THEN accepted' = accepted \cup {<<i, op.mail>>} /\ UNCHANGED <<receiver, confirmed>>
         ELSE /\ confirmed' = confirmed \cup {<<i, box[i].delivery>>}
              /\ receiver' = [receiver EXCEPT ![op.by] = Advanced(op.by)]
              /\ UNCHANGED accepted
  /\ UNCHANGED <<box, sends, faults>>

\* Syncing the directory fails: the caller's promise rejects.
SyncFails ==
  /\ op # None /\ Fault
  /\ op' = None
  /\ receiver' = [r \in Receivers |-> IF r = op.by THEN Idle ELSE receiver[r]]
  /\ UNCHANGED <<box, disk, accepted, confirmed, sends>>

\* Writing the temporary file fails.  (A send that fails so changes nothing.)
WriteFails(r) ==
  /\ receiver[r].pc = "acknowledging" /\ op = None /\ Fault
  /\ receiver' = [receiver EXCEPT ![r] = Idle]
  /\ UNCHANGED <<box, disk, op, accepted, confirmed, sends>>

HostDies ==
  /\ Fault
  /\ op # None \/ \E r \in Receivers : receiver[r].pc # "idle"
  /\ op' = None /\ receiver' = [r \in Receivers |-> Idle]
  /\ UNCHANGED <<box, disk, accepted, confirmed, sends>>

PowerLost ==
  /\ Fault
  /\ \E snapshot \in disk : box' = snapshot /\ disk' = {snapshot}
  /\ op' = None /\ receiver' = [r \in Receivers |-> Idle]
  /\ UNCHANGED <<accepted, confirmed, sends>>

-----------------------------------------------------------------------------
(* receiveMailbox.                                                          *)

NextBatch(snapshot) ==
  LET pending == Pending(snapshot)
  IN  SubSeq(pending, 1, IF Len(pending) < Batch THEN Len(pending) ELSE Batch)

ReadPending(r) ==
  /\ receiver[r].pc = "idle" /\ op = None /\ NextBatch(box) # <<>>
  /\ receiver' = [receiver EXCEPT ![r] = [Idle EXCEPT !.pc = "reading", !.batch = NextBatch(box)]]
  /\ UNCHANGED <<box, disk, op, accepted, confirmed, sends, faults>>

ReadJournal(r) ==
  /\ receiver[r].pc = "reading"
  /\ receiver' = [receiver EXCEPT ![r].pc = "working", ![r].known = Len(journal[Parent])]
  /\ UNCHANGED <<box, disk, op, accepted, confirmed, sends, faults>>

\* The event that tells of a mail already: its own, or for a result the
\* child's completion, however it was reported.  0 for none.
Recognised(mail, events) ==
  LET own == SelectInSeq(events, LAMBDA e : e.mail = mail)
  IN  IF own # 0 \/ mail \in Texts THEN own ELSE CompletionIn(events)

\* A recognised completion has another result.
Conflicting(mail, events) ==
  LET i == Recognised(mail, events) IN i # 0 /\ events[i].value # Reported(mail)

Working(r) == receiver[r].pc = "working"
Current(r) == Head(receiver[r].batch)
KnownTo(r) == Read(receiver[r].known)

\* The next mail is in the journal already.
Recognise(r) ==
  /\ Working(r)
  /\ Recognised(Current(r), KnownTo(r)) # 0 /\ ~Conflicting(Current(r), KnownTo(r))
  /\ receiver' = [receiver EXCEPT ![r].pc = "acknowledging",
                                  ![r].event = Recognised(Current(r), KnownTo(r))]
  /\ UNCHANGED <<box, disk, op, accepted, confirmed, sends, faults>>

\* Its completion is in the journal with another result: the receiver throws.
Conflict(r) ==
  /\ Working(r) /\ Conflicting(Current(r), KnownTo(r))
  /\ receiver' = [receiver EXCEPT ![r] = Idle]
  /\ UNCHANGED <<box, disk, op, accepted, confirmed, sends, faults>>

Incorporate(r) ==
  /\ Working(r) /\ Recognised(Current(r), KnownTo(r)) = 0
  /\ HeadIs(Parent, receiver[r].known)
  /\ Record(Parent, MailboxEvent(Current(r)))
  /\ receiver' = [receiver EXCEPT ![r].pc = "acknowledging",
                                  ![r].event = receiver[r].known + 1, ![r].known = @ + 1]
  /\ UNCHANGED <<box, disk, op, accepted, confirmed, sends, faults>>

\* Another writer was faster: the append throws, and with it the receiver.
LoseRace(r) ==
  /\ Working(r) /\ Recognised(Current(r), KnownTo(r)) = 0
  /\ ~HeadIs(Parent, receiver[r].known)
  /\ receiver' = [receiver EXCEPT ![r] = Idle]
  /\ UNCHANGED <<box, disk, op, accepted, confirmed, sends, faults>>

\* acknowledge: only an equal acknowledgement may be repeated; others throw.
MayAcknowledge(i, event) == i # 0 /\ box[i].delivery \in {0, event}

Acknowledge(r) ==
  /\ receiver[r].pc = "acknowledging" /\ op = None
  /\ LET i == RecordAt(box, Current(r))
     IN  IF MayAcknowledge(i, receiver[r].event)
         THEN /\ Write([box EXCEPT ![i].delivery = receiver[r].event], r, Current(r))
              /\ receiver' = [receiver EXCEPT ![r].pc = "waiting"]
         ELSE receiver' = [receiver EXCEPT ![r] = Idle] /\ UNCHANGED <<box, disk, op>>
  /\ UNCHANGED <<accepted, confirmed, sends, faults>>

-----------------------------------------------------------------------------

\* Steps that leave the journal alone, and steps of a receiver.
StoreStep ==
  \/ \E mail \in Mails : Send(mail)
  \/ \E r \in Receivers : WriteFails(r)
  \/ Synced \/ SyncFails \/ HostDies \/ PowerLost
Quiet(r) ==
  ReadPending(r) \/ ReadJournal(r) \/ Recognise(r) \/ Conflict(r) \/ LoseRace(r) \/ Acknowledge(r)
Receive(r) == (Quiet(r) /\ UNCHANGED journal) \/ Incorporate(r)
=============================================================================
