--------------------------- MODULE Orchestration ----------------------------
(***************************************************************************)
(* A parent session that delegates: dispatchers fork and queue the child   *)
(* (module SessionDispatch) while its results and other mail reach the     *)
(* parent through the mailbox (module Mailbox) or through completeChild,   *)
(* all of them writing the parent's journal.                               *)
(***************************************************************************)
EXTENDS SessionDispatch, Mailbox

CONSTANTS FairDispatcher, FairReceiver    \* the ones that keep trying

ASSUME OrchestrationAssumption ==
  FairDispatcher \in Dispatchers /\ FairReceiver \in Receivers

vars == <<journal, faults, dispatchVars, mailboxVars>>

Init == DispatchInit /\ MailboxInit

\* Mail is sent once the child's work is queued and no dispatcher is left.
Dispatched == queue # None /\ \A d \in Dispatchers : disp[d].pc = "idle"

Next ==
  \/ (\/ Create
      \/ \E d \in Dispatchers : Fork(d) \/ Recover(d) \/ Crash(d)
      \/ \E c \in Completers : Complete(c)) /\ UNCHANGED mailboxVars
  \/ Dispatched /\ StoreStep /\ UNCHANGED <<journal, dispatchVars>>
  \/ \E r \in Receivers : Receive(r) /\ UNCHANGED dispatchVars

\* One host keeps dispatching until the work is queued and one keeps receiving,
\* trying again whenever a head conflicts; all others may stall.  The store
\* finishes what it began.
Fairness ==
  /\ WF_vars((Fork(FairDispatcher) \/ Recover(FairDispatcher)) /\ UNCHANGED mailboxVars)
  /\ WF_vars(Synced /\ UNCHANGED <<journal, dispatchVars>>)
  /\ WF_vars(Receive(FairReceiver) /\ UNCHANGED dispatchVars)

Spec == Init /\ [][Next]_vars /\ Fairness

-----------------------------------------------------------------------------
TypeOK ==
  /\ journal \in [Sessions -> Seq(Event)]
  /\ catalog \in [Sessions -> Descriptor \cup {None}]
  /\ configs \subseteq Configs /\ queue \in WorkItem \cup {None}
  /\ disp \in [Dispatchers -> Dispatcher] /\ completer \in [Completers -> Completer]
  /\ \A snapshot \in disk \cup {box} : IsSnapshot(snapshot)
  /\ op \in Operation \cup {None}
  /\ receiver \in [Receivers -> Receiver]

\* However a mail or the child's result gets to the parent, and however often
\* it is tried, the parent is told once.
ToldOnce ==
  LET told == journal[Parent]
  IN  /\ \A i, j \in 1 .. Len(told) :
           told[i].mail = told[j].mail /\ told[i].mail # None => i = j
      /\ Cardinality({i \in 1 .. Len(told) : told[i].type = "child.completed"}) <= 1

\* A mail counts as delivered, now or after a power loss, only if the journal
\* tells what it says.
DeliveredIsRecorded ==
  \A snapshot \in disk \cup {box} : \A i \in 1 .. Len(snapshot) :
    LET r == snapshot[i]
    IN  r.delivery # 0 =>
          /\ r.delivery \in 1 .. Len(journal[Parent])
          /\ LET e == journal[Parent][r.delivery]
             IN  /\ e.value = Reported(r.mail)
                 /\ e.mail = r.mail \/ (r.mail \in Results /\ e.type = "child.completed")

\* What send or acknowledge reported is kept, in place, through failed saves,
\* crashes and power losses.
AcceptedSurvive ==
  \A snapshot \in disk \cup {box} :
    /\ \A a \in accepted : a[1] <= Len(snapshot) /\ snapshot[a[1]].mail = a[2]
    /\ \A c \in confirmed : c[1] <= Len(snapshot) /\ snapshot[c[1]].delivery = c[2]

\* Queued work can be run: its session is in the catalog and begins its own
\* journal, its config is stored, and the parent's journal has the fork event,
\* followed by a link that agrees, and by one only, however many recoveries
\* race.  (fork appends its own link without looking: when a recovery was
\* faster, there are two.)
WorkIsRunnable ==
  queue # None =>
    LET child == catalog[Child]
        links == {i \in 1 .. Len(journal[Parent]) : journal[Parent][i].type = "child.started"}
    IN  /\ child # None /\ child.config \in configs
        /\ queue = [config |-> child.config, created |-> child.created]
        /\ Len(journal[Child]) > 0 /\ journal[Child][1] = SessionStarted(child)
        /\ links # {} /\ Cardinality(links) <= (IF forkLinked THEN 2 ELSE 1)
        /\ \A i \in links : child.fork < i /\ LinkAgrees(journal[Parent][i], child)

\* A mail is stuck when a pending result at or before it says something else
\* than the completion the journal has.
Blocked(mail) ==
  \E i \in 1 .. RecordAt(box, mail) :
    box[i].delivery = 0 /\ Conflicting(box[i].mail, journal[Parent])
Delivered(mail) ==
  RecordAt(box, mail) # 0 /\ box[RecordAt(box, mail)].delivery # 0

EventuallyDelivered ==
  []<>(\A a \in accepted : Delivered(a[2]) \/ Blocked(a[2]))

\* Once the parent has begun, its child's work is queued, whoever dies or
\* loses a race on the way.
EventuallyDispatched == (journal[Parent] # <<>>) ~> (queue # None)
=============================================================================
