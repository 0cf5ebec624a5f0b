-------------------------- MODULE SessionJournals --------------------------
(***************************************************************************)
(* The journals that sessions, dispatchers and mailbox receivers share.    *)
(* An append compares the head its writer expects.  Journals only grow and *)
(* their event ids are unique (module FencedJournal), so an event is its   *)
(* position and an expected head is the length of the journal that was     *)
(* read.                                                                   *)
(***************************************************************************)
EXTENDS Integers, Sequences, FiniteSets, SequencesExt

CONSTANTS
  Parent, Child,    \* two sessions: the root and the child forked from it
  Configs,          \* run configs
  Stamps,           \* readings of the clock when a session is created
  Texts,            \* ids of plain mail to the parent
  Results,          \* ids of mail that carries a result of the child
  Values,           \* what the child may conclude
  MaxFaults,        \* bound: processes that die, failed saves, power losses
  None

ASSUME SessionJournalsAssumption ==
  /\ Parent # Child
  /\ Texts \cap Results = {}
  /\ Stamps \subseteq Nat /\ 1 \in Stamps /\ MaxFaults \in Nat

VARIABLES
  journal,    \* the events of each session
  faults      \* bound: faults so far

Sessions == {Parent, Child}

(* ChildResult, SessionDescriptor and MailboxMessage.  The id of a mail     *)
(* stands for its whole envelope, ValueIn[id] for the result it carries.    *)
CONSTANT ValueIn
ASSUME ValueInAssumption == ValueIn \in [Results -> Values]

Descriptor == [config : Configs, created : Stamps \cup {0}, fork : Nat]
ASSUME DescriptorAssumption == None \notin Descriptor

\* The value a mail reports, None for plain mail.
Reported(mail) == IF mail \in Results THEN ValueIn[mail] ELSE None

\* The events this part of the system writes and looks for.
SessionStarted(s) == [type |-> "session.started", session |-> s, mail |-> None, value |-> None]
ChildStarted(s) == [type |-> "child.started", session |-> s, mail |-> None, value |-> None]
ChildCompleted(value) ==
  [type |-> "child.completed", session |-> None, mail |-> None, value |-> value]
MailboxEvent(mail) ==
  [type |-> IF mail \in Results THEN "child.completed" ELSE "mailbox.message.received",
   session |-> None, mail |-> mail, value |-> Reported(mail)]

Event == [type : {"session.started", "child.started", "child.completed",
                  "mailbox.message.received"},
          session : Descriptor \cup {None}, mail : Texts \cup Results \cup {None},
          value : Values \cup {None}]

\* The first n events of the parent, as a reader that saw them knows them.
Read(n) == SubSeq(journal[Parent], 1, n)

\* The first completion, or link, of the child among some events; 0 for none.
CompletionIn(events) == SelectInSeq(events, LAMBDA e : e.type = "child.completed")
LinkIn(events) == SelectInSeq(events, LAMBDA e : e.type = "child.started")

\* What assertExpectedJournalHead compares.
HeadIs(s, n) == Len(journal[s]) = n

Record(s, e) == journal' = [journal EXCEPT ![s] = Append(@, e)]

Fault == faults < MaxFaults /\ faults' = faults + 1
=============================================================================
