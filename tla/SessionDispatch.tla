--------------------------- MODULE SessionDispatch --------------------------
(***************************************************************************)
(* Sessions across a catalog and two journals: SessionManager.create, fork *)
(* and completeChild (src/src/sessions.ts), and forkAndDispatch with its   *)
(* recovery (src/src/orchestration.ts), which ends in the work queue.      *)
(*                                                                         *)
(* Every await is a step of its own and a process may die before any of    *)
(* them; its host repeats the call with the same child id and config.      *)
(***************************************************************************)
EXTENDS SessionJournals

CONSTANTS
  Dispatchers,    \* processes that fork and dispatch the child
  ConfigOf,       \* the config each dispatcher wants for it
  Completers      \* processes that record the child's result

ASSUME SessionDispatchAssumption == ConfigOf \in [Dispatchers -> Configs]

VARIABLES
  catalog,      \* the descriptor stored for the parent and for the child
  configs,      \* the stored configs
  queue,        \* the work item queued for the child, None before
  creator,      \* where the creation of the parent stands
  disp,         \* where each dispatcher stands
  completer,    \* where each completer stands
  forkLinked    \* history: whether a fork linked the child itself

dispatchVars == <<catalog, configs, queue, creator, disp, completer, forkLinked>>

\* The fork to make, and the descriptor once it is made or found; known is
\* the part of the parent's journal that was read.
Dispatcher == [pc : {"idle", "forking", "config", "session", "start", "link", "raced",
                     "recover", "readFork", "readChild", "startChild", "readParent",
                     "linkParent", "enqueue"},
               session : Descriptor \cup {None}, known : Nat]
Completer == [pc : {"idle", "appending"}, value : Values \cup {None}, known : Nat]

WorkItem == [config : Configs, created : Stamps]
ASSUME WorkItemAssumption == None \notin WorkItem

AtRest == [pc |-> "idle", session |-> None, known |-> 0]
NoResult == [pc |-> "idle", value |-> None, known |-> 0]

DispatchInit ==
  /\ journal = [s \in Sessions |-> <<>>]
  /\ catalog = [s \in Sessions |-> None]
  /\ configs = {} /\ queue = None /\ creator = "idle"
  /\ disp = [d \in Dispatchers |-> AtRest]
  /\ completer = [c \in Completers |-> NoResult]
  /\ forkLinked = FALSE /\ faults = 0

-----------------------------------------------------------------------------
(* Faulty variants, each put in place of the definition it is named after.  *)

\* Recovery links the child without expecting the head it looked at.
LinkHead_Unchecked(d) == TRUE

\* Recovery compares the first event with the fork it would make now.
Begun_AtHead(session) ==
  journal[Child][1] = SessionStarted([session EXCEPT !.fork = Len(journal[Parent])])

-----------------------------------------------------------------------------
(* The catalog: identical puts are idempotent, others throw.                *)

Puttable(s, session) == catalog[s] \in {None, session}

Put(s, session) ==
  /\ Puttable(s, session)
  /\ catalog' = [catalog EXCEPT ![s] = session]

-----------------------------------------------------------------------------
(* create: config, descriptor, then the first event of the journal.         *)

Root(config) == [config |-> config, created |-> 0, fork |-> 0]

CreateDescriptor ==
  /\ creator = "idle" /\ catalog[Parent] = None
  /\ \E config \in Configs : Put(Parent, Root(config)) /\ configs' = configs \cup {config}
  /\ creator' = "start"
  /\ UNCHANGED <<journal, queue, disp, completer, forkLinked, faults>>

CreateStart ==
  /\ creator = "start" /\ HeadIs(Parent, 0)
  /\ Record(Parent, SessionStarted(catalog[Parent]))
  /\ creator' = "idle"
  /\ UNCHANGED <<catalog, configs, queue, disp, completer, forkLinked, faults>>

-----------------------------------------------------------------------------
(* forkAndDispatch.                                                         *)

Go(d, pc) == disp' = [disp EXCEPT ![d].pc = pc]
Fail(d) == disp' = [disp EXCEPT ![d] = AtRest]
OnlyDisp == UNCHANGED <<journal, catalog, configs, queue, creator, completer, forkLinked, faults>>

\* A host calls until the work is queued (bound: not again afterwards).
Call(d) ==
  /\ disp[d].pc = "idle" /\ queue = None
  /\ IF catalog[Child] = None THEN Go(d, "forking")
     ELSE disp' = [disp EXCEPT ![d].pc = "recover", ![d].session = catalog[Child]]
  /\ OnlyDisp

\* fork: the parent, and the last event of its journal.
ReadForkPoint(d) ==
  /\ disp[d].pc = "forking"
  /\ IF catalog[Parent] = None \/ HeadIs(Parent, 0) THEN Go(d, "raced")
     ELSE disp' = [disp EXCEPT ![d].pc = "config", ![d].known = Len(journal[Parent])]
  /\ OnlyDisp

PutForkConfig(d) ==
  /\ disp[d].pc = "config"
  /\ configs' = configs \cup {ConfigOf[d]}
  /\ Go(d, "session")
  /\ UNCHANGED <<journal, catalog, queue, creator, completer, forkLinked, faults>>

\* Time is counted from the first descriptor of the child.
StampsNow == IF catalog[Child] = None THEN {1} ELSE Stamps

PutChild(d) ==
  /\ disp[d].pc = "session"
  /\ \E stamp \in StampsNow :
       LET child == [config |-> ConfigOf[d], created |-> stamp, fork |-> disp[d].known]
       IN  IF Puttable(Child, child)
           THEN /\ Put(Child, child)
                /\ disp' = [disp EXCEPT ![d] = [pc |-> "start", session |-> child, known |-> 0]]
           ELSE /\ disp' = [disp EXCEPT ![d] = [AtRest EXCEPT !.pc = "raced"]]
                /\ UNCHANGED catalog
  /\ UNCHANGED <<journal, configs, queue, creator, completer, forkLinked, faults>>

StartFork(d) ==
  /\ disp[d].pc = "start"
  /\ IF HeadIs(Child, 0)
     THEN Record(Child, SessionStarted(disp[d].session)) /\ Go(d, "link")
     ELSE Go(d, "raced") /\ UNCHANGED journal
  /\ UNCHANGED <<catalog, configs, queue, creator, completer, forkLinked, faults>>

\* fork appends its link without looking and without expecting a head.
LinkFork(d) ==
  /\ disp[d].pc = "link"
  /\ Record(Parent, ChildStarted(disp[d].session)) /\ Go(d, "enqueue")
  /\ forkLinked' = TRUE
  /\ UNCHANGED <<catalog, configs, queue, creator, completer, faults>>

\* The fork failed: recover if there is a descriptor now, rethrow if not.
Raced(d) ==
  /\ disp[d].pc = "raced"
  /\ IF catalog[Child] = None THEN Fail(d)
     ELSE disp' = [disp EXCEPT ![d].pc = "recover", ![d].session = catalog[Child]]
  /\ OnlyDisp

\* recoverFork: a descriptor that is not the wanted one is refused.
CheckFork(d) ==
  /\ disp[d].pc = "recover"
  /\ IF disp[d].session.config # ConfigOf[d] THEN Fail(d) /\ UNCHANGED configs
     ELSE configs' = configs \cup {ConfigOf[d]} /\ Go(d, "readFork")
  /\ UNCHANGED <<journal, catalog, queue, creator, completer, forkLinked, faults>>

ReadFork(d) ==
  /\ disp[d].pc = "readFork"
  /\ IF disp[d].session.fork \in 1 .. Len(journal[Parent]) THEN Go(d, "readChild") ELSE Fail(d)
  /\ OnlyDisp

\* ensureChildStart.
Begun(session) == journal[Child][1] = SessionStarted(session)

ReadChild(d) ==
  /\ disp[d].pc = "readChild"
  /\ IF HeadIs(Child, 0) THEN Go(d, "startChild")
     ELSE IF Begun(disp[d].session) THEN Go(d, "readParent")
     ELSE Fail(d)
  /\ OnlyDisp

StartChild(d) ==
  /\ disp[d].pc = "startChild"
  /\ IF HeadIs(Child, 0)
     THEN Record(Child, SessionStarted(disp[d].session)) /\ Go(d, "readParent")
     ELSE Go(d, "readChild") /\ UNCHANGED journal
  /\ UNCHANGED <<catalog, configs, queue, creator, completer, forkLinked, faults>>

\* ensureParentChildStart.
LinkAgrees(e, session) == e.session.fork = session.fork /\ e.session.config = session.config

ReadParent(d) ==
  /\ disp[d].pc = "readParent"
  /\ LET i == LinkIn(journal[Parent])
     IN  IF i = 0
         THEN disp' = [disp EXCEPT ![d].pc = "linkParent", ![d].known = Len(journal[Parent])]
         ELSE IF LinkAgrees(journal[Parent][i], disp[d].session) THEN Go(d, "enqueue")
         ELSE Fail(d)
  /\ OnlyDisp

LinkHead(d) == HeadIs(Parent, disp[d].known)

LinkParent(d) ==
  /\ disp[d].pc = "linkParent"
  /\ IF LinkHead(d)
     THEN Record(Parent, ChildStarted(disp[d].session)) /\ Go(d, "enqueue")
     ELSE Go(d, "readParent") /\ UNCHANGED journal
  /\ UNCHANGED <<catalog, configs, queue, creator, completer, forkLinked, faults>>

\* createSessionRunWork: everything in it comes from the descriptor.
WorkOf(session) == [config |-> session.config, created |-> session.created]

\* enqueue: the first item stays; a different one under its id is refused.
Enqueue(d) ==
  /\ disp[d].pc = "enqueue"
  /\ queue' = IF queue = None THEN WorkOf(disp[d].session) ELSE queue
  /\ Fail(d)
  /\ UNCHANGED <<journal, catalog, configs, creator, completer, forkLinked, faults>>

-----------------------------------------------------------------------------
(* completeChild, by whoever ran the child.                                 *)

OnlyCompleter == UNCHANGED <<catalog, configs, queue, creator, disp, forkLinked, faults>>

\* The call reads the parent's journal: a completion that is there already
\* ends it, equal or not.
Looked(value) ==
  IF CompletionIn(journal[Parent]) # 0 THEN NoResult
  ELSE [pc |-> "appending", value |-> value, known |-> Len(journal[Parent])]

Finish(c, value) ==
  /\ completer[c].pc = "idle" /\ queue # None
  /\ completer' = [completer EXCEPT ![c] = Looked(value)]
  /\ UNCHANGED journal /\ OnlyCompleter

ResultHead(c) == HeadIs(Parent, completer[c].known)

\* A conflict of heads leads to another look.
AppendCompletion(c) ==
  /\ completer[c].pc = "appending"
  /\ IF ResultHead(c)
     THEN /\ Record(Parent, ChildCompleted(completer[c].value))
          /\ completer' = [completer EXCEPT ![c] = NoResult]
     ELSE /\ completer' = [completer EXCEPT ![c] = Looked(@.value)]
          /\ UNCHANGED journal
  /\ OnlyCompleter

-----------------------------------------------------------------------------
(* A dispatcher dies; its host calls again.  A creator or completer that    *)
(* dies is one that takes no further step.                                  *)

Crash(d) ==
  /\ disp[d].pc # "idle" /\ Fault /\ Fail(d)
  /\ UNCHANGED <<journal, catalog, configs, queue, creator, completer, forkLinked>>

Fork(d) ==
  \/ Call(d) \/ ReadForkPoint(d) \/ PutForkConfig(d) \/ PutChild(d) \/ StartFork(d)
  \/ LinkFork(d) \/ Raced(d)
Recover(d) ==
  \/ CheckFork(d) \/ ReadFork(d) \/ ReadChild(d) \/ StartChild(d) \/ ReadParent(d)
  \/ LinkParent(d) \/ Enqueue(d)
Create == CreateDescriptor \/ CreateStart
Complete(c) ==
  (\E value \in Values : Finish(c, value)) \/ AppendCompletion(c)
=============================================================================
