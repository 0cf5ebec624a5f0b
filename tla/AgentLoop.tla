----------------------------- MODULE AgentLoop -----------------------------
(***************************************************************************)
(* runAgentLoop (src/src/loop.ts) on one session: the turn loop, the       *)
(* parallel tool executions, mailbox receipt, and the repair of crash      *)
(* boundaries from the journal.                                            *)
(*                                                                         *)
(* Several processes may run the same session (a stalled one and its       *)
(* replacement); each may crash before any step and be started again.  The *)
(* model, the actions and the host hooks answer anything their types       *)
(* allow.  Other writers append to the journal in between.                 *)
(*                                                                         *)
(* Every loop append expects the head the process last saw.  Journals only *)
(* grow and their event ids are unique (module FencedJournal), so that     *)
(* head is represented by the number of events the process knows.          *)
(***************************************************************************)
EXTENDS Integers, Sequences, FiniteSets, SequencesExt

CONSTANTS
  Procs,        \* processes that may run the session
  Calls,        \* tool call ids the provider may use
  FreshCalls,   \* whether the provider never repeats a call id
  Width,        \* tool calls in one response, at most
  FinalStops,   \* stop reasons of responses without tool calls
  Receipts,     \* receipt statuses the action executor answers with
  Mails,        \* mailbox messages that may be sent to the session
  Limit,        \* maxTurns
  Batch,        \* maxMailboxMessagesPerTurn
  Aborts,       \* whether a host may abort or ask for a checkpoint
  MaxEvents,    \* bound: journal events
  MaxStarts,    \* bound: runs of the loop
  MaxForeign,   \* bound: events of other writers
  None

ASSUME AgentLoopAssumption ==
  /\ IsFiniteSet(Procs) /\ IsFiniteSet(Calls) /\ IsFiniteSet(Mails)
  /\ FinalStops \subseteq {"end", "length", "error", "aborted", "tool_use"}
  /\ Receipts \subseteq {"succeeded", "failed", "pending", "unknown"}
  /\ FreshCalls \in BOOLEAN /\ Aborts \in BOOLEAN
  /\ {Width, Limit, Batch, MaxEvents, MaxStarts, MaxForeign} \subseteq Nat
  /\ None \notin Calls \cup Mails

VARIABLES
  journal,    \* the session's events
  pending,    \* the session's unacknowledged mail, in the order it was sent
  sent,       \* history: mail ever sent, in order
  effects,    \* history: how often each call's side effect was performed
  starts,     \* bound: runs started so far
  foreign,    \* bound: foreign events so far
  pc,         \* where each process stands
  known,      \* SessionAppender.headId, as the length of the known journal
  turns,      \* turns taken in this run
  todo,       \* the actions a process is working through
  open,       \* what it must reconcile first: unreconciled, pending
  prior,      \* the interrupted model call it found, or the answer it got
  batch       \* the mail it is receiving, and whether the journal has it

local == <<pc, known, turns, todo, open, prior, batch>>
vars == <<journal, pending, sent, effects, starts, foreign, local>>

-----------------------------------------------------------------------------
(* Journal events.  The invocation id of an action is the position of its   *)
(* action.started event.                                                    *)

Statuses == {"succeeded", "failed", "pending", "unknown"}
Settled == {"succeeded", "failed"}
Stops == {"end", "length", "error", "aborted", "tool_use"}
Outcomes == {"completed", "checkpointed", "failed", "cancelled", "limited"}

Plain(type) == [type |-> type, call |-> None, inv |-> 0, status |-> "", calls |-> <<>>]

UserEvent(m) == [Plain("user") EXCEPT !.call = m]
StartedEvent == Plain("model.started")
InterruptedEvent == Plain("model.interrupted")
CompletedEvent(stop) == [Plain("model.completed") EXCEPT !.status = stop]
\* A completion with the error field; its telemetry says "error" too.
ErrorEvent == [Plain("model.completed") EXCEPT !.status = "threw"]
AssistantEvent(calls) == [Plain("assistant") EXCEPT !.calls = calls]
ActionStarted(call) ==
  [Plain("action.started") EXCEPT !.call = call, !.inv = Len(journal) + 1]
ActionCompleted(t) ==
  [Plain("action.completed") EXCEPT !.call = t.call, !.inv = t.inv, !.status = t.status]
ResultEvent(t) ==
  [Plain("result") EXCEPT !.call = t.call, !.inv = t.inv, !.status = t.status]
OutcomeEvent(status) == [Plain("run.completed") EXCEPT !.status = status]

Types == {"user", "model.started", "model.interrupted", "model.completed",
          "assistant", "action.started", "action.completed", "result",
          "protocol.error", "run.completed"}

Event == [type : Types, call : Calls \cup Mails \cup {None}, inv : Nat,
          status : Statuses \cup Stops \cup Outcomes \cup {"", "threw"},
          calls : Seq(Calls)]

IsMessage(e) == e.type \in {"user", "assistant", "result"}

\* The position of the last event of j that satisfies a test, 0 for none.
LastWhere(j, Test(_)) == SelectLastInSeq(j, Test)

-----------------------------------------------------------------------------
(* Actions a process works through.  A task is unstarted, started, executed *)
(* and done in turn; recovery also finds unresolved ones.                   *)

Task == [stage : {"unstarted", "started", "executed", "done", "unresolved"},
         call : Calls, inv : Nat, status : Statuses \cup {""}]

NewTask(call) == [stage |-> "unstarted", call |-> call, inv |-> 0, status |-> ""]

\* The last receipt recorded for an invocation, "" for none.
ReceiptOf(j, inv) ==
  LET i == LastWhere(j, LAMBDA e : e.type = "action.completed" /\ e.inv = inv)
  IN  IF i = 0 THEN "" ELSE j[i].status

\* The status of the last tool result recorded for an invocation.
ProjectedOf(j, inv) ==
  LET i == LastWhere(j, LAMBDA e : e.type = "result" /\ e.inv = inv)
  IN  IF i = 0 THEN "" ELSE j[i].status

HasResult(j, call) == \E i \in 1 .. Len(j) : j[i].type = "result" /\ j[i].call = call
HasStart(j, call) ==
  \E i \in 1 .. Len(j) : j[i].type = "action.started" /\ j[i].call = call

\* hasMatchingProjection.
ResultProjected(j, inv) ==
  \/ ProjectedOf(j, inv) = ReceiptOf(j, inv)
  \/ ProjectedOf(j, inv) = "" /\ HasResult(j, j[inv].call)

-----------------------------------------------------------------------------
(* Faulty variants, each put in place of the definition it is named after.  *)

\* Appends do not compare the head.
HeadExpected_Unchecked(p) == TRUE

\* Recovery runs every call that has no result.
Unstarted_NoResult(j, call) == ~HasResult(j, call)

\* Interrupted actions are taken as failed without a result in the journal.
Unresolved_PendingOnly(j, inv) == ReceiptOf(j, inv) \in {"pending", "unknown"}

\* A lost outcome is not looked for.
ModelState_NoReplay(j) == [state |-> "clean", calls |-> <<>>, stop |-> "end"]

\* Mail after the answer does not keep the finished turn from being replayed.
ContextAfter_Ignored(j, a) == FALSE

\* The turn limit is off by one.
TurnsLeft_OffByOne(p) == turns[p] <= Limit

\* Received mail is not looked up in the journal.
Journaled_NotSearched == {}

-----------------------------------------------------------------------------
(* What a run finds in the journal it reads.                                *)

\* inspectActionState: receipts whose tool result is missing, interrupted or
\* pending actions, and calls that never started, in that order.  A call that
\* never started is in one answer only: the model is not called beside it.
Unresolved(j, inv) == ReceiptOf(j, inv) \notin Settled
Unstarted(j, call) == ~HasStart(j, call) /\ ~HasResult(j, call)

Starts(j) == {i \in 1 .. Len(j) : j[i].type = "action.started"}
Missing(j) == {i \in Starts(j) : ReceiptOf(j, i) \in Settled /\ ~ResultProjected(j, i)}
Interrupted(j) == {i \in Starts(j) : Unresolved(j, i)}
NeverStarted(j) ==
  {x \in UNION {{i} \X DOMAIN j[i].calls : i \in 1 .. Len(j)} :
     Unstarted(j, j[x[1]].calls[x[2]])}

\* Positions <<event, call>> in the order of the journal.
Before(x, y) == x[1] < y[1] \/ (x[1] = y[1] /\ x[2] < y[2])
InOrder(S) ==
  [n \in 1 .. Cardinality(S) |->
     CHOOSE x \in S : Cardinality({y \in S : Before(y, x)}) = n - 1]

ActionsToRepair(j) ==
  LET missing == InOrder(Missing(j) \X {0})
      unresolved == InOrder(Interrupted(j) \X {0})
      unstarted == InOrder(NeverStarted(j))
      TaskAt(stage, i) == [stage |-> stage, call |-> j[i].call, inv |-> i,
                           status |-> ReceiptOf(j, i)]
  IN  [k \in DOMAIN missing |-> TaskAt("done", missing[k][1])]
      \o [k \in DOMAIN unresolved |-> TaskAt("unresolved", unresolved[k][1])]
      \o [k \in DOMAIN unstarted |-> NewTask(j[unstarted[k][1]].calls[unstarted[k][2]])]

\* Whether a context message follows the assistant message at position a.
ContextAfter(j, a) == \E i \in (a + 1) .. Len(j) : IsMessage(j[i])

\* inspectModelCallState of the open run segment: the interrupted model call,
\* or the finished turn whose outcome was lost.
ModelState(j) ==
  LET from == LastWhere(j, LAMBDA e : e.type = "run.completed")
      segment == SubSeq(j, from + 1, Len(j))
      last == LastWhere(segment, LAMBDA e :
                e.type \in {"model.started", "model.completed", "model.interrupted"})
      done == LastWhere(segment, LAMBDA e : e.type = "model.completed")
      answers == {i \in (done + 1) .. Len(segment) : segment[i].type = "assistant"}
      answer == CHOOSE i \in answers : \A k \in answers : i <= k
      Found(state) == [state |-> state, calls |-> <<>>, stop |-> "end"]
  IN  IF last > 0 /\ segment[last].type = "model.started" THEN Found("dangling")
      ELSE IF done = 0 \/ segment[done].status = "threw" THEN Found("clean")
      ELSE IF answers = {} THEN Found("lost")
      ELSE IF segment[answer].calls = <<>> /\ ~ContextAfter(segment, answer)
           THEN [Found("finished") EXCEPT !.stop = segment[done].status]
           ELSE Found("clean")

\* outcomeForFinalStop; "length" stands for pause and unknown as well, "error"
\* for content_filter.
FinalOutcome(stop) ==
  CASE stop = "end" -> "completed"
    [] stop = "error" -> "failed"
    [] stop = "aborted" -> "cancelled"
    [] stop \in {"length", "tool_use"} -> "checkpointed"

NoAnswer == [state |-> "none", calls |-> <<>>, stop |-> "end"]
NothingOpen == [unreconciled |-> FALSE, pending |-> FALSE]

Answer == [state : {"none", "clean", "dangling", "lost", "finished",
                    "answered", "refused", "threw", "continue"},
           calls : Seq(Calls), stop : Stops]

Phases == {"down", "repair", "top", "receive", "deliver", "call", "invoke",
           "answered", "message", "act", "failed", "refused", "unwinding"}

\* Type correctness of the journal, the mailbox and the memory of each
\* process; no process takes more turns than its limit.
TypeOK ==
  /\ journal \in Seq(Event)
  /\ pending \in Seq(Mails)
  /\ sent \in Seq(Mails)
  /\ effects \in [Calls -> Nat]
  /\ starts \in 0 .. MaxStarts
  /\ foreign \in 0 .. MaxForeign
  /\ pc \in [Procs -> Phases]
  /\ known \in [Procs -> 0 .. MaxEvents]
  /\ turns \in [Procs -> 0 .. Limit]
  /\ todo \in [Procs -> Seq(Task)]
  /\ open \in [Procs -> [unreconciled : BOOLEAN, pending : BOOLEAN]]
  /\ prior \in [Procs -> Answer]
  /\ batch \in [Procs -> Seq([mail : Mails, told : BOOLEAN])]

Init ==
  /\ journal = <<>>
  /\ pending = <<>> /\ sent = <<>>
  /\ effects = [c \in Calls |-> 0]
  /\ starts = 0 /\ foreign = 0
  /\ pc = [p \in Procs |-> "down"]
  /\ known = [p \in Procs |-> 0]
  /\ turns = [p \in Procs |-> 0]
  /\ todo = [p \in Procs |-> <<>>]
  /\ open = [p \in Procs |-> NothingOpen]
  /\ prior = [p \in Procs |-> NoAnswer]
  /\ batch = [p \in Procs |-> <<>>]

-----------------------------------------------------------------------------
(* Steps common to all phases.                                              *)

\* SessionAppender.append: the journal's head is the one the process knows.
HeadExpected(p) == known[p] = Len(journal)

Write(p, event) ==
  /\ HeadExpected(p)
  /\ Len(journal) < MaxEvents
  /\ journal' = Append(journal, event)
  /\ known' = [known EXCEPT ![p] = Len(journal) + 1]

Goto(p, phase) == pc' = [pc EXCEPT ![p] = phase]

\* The run is over for this process: its memory is gone.
Stop(p) ==
  /\ pc' = [pc EXCEPT ![p] = "down"]
  /\ known' = [known EXCEPT ![p] = 0]
  /\ turns' = [turns EXCEPT ![p] = 0]
  /\ todo' = [todo EXCEPT ![p] = <<>>]
  /\ open' = [open EXCEPT ![p] = NothingOpen]
  /\ prior' = [prior EXCEPT ![p] = NoAnswer]
  /\ batch' = [batch EXCEPT ![p] = <<>>]

\* appendOutcome and return.
Finish(p, status) ==
  /\ HeadExpected(p)
  /\ Len(journal) < MaxEvents
  /\ journal' = Append(journal, OutcomeEvent(status))
  /\ Stop(p)
  /\ UNCHANGED <<pending, sent, effects, starts, foreign>>

world == <<pending, sent, effects, starts, foreign>>
bounds == <<starts, foreign>>

-----------------------------------------------------------------------------
\* runAgentLoop reads the journal and inspects it.
Start(p) ==
  /\ pc[p] = "down"
  /\ starts < MaxStarts
  /\ starts' = starts + 1
  /\ Goto(p, "repair")
  /\ known' = [known EXCEPT ![p] = Len(journal)]
  /\ todo' = [todo EXCEPT ![p] = ActionsToRepair(journal)]
  /\ prior' = [prior EXCEPT ![p] = ModelState(journal)]
  /\ UNCHANGED <<journal, pending, sent, effects, foreign, turns, open, batch>>

\* recoverCrashBoundary works on one action at a time.
Repairing(p, stage) ==
  /\ pc[p] = "repair"
  /\ todo[p] # <<>>
  /\ Head(todo[p]).stage = stage

\* reconcileAction establishes no terminal receipt.
Unreconciled(p) ==
  /\ Repairing(p, "unresolved")
  /\ open' = [open EXCEPT ![p].unreconciled = TRUE]
  /\ todo' = [todo EXCEPT ![p] = Tail(@)]
  /\ UNCHANGED <<journal, world, pc, known, turns, prior, batch>>

\* reconcileAction returns a terminal receipt, which is recorded.
Reconcile(p) ==
  /\ Repairing(p, "unresolved")
  /\ \E status \in Settled :
       LET t == [Head(todo[p]) EXCEPT !.stage = "done", !.status = status]
       IN  /\ Write(p, ActionCompleted(t))
           /\ todo' = [todo EXCEPT ![p] = <<t>> \o Tail(@)]
  /\ UNCHANGED <<world, pc, turns, open, prior, batch>>

\* executeOne appends action.started: recovery one action at a time and only
\* with nothing left to reconcile, a turn in source order.
BeginAction(p) ==
  /\ \/ Repairing(p, "unstarted") /\ ~open[p].unreconciled
     \/ pc[p] = "act"
  /\ \E i \in 1 .. Len(todo[p]) :
       /\ todo[p][i].stage = "unstarted"
       /\ \A k \in 1 .. (i - 1) : todo[p][k].stage # "unstarted"
       /\ Write(p, ActionStarted(todo[p][i].call))
       /\ todo' = [todo EXCEPT ![p][i].stage = "started",
                               ![p][i].inv = Len(journal) + 1]
  /\ UNCHANGED <<world, pc, turns, open, prior, batch>>

\* The action's side effect happens and its receipt, of any status, is in
\* memory.  A run that throws does not take back the executions in flight.
Execute(p) ==
  /\ pc[p] \in {"repair", "act", "unwinding"}
  /\ \E i \in 1 .. Len(todo[p]), status \in Receipts :
       /\ todo[p][i].stage = "started"
       /\ todo' = [todo EXCEPT ![p][i].stage = "executed", ![p][i].status = status]
       /\ effects' = [effects EXCEPT ![todo[p][i].call] = @ + 1]
  /\ UNCHANGED <<journal, pending, sent, bounds, pc, known, turns, open, prior, batch>>

\* executeOne appends action.completed, in completion order.  The starts of a
\* turn are queued on the appender before any of its completions.
EndAction(p) ==
  /\ pc[p] \in {"repair", "act"}
  /\ pc[p] = "act" => \A i \in 1 .. Len(todo[p]) : todo[p][i].stage # "unstarted"
  /\ \E i \in 1 .. Len(todo[p]) :
       /\ todo[p][i].stage = "executed"
       /\ Write(p, ActionCompleted(todo[p][i]))
       /\ todo' = [todo EXCEPT ![p][i].stage = "done"]
  /\ UNCHANGED <<world, pc, turns, open, prior, batch>>

\* A tool-result message: of the first action under repair, or of a turn once
\* all of its executions have ended.
AppendResult(p) ==
  /\ todo[p] # <<>>
  /\ \/ Repairing(p, "done")
     \/ pc[p] = "act" /\ \A i \in 1 .. Len(todo[p]) : todo[p][i].stage = "done"
  /\ Write(p, ResultEvent(Head(todo[p])))
  /\ todo' = [todo EXCEPT ![p] = Tail(@)]
  /\ open' = [open EXCEPT ![p].pending = @ \/ Head(todo[p]).status \notin Settled]
  /\ UNCHANGED <<world, pc, turns, prior, batch>>

\* Recovery leaves the session checkpointed: actions await reconciliation.
CheckpointRepair(p) ==
  /\ pc[p] = "repair"
  /\ \/ open[p].unreconciled /\ (todo[p] = <<>> \/ Repairing(p, "unstarted"))
     \/ open[p].pending /\ todo[p] = <<>>
  /\ Finish(p, "checkpointed")

Repaired(p) ==
  /\ pc[p] = "repair"
  /\ todo[p] = <<>>
  /\ open[p] = NothingOpen

\* The interrupted model call is marked; a fresh call follows.
MarkInterrupted(p) ==
  /\ Repaired(p)
  /\ prior[p].state \in {"dangling", "lost"}
  /\ Write(p, InterruptedEvent)
  /\ Goto(p, "top")
  /\ prior' = [prior EXCEPT ![p] = NoAnswer]
  /\ UNCHANGED <<world, turns, todo, open, batch>>

\* The lost outcome of a finished turn is replayed.  Pending mail keeps a
\* completed run going.
ReplayOutcome(p) ==
  /\ Repaired(p)
  /\ prior[p].state = "finished"
  /\ LET status == FinalOutcome(prior[p].stop)
     IN  IF status = "completed" /\ pending # <<>>
         THEN /\ Write(p, OutcomeEvent(status))
              /\ Goto(p, "top")
              /\ prior' = [prior EXCEPT ![p] = NoAnswer]
              /\ UNCHANGED <<world, turns, todo, open, batch>>
         ELSE Finish(p, status)

NothingToReplay(p) ==
  /\ Repaired(p)
  /\ prior[p].state = "clean"
  /\ Goto(p, "top")
  /\ prior' = [prior EXCEPT ![p] = NoAnswer]
  /\ UNCHANGED <<journal, world, known, turns, todo, open, batch>>

-----------------------------------------------------------------------------
\* The head of the turn loop: the limit, an abort, a host checkpoint.
TurnsLeft(p) == turns[p] < Limit

LimitReached(p) == pc[p] = "top" /\ ~TurnsLeft(p) /\ Finish(p, "limited")

HostStops(p) ==
  /\ pc[p] = "top"
  /\ TurnsLeft(p)
  /\ Aborts
  /\ \E status \in {"cancelled", "checkpointed"} : Finish(p, status)

NextTurn(p) ==
  /\ pc[p] = "top"
  /\ TurnsLeft(p)
  /\ Goto(p, "receive")
  /\ UNCHANGED <<journal, world, known, turns, todo, open, prior, batch>>

\* Mail that has an event in the journal.
Journaled == {journal[i].call : i \in {i \in 1 .. Len(journal) : journal[i].type = "user"}}

\* receiveMailbox reads the oldest pending mail and then the journal; mail
\* another process receives in between is simply found there.
ReadMail(p) ==
  /\ pc[p] = "receive"
  /\ batch' = [batch EXCEPT ![p] =
       [i \in 1 .. Min({Len(pending), Batch}) |->
          [mail |-> pending[i], told |-> pending[i] \in Journaled]]]
  /\ Goto(p, "deliver")
  /\ UNCHANGED <<journal, world, known, turns, todo, open, prior>>

\* The first message is appended unless the journal had it, then acknowledged,
\* before the next.  Mail appended after a final answer asks for another turn.
DeliverMail(p) ==
  /\ pc[p] = "deliver"
  /\ batch[p] # <<>>
  /\ ~Head(batch[p]).told
  /\ Write(p, UserEvent(Head(batch[p]).mail))
  /\ batch' = [batch EXCEPT ![p][1].told = TRUE]
  /\ prior' = [prior EXCEPT ![p] = IF @.state = "none" THEN @ ELSE [NoAnswer EXCEPT !.state = "continue"]]
  /\ UNCHANGED <<world, pc, turns, todo, open>>

Unacknowledged(m) ==
  LET i == SelectInSeq(pending, LAMBDA x : x = m)
  IN  IF i = 0 THEN pending ELSE RemoveAt(pending, i)

Acknowledge(p) ==
  /\ pc[p] = "deliver"
  /\ batch[p] # <<>>
  /\ Head(batch[p]).told
  /\ pending' = Unacknowledged(Head(batch[p]).mail)
  /\ batch' = [batch EXCEPT ![p] = Tail(@)]
  /\ UNCHANGED <<journal, sent, effects, bounds, pc, known, turns, todo, open, prior>>

\* Before a turn, the model is called next; after a final answer, appended mail
\* asks for another turn.
MailDone(p) ==
  /\ pc[p] = "deliver"
  /\ batch[p] = <<>>
  /\ \/ /\ prior[p].state = "none"
        /\ Goto(p, "call")
        /\ turns' = [turns EXCEPT ![p] = @ + 1]
     \/ prior[p].state = "continue" /\ Goto(p, "top") /\ UNCHANGED turns
  /\ prior' = [prior EXCEPT ![p] = NoAnswer]
  /\ UNCHANGED <<journal, world, known, todo, open, batch>>

-----------------------------------------------------------------------------
\* A model call: model.call.started, then the invocation.
CallModel(p) ==
  /\ pc[p] = "call"
  /\ Write(p, StartedEvent)
  /\ Goto(p, "invoke")
  /\ UNCHANGED <<world, turns, todo, open, prior, batch>>

\* Call ids the provider may put into a response: distinct, and unused ones if
\* it never repeats an id.
Callable ==
  IF FreshCalls
  THEN Calls \ UNION {ToSet(journal[i].calls) : i \in 1 .. Len(journal)}
  ELSE Calls

Responses ==
  {[state |-> "answered", calls |-> <<>>, stop |-> stop] : stop \in FinalStops}
  \cup {[state |-> "answered", calls |-> cs, stop |-> "tool_use"] :
          cs \in {cs \in UNION {[1 .. n -> Callable] : n \in 1 .. Width} : IsInjective(cs)}}
  \cup {[NoAnswer EXCEPT !.state = "refused"], [NoAnswer EXCEPT !.state = "threw"]}

Invoke(p) ==
  /\ pc[p] = "invoke"
  /\ \E r \in Responses : prior' = [prior EXCEPT ![p] = r]
  /\ Goto(p, "answered")
  /\ UNCHANGED <<journal, world, known, turns, todo, open, batch>>

\* A thrown invocation and a response modelProtocolError refuses are recorded
\* as a completion with an error.
RecordError(p) ==
  /\ pc[p] = "answered"
  /\ prior[p].state \in {"threw", "refused"}
  /\ Write(p, ErrorEvent)
  /\ Goto(p, IF prior[p].state = "threw" THEN "failed" ELSE "refused")
  /\ prior' = [prior EXCEPT ![p] = NoAnswer]
  /\ UNCHANGED <<world, turns, todo, open, batch>>

\* After a thrown invocation: modelRetryDelayMs asks for a retry of the turn,
\* or the run fails; an abort during the delay cancels it.
RetryCall(p) ==
  /\ pc[p] = "failed"
  /\ Goto(p, "call")
  /\ UNCHANGED <<journal, world, known, turns, todo, open, prior, batch>>

FailRun(p) ==
  /\ pc[p] = "failed"
  /\ \/ Finish(p, "failed")
     \/ Aborts /\ Finish(p, "cancelled")

RecordProtocolError(p) ==
  /\ pc[p] = "refused"
  /\ prior[p].state = "none"
  /\ Write(p, Plain("protocol.error"))
  /\ prior' = [prior EXCEPT ![p].state = "refused"]
  /\ UNCHANGED <<world, pc, turns, todo, open, batch>>

FailRefused(p) ==
  /\ pc[p] = "refused"
  /\ prior[p].state = "refused"
  /\ Finish(p, "failed")

RecordCompletion(p) ==
  /\ pc[p] = "answered"
  /\ prior[p].state = "answered"
  /\ Write(p, CompletedEvent(prior[p].stop))
  /\ Goto(p, "message")
  /\ UNCHANGED <<world, turns, todo, open, prior, batch>>

\* The assistant message is appended.  Its calls are executed; a final answer
\* with stop reason "end" first receives the mail that raced it.
RecordMessage(p) ==
  /\ pc[p] = "message"
  /\ Write(p, AssistantEvent(prior[p].calls))
  /\ LET calls == prior[p].calls
     IN  IF calls # <<>>
         THEN /\ Goto(p, "act")
              /\ todo' = [todo EXCEPT ![p] = [i \in 1 .. Len(calls) |-> NewTask(calls[i])]]
              /\ prior' = [prior EXCEPT ![p] = NoAnswer]
         ELSE /\ Goto(p, IF prior[p].stop = "end" THEN "receive" ELSE "deliver")
              /\ UNCHANGED <<todo, prior>>
  /\ UNCHANGED <<world, turns, open, batch>>

\* A final answer ends the run.
EndRun(p) ==
  /\ pc[p] = "deliver"
  /\ prior[p].state = "answered"
  /\ batch[p] = <<>>
  /\ Finish(p, FinalOutcome(prior[p].stop))

\* All results of a turn are in the journal: go on, or leave the run
\* checkpointed because of an action whose receipt is not terminal.
TurnDone(p) ==
  /\ pc[p] = "act"
  /\ todo[p] = <<>>
  /\ IF open[p].pending
     THEN Finish(p, "checkpointed")
     ELSE /\ Goto(p, "top")
          /\ UNCHANGED <<journal, world, known, turns, todo, open, prior, batch>>

-----------------------------------------------------------------------------
\* Another writer moved the head: whatever the process appends next throws out
\* of the loop, and so does anything it had queued.
Conflict(p) ==
  /\ pc[p] \notin {"down", "unwinding"}
  /\ ~HeadExpected(p)
  /\ Goto(p, "unwinding")
  /\ UNCHANGED <<journal, world, known, turns, todo, open, prior, batch>>

\* The process dies, or the exception has left it.
Exit(p) ==
  /\ pc[p] # "down"
  /\ Stop(p)
  /\ UNCHANGED <<journal, world>>

\* Someone sends the session a message.
Send ==
  /\ \E m \in Mails \ ToSet(sent) :
       /\ sent' = Append(sent, m)
       /\ pending' = Append(pending, m)
  /\ UNCHANGED <<journal, effects, bounds, local>>

\* Another writer appends: a context message, mail received outside the loop,
\* or a receipt the host established for an action it once found interrupted
\* (appendActionReconciliation, which does not look at the journal again).
ForeignWrite ==
  /\ foreign < MaxForeign
  /\ foreign' = foreign + 1
  /\ Len(journal) < MaxEvents
  /\ \/ journal' = Append(journal, UserEvent(None))
     \/ \E i \in 1 .. Len(journal), status \in Settled :
          /\ journal[i].type = "action.started"
          /\ journal' = Append(journal, ActionCompleted(
               [call |-> journal[i].call, inv |-> i, status |-> status]))
  /\ UNCHANGED <<pending, sent, effects, starts, local>>

Loop(p) ==
  \/ Start(p) \/ Unreconciled(p) \/ Reconcile(p) \/ BeginAction(p)
  \/ Execute(p) \/ EndAction(p) \/ AppendResult(p) \/ CheckpointRepair(p)
  \/ MarkInterrupted(p) \/ ReplayOutcome(p) \/ NothingToReplay(p)
  \/ LimitReached(p) \/ HostStops(p) \/ NextTurn(p)
  \/ ReadMail(p) \/ DeliverMail(p) \/ Acknowledge(p) \/ MailDone(p)
  \/ CallModel(p) \/ Invoke(p) \/ RecordError(p) \/ RetryCall(p) \/ FailRun(p)
  \/ RecordProtocolError(p) \/ FailRefused(p)
  \/ RecordCompletion(p) \/ RecordMessage(p) \/ EndRun(p) \/ TurnDone(p)
  \/ Conflict(p) \/ Exit(p)

Next == (\E p \in Procs : Loop(p)) \/ Send \/ ForeignWrite

Spec == Init /\ [][Next]_vars

-----------------------------------------------------------------------------
\* Side effects happen at most once per call, and only behind a journaled
\* action.started, whoever crashes and however many processes run the session
\* (executeOne appends before it executes; recovery runs only calls without a
\* start; one of two racing starts loses the head).
EffectsAtMostOnce ==
  \A c \in Calls : effects[c] <= IF HasStart(journal, c) THEN 1 ELSE 0

\* Each call of a journal has a tool result, with the terminal status of its
\* receipt.
ActionsClosed(past) ==
  \A k \in 1 .. Len(past) : \A c \in ToSet(past[k].calls) :
    /\ HasResult(past, c)
    /\ \A n \in Starts(past) : past[n].call = c =>
         /\ ReceiptOf(past, n) \in Settled
         /\ ProjectedOf(past, n) = ReceiptOf(past, n)

\* When the model is called, every action it asked for is closed: the journal
\* up to the call has the terminal result of each (runAgentLoop appends
\* model.call.started after repair and after all results of a turn).
ModelSeesClosedActions ==
  \A i \in 1 .. Len(journal) :
    journal[i].type = "model.started" => ActionsClosed(SubSeq(journal, 1, i - 1))

\* A finished turn is not answered twice: between a final answer and the next
\* model call, the run ends or a new context message arrives (the lost outcome
\* is replayed instead of asking the model again).
FinishedTurnNotReinvoked ==
  \A i \in 1 .. Len(journal) : \A a \in 1 .. (i - 1) :
    /\ journal[i].type = "model.started"
    /\ journal[a].type = "assistant" /\ journal[a].calls = <<>>
    => \E k \in (a + 1) .. (i - 1) :
         journal[k].type = "run.completed" \/ IsMessage(journal[k])

\* The last answer of a journal stopped with "end" and saw everything: no
\* action is open, and no message came after the call that produced it.
AnswerSawAll(past) ==
  LET done == LastWhere(past, LAMBDA e : e.type = "model.completed")
      called == LastWhere(past, LAMBDA e : e.type = "model.started")
  IN  /\ done > 0 /\ past[done].status = "end"
      /\ ActionsToRepair(past) = <<>>
      /\ \A k \in called .. Len(past) : past[k].type # "user"

\* A run completes only on an answer that saw everything (appendOutcome after a
\* final answer, and the replay of an outcome a crash lost).
CompletedIsEarned ==
  \A i \in 1 .. Len(journal) :
    journal[i].type = "run.completed" /\ journal[i].status = "completed" =>
      AnswerSawAll(SubSeq(journal, 1, i - 1))

\* Where the journal has mail of the mailbox.
Tellings == {i \in 1 .. Len(journal) : journal[i].type = "user" /\ journal[i].call \in Mails}

\* No mail is lost, told twice or told out of order: acknowledged mail is in
\* the journal, no message is there more than once, and the journal has mail in
\* the order it was sent (append before acknowledge, one message at a time; the
\* journal is searched before the append).
MailOnce ==
  /\ ToSet(sent) \ ToSet(pending) \subseteq {journal[i].call : i \in Tellings}
  /\ \A i \in Tellings : LET k == Cardinality({n \in Tellings : n <= i})
                         IN  k <= Len(sent) /\ journal[i].call = sent[k]

\* Two runs of one session at once are as safe as one run: no effect twice, no
\* model call beside an open action, no outcome on an answer that did not see
\* the context, no mail told twice.  The expected head of each append is all
\* that stands between them.
ConcurrentSafety ==
  EffectsAtMostOnce /\ ModelSeesClosedActions /\ CompletedIsEarned /\ MailOnce

\* "Crash boundaries are repaired on startup: never-started calls execute": by
\* the next model call, every call of an answer was started after that answer.
JournaledCallsStart ==
  \A i \in 1 .. Len(journal) : \A a \in 1 .. (i - 1) :
    journal[i].type = "model.started" =>
      \A c \in ToSet(journal[a].calls) : \E k \in (a + 1) .. (i - 1) :
        journal[k].type = "action.started" /\ journal[k].call = c

\* "Tool-result context messages are appended in source-call order."
ResultsInSourceOrder ==
  \A a \in 1 .. Len(journal) :
    LET calls == journal[a].calls
    IN  \A y \in 1 .. Len(calls) : \A x \in 1 .. (y - 1) :
          HasResult(journal, calls[y]) =>
            \E i, k \in 1 .. Len(journal) :
              /\ i < k
              /\ journal[i].type = "result" /\ journal[i].call = calls[x]
              /\ journal[k].type = "result" /\ journal[k].call = calls[y]
=============================================================================
