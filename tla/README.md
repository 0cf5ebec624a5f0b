# Harness kernel: a TLA+ verification project

The repository is a TypeScript kernel for running agent sessions durably. A
session is an append-only *journal*; whoever executes it holds a fenced
*execution lease*; work is handed to worker processes by a leased *queue*; the
*agent loop* turns a journal into the next one (model call, tool calls, results)
and repairs what a crash left half done; *mailboxes*, *forks* and *child
results* connect sessions. This directory holds TLA+ models of that core, the
configurations TLC checks them with, and proofs that TLAPS checks.

Paths below are relative to the repository's root; `PROJECT.json` maps each
definition to the lines it translates.

## 1. Inventory

| Component | State it keeps | Operations | Interacts with |
|---|---|---|---|
| Session journal (`src/journal.ts`, `src/protocol.ts`) | per session, the chain of events (id, parent id, sequence) | append with optional expected head, read, validateChain | everything writes through it |
| Execution leases (`src/execution.ts`) | active lease and last fencing token per session | acquire (or share with the same owner), renew, release, fenced append | journal (a fenced append checks lease and head together), loop |
| Work queue (`src/work.ts`, `MemoryWorkQueue`) | a record per item: state, attempts, continuations, lease, last token | enqueue, get, claim, heartbeat, complete, checkpoint, fail, cancel; each first recovers expired leases | worker hosts, dispatcher |
| Worker host (`src/work.ts`, `WorkerHost`) | one delivery at a time | runOne: claim, handler, heartbeat, resolve | queue; its handler runs the loop |
| Agent loop (`src/loop.ts`) | none of its own that survives: all is in the journal | start (recovery), turn (receive mail, call the model, execute tools in parallel, append results), finish | journal, mailbox, provider, action executor, host hooks |
| Mailbox (`src/mailbox.ts`, `src/node/mailbox.ts`) | messages pending and delivered | send, read, acknowledge, receiveMailbox, waitForMailbox | sender sessions, journal of the recipient |
| JSONL journal (`src/node/journal.ts`) | a file per session, a cached tail | the journal's operations on disk | file system |
| Sessions (`src/sessions.ts`) | descriptors, links in journals | create, fork, completeChild, project | catalog, journals |
| Orchestration (`src/orchestration.ts`) | none | dispatch, forkAndDispatch, recoverFork | sessions, queue |
| Projection (`src/projection.ts`) | none | compaction, supersession, pairing of calls and results | reads journals for the loop |
| Providers (`src/providers.ts`) | none, or the state of one stream | normalise an answer, encode a context, read a stream | the wire, messages of the journal |
| Artifacts, session catalog (`src/artifacts.ts`, `src/node/artifacts.ts`, `src/node/sessions.ts`) | write-once files | put, get | file system |
| Conformance, viewer, wiring | - | - | not modelled, see section 7 |

### What is hard, and what makes each component correct

* **Journal and leases.** Two processes execute one session: one stalled past
  its lease, or both were configured with one owner id and share a live lease.
  Leases are timed by a wall clock that may step back (an expired lease is live
  again) or forward. Unfenced writers (fork links, reconciliations) append in
  between. *Correct when* the journal stays a chain, a superseded run writes
  nothing, every writer that expected a head knew all of the journal, and the
  whole behaves as a log with one open epoch.
* **Work queue.** Workers answer late, twice, or with the lease of an earlier
  delivery; recovery happens only inside later calls; attempts start over at a
  checkpoint while tokens must not. *Correct when* deliveries are bounded by the
  policy, acknowledgements are never accepted out of order, a live lease is
  never taken away, finished work stays finished, and work is given up only when
  its budget is spent.
* **Worker host.** A host keeps its lease object while the work may be
  redelivered, even to another host of the same worker id; hosts crash. *Correct
  when* no two hosts act on one delivery, a reported success is the host's own,
  and every submitted item ends.
* **Agent loop.** The process may die between any two appends; effects must not
  happen twice; parallel calls complete in any order; mail arrives while the
  final answer is produced; a second process runs the session at the same time.
  *Correct when* an effect happens at most once per call, no model call sees an
  unresolved action, a lost outcome is replayed instead of asked for again, a run
  completes only on an answer that saw everything, and mail is told once and in
  order.
* **Files.** Torn writes, stale caches, crashes between write, rename and sync.
* **Sessions and orchestration.** A fork is four writes to a catalog and two
  journals and ends in a queue; any process may die between two of them, another
  recovers at the same time, and its clock differs. *Correct when* queued work can
  be run (descriptor, config, first event and link are there and agree), the
  child is linked once, and the work is queued eventually.
* **Mailbox.** Append-before-acknowledge across two stores, with several
  receivers and with `completeChild` reporting the same result beside them; a
  save may fail after its rename, a power loss may bring back an older file.
  *Correct when* the parent is told once, what counts as delivered is in the
  journal, what was accepted stays, and mail is delivered eventually.
* **Projection.** Compactions, forks and reconciled results meet in any order.
  *Correct when* a visible call keeps its latest result, behind it, and a context
  changes only as its own session's events say.
* **Providers.** Three wire formats go in and out; opaque reasoning must return
  verbatim and in place; the network cuts a stream anywhere. *Correct when* the
  accumulated answer is the provider's, and what is sent is what was said.

`PROJECT.json` lists the hazards one by one, at the line where each bites, with
the properties that would catch it.

## 2. Modules

    EpochLog  <--refines--  FencedJournal  <--  FencedJournalProofs

    Deliveries  <--refines--  WorkQueue  <--composed by--  WorkerHost  <--  WorkProofs

    JsonlJournal  (a journal store of its own, on disk)  <--  JsonlJournalProofs
    AgentLoop  (relies on what FencedJournal establishes: append-only journals, unique ids)
        |
    AgentLoopProofs

    SessionJournals  <--  SessionDispatch  <--+
                     <--  Mailbox          <--+--  Orchestration  <--  OrchestrationProofs

    CanonicalMessages  <--  Projection               <--+
                       <--  Providers  <--  Streams  <--+--  Context  <--  ContextProofs
                                                                             |
                                                                        AnswerProofs

    PositionLemmas  <--used by--  AgentLoopProofs, OrchestrationProofs, JsonlJournalProofs,
                                  ContextProofs

**`FencedJournal`** - `MemoryFencedJournalStore` and the loop's
`SessionAppender`. `journal`, `activeLeases`, `lastTokens` are the store's maps,
`expiresAt` the expiry the store keeps; `held`, `attached`, `headId` are what a
run remembers: its lease object, the session its appender is bound to, and the
head it expects. Actions: `AcquireFresh`/`AcquireShared` (the two branches of
`acquireExecutionLease`), `Renew`, `Release`, `Attach` (the loop reads the
journal and builds its appender), `AppendFenced` (lease, clock and head checked
in one synchronous step, as in `appendFenced`), `AppendUnfenced`, `Exit`,
`ClockStep` (to *any* time). A run may present a lease of one session on
another. `seen` is a history variable: how much of the journal a run observed.

**`EpochLog`** - what a fenced journal promises: entries belong to the newest
open epoch or to none. Leases, owners, time and heads do not occur in it.

**`WorkQueue`** - `MemoryWorkQueue`. One record per item; `Recovered` is
`recoverExpired`, which every operation of the class runs first and which is
therefore part of every action (`Observe` is an operation that does nothing
else: `get`, an empty claim, a refused acknowledgement). `Heartbeat`,
`Complete`, `Checkpoint` and `Fail` are called with *any* token ever granted: a
worker may hold on to an old lease for ever. `acks` is a history of the
acknowledged tokens. The clock again steps to any time.

**`Deliveries`** - what a queue promises of an item: delivered once at a time and at
most so often, acknowledged while current and at most once, or lost; what has ended
stays. Leases, tokens, workers, time and the policy's two counters do not occur in
it. `ImplementsDeliveries` maps a record to where its item stands, how often it was
delivered (its last token) and which deliveries were acknowledged (`acks`).

**`WorkerHost`** - `WorkerHost.runOne` and `resolve` over that queue: claim,
handler with heartbeats, resolution, each a step of its own with arbitrary
stalls between; `Crash` at any point; `Submit` and `CancelWork` from outside.
Its clock (`Tick`) only moves forward, which liveness needs.

**`AgentLoop`** - `runAgentLoop`, `recoverCrashBoundary`, `inspectActionState`,
`inspectModelCallState`, `executeOne`, `receiveMailbox` on one session. The
journal is a sequence of typed events; what a process does is a program counter
and the list of tasks (`todo`) it works through. Each `await` that appends is a
step; each process may `Exit` before any of them and start again. The position
of an `action.started` event stands for its invocation id, and the number of
events a process knows for the head it expects: both are sound because journals
are append-only chains with unique ids, which `FencedJournal` establishes. The
provider, the executor and the hooks answer anything their types allow.

**`JsonlJournal`** - `JsonlJournalStore` on one session. `file` is the content
of `events.jsonl`, `disk` the set of contents a loss of power may leave (every
content since the last `datasync`, which leaves one). A line has three bytes:
text that does not parse, the end of that text, and the newline, so that a write
can stop at each place that makes a difference to `load`. An append is a series
of steps (`Locate`, `Truncate`, `Compose`, `Write` per byte, `Datasync`,
`Resolve`), each of which may fail (`Fail`); `exclusive` is the queue of callers.
`ProcessDies` and `PowerLost` forget all but the file. Assumed of the file
system: changes of one file reach the disk in order, a read sees the file at
one moment, and the entry of a synced file is durable. Lines have equal length,
which makes the coincidence the cache must survive (a changed file of the cached
length) more likely, not less.

**`SessionJournals`** - the journals of a parent and of its child as their
writers see them: an event is its position and an expected head a length, which
again rests on `FencedJournal`.

**`SessionDispatch`** - `SessionManager.create`, `fork` and `completeChild`, and
`forkAndDispatch` with `recoverFork`. `catalog` and `configs` are the session
catalog, `queue` the work item, `disp` where each dispatcher stands; every
`await` of the code is an action (`ReadForkPoint`, `PutForkConfig`, `PutChild`,
`StartFork`, `LinkFork`, then `Raced`, `CheckFork`, `ReadFork`, `ReadChild`,
`StartChild`, `ReadParent`, `LinkParent`, `Enqueue`). A dispatcher may `Crash`
before any of them and its host calls again. `forkLinked` is history: `fork`
links the child without looking, so that beside a recovery there may be two links.

**`Mailbox`** - `FileMailboxStore` and `receiveMailbox`. `box` is the snapshot a
reader sees, `disk` what a loss of power may leave, `op` the one write that is
under way (`exclusive`), `receiver` where each receiver stands with its batch and
the part of the journal it knows. `Write` stands for the temporary file and its
rename, `Synced` for the two directory syncs that end a save; `WriteFails`,
`SyncFails`, `HostDies` and `PowerLost` are the faults. `accepted` and
`confirmed` are history: what senders and receivers were told.

**`Orchestration`** - both, on the same two journals, with the fairness.

**`CanonicalMessages`, `Projection`** - messages and their blocks, and
`projectContext` with its boundary check and superseded results, as operators.

**`Providers`** - normalisation (`FromOpenAIItem`, `FromAnthropicBlock`,
`FromChat`) and encoding (`ToOpenAI`, `AnthropicMessages`, `ToChat`). A block is
kept with its provider's raw form unless the options say otherwise; text and
calls are written anew over that form. The arguments of a call arrive as JSON text
(`ParseArguments`), are kept as a value, and are sent as that value's text, so what
returns may differ in blanks. The content of an `openai-chat` answer is a text or an
array of parts (`FromChatPart`). Anthropic gets the text of system messages beside
the others (`AnthropicSystem`). A `Placeholder` stands both for the text that
`unencodable: "describe"` puts and for the error that `"throw"` raises.

**`Streams`** - `sseJsonEvents` and the accumulator as an invoker drives them,
against a provider that delivers its answer in deltas (`Delivers`): texts in pieces,
calls and details in parts that carry an index and whichever fields the provider
puts there, interleaved as it likes; and that cuts the deltas into chunks anywhere.
`Joined`, `CallOf` and `DetailOf` say what deltas add up to, without reference to how
the accumulator goes about it. Bytes are as coarse as the parser can tell apart: two
halves of a `data:` line, `\r`, `\n`, comments.

**`Context`** - the composition: a chain of forked sessions, answers that arrive
whole or as a stream, results that are pending and settled later, compactions
with any boundary. Nothing in the state is a context: it is computed from the
journals by `Project`, as in the code. That no provider uses a call id again is an
assumption on the answers (`IdsAssumption`). Of a streamed answer it is assumed that
its deltas deliver it, whatever they are, and that its calls are told apart by their
ids (`StreamedAssumption`). What of it the accumulator has no place for is said by
the property (`Carried`), not assumed away.

**`PositionLemmas`** - facts about least and greatest elements, the k-th of a
finite set of positions, and sets with one element, which the searches of the
code come down to; and about joining sequences element by element (`flatMap`).

The MC modules (`MCFencedJournal`, `MCWorkQueue`, `MCWorkerHost`, `MCAgentLoop`,
`MCJsonlJournal`, `MCOrchestration`, `MCContext`)
give constants their values. Operators named `X_Something` in the section
"Faulty variants" of a module are plausible bugs of `X`; putting one in its place
must make a property fail (`PROJECT.json`, `mutants`).

## 3. Runs

| Run | Instance | Shows |
|---|---|---|
| `fenced_journal` | 2 sessions, 3 runs, of which 2 share a worker id, 4 ids | `ChainIntact`, `TokensOrdered`, `OneOwnerPerToken`, `WriterKnewHistory`, `OnlyNewestTokenAppends`, and `ImplementsEpochLog` |
| `work_queue` | 2 items with different policies, delays and requirements, 2 workers, 4 instants | `ImplementsDeliveries`, `DeliveryBudget`, `AcksAdvance`, `DeadLetterJustified`, `LiveLeaseKept`, `TerminalIsFinal` |
| `worker_host` | 1 item, 2 hosts of one worker id | `HostTypeOK` (with the queue's `TypeOK`), `DeliveriesDistinct`, `CompletionIsOwn`, and the liveness `EventuallyTerminal` |
| `agent_loop` | 1 process that is restarted twice, 2 parallel calls, 2 messages, aborts | `EffectsAtMostOnce`, `ModelSeesClosedActions`, `FinishedTurnNotReinvoked`, `CompletedIsEarned`, `MailOnce` |
| `agent_loop_concurrent` | 2 processes at once, 1 call, 1 message, 1 foreign event | `ConcurrentSafety`: the same without `FinishedTurnNotReinvoked`, under interleaving |
| `jsonl_journal` | 2 callers, 4 events, 2 deaths or losses of power | `LoadsCleanly`, `CacheHonest`, `AckedSurvive`, `ReadsStable` |
| `orchestration` | 2 dispatchers, 2 receivers, 1 completer, 1 plain mail and 1 result that differ in value, 2 faults | `WorkIsRunnable`, `ToldOnce`, `DeliveredIsRecorded`, `AcceptedSurvive`, and the liveness `EventuallyDispatched`, `EventuallyDelivered` |
| `context` | 2 sessions of 5 and 3 events, at most 2 answers of 4 whole and 2 streamed in every way | `StreamedAsWhole`, `CallsKeepResults`, `EncodedFaithfully`, `ContextsAdvance` |
| `jsonl_torn_line` | as `jsonl_journal` | **violated**: section 6 |
| `worker_host_stale_cancel` | as `worker_host` | **violated**: section 6 |
| `agent_loop_reused_ids` | 1 process, one id used in two answers | **violated**: section 6 |
| `agent_loop_source_order` | 1 process, 2 parallel calls | **violated**: section 6 |

**Bounds.** The journal run needs three runs so that a shared lease (two runs of
one owner) and a superseding owner occur together, and two sessions so that a
lease can be presented on the wrong one. Its four ids cover, for instance, two
grants and an append under each; a fenced append under a superseded token needs
no more. The clock has two values because only live/expired matters. The queue
run reaches every budget's end: two attempts, one continuation, then the dead
letter. The clock of `WorkerHost` has no bound: time passes only while something
is awaited, and the policy bounds how often that is, so the run is finite and the
liveness is not an artefact of a stopped clock. `MaxEvents` of the
loop runs lets a run answer with two calls, crash, repair them and answer finally,
or receive mail, answer and record its outcome; all of these together in one
journal would need more. The three starts allow a crash during the repair of a
crash. The four events of the JSONL run are an append that is torn, one that meets the
torn line, and two that fail and succeed on what that left. With five, a line
whole but for its newline can, after two failed appends, make the file as long
as the stale cache says; the chain is broken then and the journal unreadable.
The properties of that run are therefore conditional on no write having stopped
right there (`wholeTail`), which is the finding of `jsonl_torn_line`. `Refuse`
has the case of an unreadable journal for that reason. `Width` is 2, the least at which parallel calls have an order.

The orchestration run lets two dispatchers race through the whole fork and
recovery, and two faults are the least with which a crash meets a failed save or
a power loss a retried one. Mail is sent only once the work is queued and no
dispatcher is in flight (`Dispatched`), because mail and forks meet only in the
parent's journal, where the completer and the stragglers already race; a host
does not call again after the work is queued. In the context run five events of the
parent are an answer with two calls, their results, and a compaction or a
reconciliation, and the fork may fall between any of them; three events of the
child are its start, an answer or input, and a compaction. Nothing else happens
while an answer arrives, since an answer under way is not in any journal, and only
the first answer of the first session is streamed. Two answers in all
(`MaxAnswers`) are the least with which what one provider said is followed, or
inherited, by what another said. One of the streamed answers has two interleaved
calls, one of which has arguments before its id, a detail whose format, texts and
signature come in parts of their own, and reasoning in plain beside the details in
the same chunks; the other has a refusal, and reasoning first in plain, then in the
details. All ways to cut their deltas into chunks are tried, with LF and CRLF, and
all ways to cut the bytes. The whole answers have opaque reasoning of each kind, a
detail with empty text, an empty refusal, an array of parts one of which is unknown,
two calls, blanks in arguments, items without a canonical form, and one that keeps
neither raw forms nor unknown blocks.
None of the bounds occurs in a guard of the code; each is named `bound:` where
it is declared.

**Deadlock** is not checked: each of these systems may rightly stop (all work
finished, a run ended, a bound reached).

**Symmetry** is used for safety runs only, over processes, runs of one owner,
sessions, call ids and messages, none of which the models order.

**Fairness** (`HostSpec`): weak fairness of each host's claim, empty poll,
handler end and resolution, and of `Tick`. It says that a deployment keeps its
hosts polling, that handlers return, and that time passes. `EventuallyTerminal`
needs no fairness of submissions, heartbeats or cancellations, and none that
forbids crashes: every attempt may crash. It does need the polls that find
nothing, since expired leases are recovered only inside calls (the mutant
`PollEmpty_Skipped` shows it).

In `Orchestration` one dispatcher and one receiver are fair, as a scheduler that
retries provides (`pendingRecipients` and repeated dispatch are what the code
offers it); the others may stall for ever, and nothing is assumed of completers,
senders or of the faults not happening (they are bounded). The store finishes
what it began. `EventuallyDelivered` exempts mail that stands behind a result
which conflicts with the recorded completion (`Blocked`): the code throws there
at each attempt.

## 4. Proofs

TLC checks the instances above; TLAPS proves the following for every set of
sessions, runs, owners, items, workers, processes, calls, mail, every policy and
every bound.
Assumptions on constants are named (`FencedJournalAssumption`,
`WorkQueueAssumption`, `AgentLoopAssumption`, `SessionJournalsAssumption`,
`SessionDispatchAssumption`, `MailboxAssumption`, `ContextAssumption`) and are those
the code validates or takes for granted (positive durations, `maxAttempts` of at
least one, distinct ids, results that are not plain mail, answers of their
providers' shapes). `StreamedAssumption` is one on providers, which the code does not
check: that the parts of a stream make up an answer of that shape (each call and
detail has a part, and every part of a call that has an id has the call's), that a
field is not taken back by a null, and that two calls do not share an id. The others (`WorkerHostAssumption`,
`OperationAssumption`, `DescriptorAssumption`, `WorkItemAssumption`,
`JsonlJournalAssumption`) say that the value for "nothing" is none of the things it
stands in for, and that bounds are numbers.
Three theorems about the loop have the hypothesis `FreshCalls`, that the provider
never uses a call id again. It is no artefact of the proof: without it TLC refutes
a documented promise (`agent_loop_reused_ids`, section 6), and calls are told
apart by their id alone. `IdsAssumption` is the same of the answers in `Context`.

`FencedJournalProofs`, in layers, each using the ones before:

1. `TypeCorrect`.
2. `LeasesCorrect`: the active lease of a session carries its newest token, and
   a run holds grants of its own owner only.
3. `TokensCorrect`: tokens never go back along a journal. Inductive only with
   the fact that no entry has a token above the last one granted
   (`TokensGranted`).
4. `OwnersCorrect`: one owner per token, from 2 and the fact that the owner of a
   token is that of the grant.
5. `ChainCorrect`: `ChainIntact` and `WriterKnewHistory`. The strengthening
   relates a run's expected head to what it has seen: because ids do not repeat,
   a journal whose head is the one a run remembers is as long as what the run
   has seen (`HeadMeansAll`).
   `HistoryKnown` states the second by itself.
6. `NewestTokenAppends` and `Refinement`: every step of `FencedJournal` is a
   step of `EpochLog` or a stutter.

`WorkProofs`, of the queue, rests on one lemma, `CallStep`: whatever operation is called,
with whatever token, timeout and time (`QueueCall`), a single item changes in one of six ways (it is left as
recovery leaves it, enqueued, claimed, its lease extended, its delivery ended by
its own acknowledgement, or it is cancelled). Each invariant is then one
statement about a record that the six ways keep:

* `TypeCorrect`, including that a record has a lease exactly while leased;
* `BudgetKept`: deliveries of an item are at most
  `maxAttempts * (maxContinuations + 1)`; inductive with the deliveries counted
  per segment (`WithinBudget`);
* `AcksInOrder`: inductive with "no acknowledged token exceeds the newest one,
  and is below it while the newest is leased";
* `GivenUpSpent`: a dead letter spent its attempts or continuations;
* `TerminalStays`, `LiveLeaseHolds`: action properties from the type invariant;
* `DeliversAsPromised`: each of the six ways is a step of the abstract item. That a
  claim stays within the abstract budget is `BudgetKept`, and that an acknowledged
  delivery is the current one follows from the token it presented.

The same lemmas serve a deployment of hosts: a step of a host is a
`QueueCall` or leaves the records alone (`HostStepIsCall`), so the queue's
invariants carry over although hosts ask for timeouts and retries that the
bounds of `WorkQueue!Next` do not contain.

* `HostsTypedCorrect`: `HostTypeOK`;
* `DeploymentQueue`, `DeploymentDelivers`: `DeliveryBudget` and `AcksAdvance`, and
  the promises of `Deliveries`, in any deployment;
* `DeliveriesApart`: inductive with "a lease object's token was granted", since
  a claim grants a token above all granted before, and tokens never go back
  (`TokensGrow`);
* `CompletionOwned`: an accepted resolution presented the token the record was
  leased under, which is the newest.

`AgentLoopProofs` begins with what the loop reads in a journal (receipts, results,
actions to repair, the state of a model call) and how an append changes it. It then
has three invariants, each using the ones before. What a
process has in memory says something about the journal only while nobody else
appends; so most conjuncts are about a process that is `Current` (it is in the
loop and knows the whole journal). Every append checks exactly that, and makes all
other processes not current, so that a step need be followed up for one process
only (`OtherProcess` and `HoldsOther` are about the others).

* `LoopInv` (`TypeCorrect`, `FinishedTurnAlways`, `CompletedAlways`). A task that
  was started points to its own start (`Anchored`). Every action of the journal
  that is not closed, and every call that never started, is a task of a current
  process, or was set aside as unreconciled or pending (`Covered`): this is what
  makes an empty task list mean that nothing is open. In each phase the journal
  ends as the phase says (`Calling`): behind a final answer the answer has earned
  its outcome (`Earned`), elsewhere no final answer stands last (`Followed`). The
  base of `Covered` and `Calling` is that a restart finds both by reading the
  journal: `ActionsToRepair` lists each open action once, `ModelState` finds the
  finished turn.
* `FreshInv` (`EffectsOnceAlways`, `ModelSeesClosedAlways`; hypothesis
  `FreshCalls`). A call has one answer and one start (`FreshJournal`); a call that
  a current process would start has none; and an action about to be executed never
  was, and is a task of no other process (`Unexecuted`). The last holds also for
  processes that are not current: a process that lost the head still executes what
  it started.
* `MailInv` with `BatchInv` (`MailOnceAlways`). The mail told is a beginning of
  the mail sent, what is not told is pending, and pending mail is in the order in
  which it was sent. A batch that a current process holds is in that order and
  leaves out nothing that was sent before one of its untold messages, whence the
  next message appended is the first that was not told (`NextToTell`).

`ConcurrentSafetyAlways` puts them together for any number of processes.

`OrchestrationProofs` has one inductive invariant, `IInv`, for `TypeCorrect`,
`ToldOnceAlways`, `DeliveredIsRecordedAlways`, `AcceptedSurviveAlways` and
`WorkIsRunnableAlways`:

* `DispatchTypes`, `MailTypes`, `Held` and `Busy`: types, and what a place in the
  code has in hand;
* `MailInv`: an event about to be acknowledged tells what the mail says
  (`Telling`), every snapshot that may come back counts as delivered only what the
  journal tells of (`Delivery`), and extends all that was accepted or confirmed
  (`Kept`);
* `OnceInv`: each mail and the completion are told at most once, and a completer
  about to append saw no completion in the part of the journal it knows;
* `ForkInv`: what each place of a dispatcher has established (`PlaceOK`), that
  descriptor, child journal and links agree, that `fork` links by itself at most
  once (`LinkedOnce`), and what queued work has.

The mailbox and the dispatchers meet only in journals that grow, which is all
that the invariants of the one need of the steps of the other (`RecordGrows`).

`JsonlJournalProofs` has one inductive invariant, `IInv`, for `TypeCorrect`,
`LoadsCleanlyAlways`, `CacheHonestAlways`, `AckedSurviveAlways` and
`ReadsStableAlways`. Its second half (`FilesInv`) is conditional on `~wholeTail`, as
the properties are: after a write has stopped between a text and its newline they
can fail (section 6).

* What `load` computes is a matter of lines found by their newlines. A file is
  `Lined` when its bytes are those of lines of one chain with increasing ids, the
  last one possibly unfinished. `LinedValid`, `LinedEvents` and `LinedLoads` compute
  from that which lines are valid, and the events, the head and the bytes to keep.
* `StepsInv`: a queue has no caller twice, only its first is past waiting, and all
  ids in files were created. It holds of any file, torn or not, and gives the types.
* `FilesInv`: every file that a loss of power may leave is `Lined`; only while
  somebody writes may a text lack just its newline; file and rest of the line stay
  `Lined` when put together (`Building`); the cached tail is that of a whole line of
  the file; and every acknowledged event is on a whole line of every file (`Holds`),
  in increasing order. The cache is thus right whenever its length is that of the
  file, which is all that `append` compares.
* `ReadsStableAlways` follows step by step (`StepKeepsReads`): only `Write` and
  `Truncate` change the file, the one by a byte more, the other by the torn line.

`ContextProofs` begins with types, function by function: blocks of answers, deltas
and chunks, the bytes and what is split off them, the accumulator, the events of
journals (`TypeCorrect`). Folds and recursive functions are shown to exist and to
unfold first (`...Exists`, `...Unfolds`); what they keep is then an induction over
prefixes.

* `ContextsAdvanceAlways`. Superseding results can be done a message at a time
  (`SupersedeUnfolds`: a result is shown by dropping the older ones of its call) and
  more than once (`SupersedeTwice`), so a projection grows by what its journal grows
  by (`ProjectGrows`), provided the compaction it begins at stays the same
  (`LatestStays`); and what a session inherited does not change, because its
  ancestors' journals only grow behind their forks (`InheritedStays`).
* `CallsKeepResultsAlways`. Three facts are told of a sequence of messages and a
  call: whether it is made (`Has`), its results (`ResultsIn`), and that they are
  behind it (`Ordered`); `JoinedMessages`, `DropKeeps` and `SupersedeKeeps` say how
  they add up. A boundary that is heeded has a result behind every call it covers
  (`UnpairedKeeps`, over the fold of the pairing check), so a projection of a journal
  that makes the call keeps what the property asks (`Keeps`, `ProjectKeeps`), and
  one that does not make it leaves what was inherited. Along the chain of forks
  (`InheritedKeeps`) this needs that no two sessions make the same call and that a
  session has results of its own calls only (`Separate`). The inductive invariant
  (`Intact`) is that, with where calls come from (`Origins`): an answer that has not
  been given makes none that a journal has, by `IdsAssumption`.

`AnswerProofs` proves `StreamedAsWholeAlways` in two halves, with one inductive
invariant (`InOrderFed`): the accumulator is what the first *d* chunks make of an
empty one, pushed in order, and *d* is all of them when the body has ended and was
not cut.

* The parser. A body is laid out in frames (`BodyLaid`), with carriage returns or
  without: what the buffer holds and what is still to come are, once those are left
  out, the two sides of one position in it (`Reached`, `PieceBuffered`), whatever
  the pieces. `SplitLaid` says which events a buffer gives, `FramesConsumed` what
  becomes of them, `PieceRead` and `EndRead` put it together.
* The accumulator. Texts and lists of the deltas of a chunk add up to those of the
  answer's deltas, wherever the chunks are cut (`ChunksCumulate`). The accumulator's
  maps hold for each index what the parts of that index which have come amount to
  (`DetailOf`, `CallOf`), whatever parts of other indices come between them
  (`DetailsAdded`, `CallsAdded`): field by field for a detail, with the text growing
  and the rest replaced. `CallsTold` relates what the host was told of the calls to
  them: each named call once, and its arguments from some place on, from the first
  if its first part names it. `PushHolds` is the step of one chunk, `PushedHolds`
  the induction over the chunks, `FedShows` reads the property off. What is assumed
  of an answer is that it has deltas which deliver it (`Delivers`) and that ids tell
  its calls apart; refusals, content in parts and reasoning in both forms are
  allowed, and the property says what becomes of them.

Only model-checked: liveness (out of the prover's reach), `EncodedFaithfully`, and
the findings. `EncodedFaithfully` compares what normalisation and encoding, both
chains of recursive functions, make of an answer with the answer; it would be an
induction over each of them, with assumptions besides on the shapes each provider's
answers have.

## 5. The hazards that needed a model

* Sharing a live lease with its owner means that fencing tokens do *not* tell
  two runs of one worker apart. What keeps them from overlooking each other is
  the expected head alone; `WriterKnewHistory` says so, and
  `agent_loop_concurrent` checks the loop under it, without any lease.
* A checkpoint resets `attempt`, but tokens come from `lastFencingToken`. Were
  the token taken from the attempt, two hosts would hold equal deliveries:
  `DeliveriesDistinct`, `AcksAdvance`.
* Recovery inspects the journal as read at the start, while it appends repairs
  itself; the replayed outcome must still be right: `FinishedTurnNotReinvoked`,
  `CompletedIsEarned`.
* A mail that carries a child's result is recognised by the completion that
  `completeChild` recorded, and the other way round: neither looks for its own
  event alone. `ToldOnce` fails as soon as one of them does.
* Recovery of a fork compares the child's first event with the stored descriptor,
  never with the fork it would make now; otherwise a crash after the first event
  blocks the child for ever (`EventuallyDispatched`).
* CRLF is normalised over the whole buffer, not over the piece that arrived: a
  line end may be cut in two (`StreamedAsWhole`).

## 6. Findings

* **An acknowledged event can be lost behind a line without newline**
  (`jsonl_torn_line`). `load` counts a newline behind every line that parses,
  also behind a last one that lacks it (`src/node/journal.ts:134`). After a write
  that stopped right before the newline, nothing is truncated; the next append
  lands on the same line, is synced and acknowledged, and is then a torn tail
  that the append after it truncates. `src/node/journal.ts:31` and
  `docs/STORAGE.md:90` say that a partial final line is truncated before the
  next append.
* **A cancelled resolution is not fenced** (`worker_host_stale_cancel`).
  `WorkerHost.resolve` passes `cancelled` to `queue.cancel` with the work id
  alone (`src/work.ts:706`): a host whose lease was superseded withdraws the work
  under the delivery that holds it now. `ARCHITECTURE.md:123` and
  `docs/STORAGE.md:196` say that queue fencing prevents stale acknowledgement,
  as it does for every other resolution.
* **Call ids are compared over the whole journal** (`agent_loop_reused_ids`).
  A provider that reuses an id in a later answer, and a crash before that call
  starts, leave a call that recovery takes for started (`src/loop.ts:326`). It is
  never executed, and the model is called with it unanswered; the loop promises
  (`src/loop.ts:899`) that never-started calls execute.
* **Recovered results are not in source order** (`agent_loop_source_order`).
  Recovery appends results by what it had to do for them, not by call
  (`src/loop.ts:764`); `src/loop.ts:897` promises source-call order.

### What the properties allow

Behaviours met while modelling which a property states as they are, because
another run per remark would add nothing:

* **A result without its call.** `unpairedToolCallError` counts a call as
  answered by its first result, also a pending one. If call and pending result are
  compacted and the action is reconciled later, its second result is shown without
  the call (`src/projection.ts:122`), although `compactionBoundaryError` is meant to
  exclude this (`src/projection.ts:133`: "A compaction boundary must not separate a
  tool call from its recorded result").
  `docs/EVENTS.md:64` says that "the projected transcript would carry unpaired
  blocks that provider APIs reject". `CallsKeepResults` exempts exactly this, so it
  does not catch it.
* **A result that is not next to its call.** Superseding keeps the last result
  where it was appended; a message that came between call and reconciliation stands
  between them.
* **A child forked inside a tool execution** inherits the open call without a
  result; the model is called with it.
* **Two links.** When a recovery links a child before the first fork's own append
  (`src/sessions.ts:268`), the parent's journal has two `child.started` events;
  `docs/ORCHESTRATION.md:172` speaks of idempotent recovery. `WorkIsRunnable`
  allows the second link in this case only.
* **Opaque reasoning lives in the raw form.** An Anthropic signature and an OpenAI
  encrypted content are echoed from `providerMetadata.raw`; with
  `preserveProviderMetadata: false` they are dropped, although
  `docs/PROVIDERS.md:145` says that encoding always echoes. `OwnSense` in
  `Context` states when it does.
* **Data of any format goes to Anthropic.** `anthropicThinkingFromDetails`
  (`src/providers.ts:649`) turns every detail with `data` into
  `redacted_thinking`, while the comment at `src/providers.ts:1312` says that
  foreign-format reasoning is dropped. `Relayed` states what is sent.
* **Silent drops.** `docs/PROVIDERS.md:145` says that encoding "never drops or
  placeholders" opaque reasoning, `docs/PROVIDERS.md:168-173` that "Provider-native
  reasoning can only be replayed to its originating provider" and that "No encoder
  silently filters unsupported content", and `ARCHITECTURE.md:207` that encoders
  "must either encode a block or throw. Silent omission creates a false transcript".
  The encoders leave out reasoning that they cannot send, without an error: plain
  reasoning everywhere, Anthropic and OpenAI reasoning for any other provider, and
  of OpenRouter's details those of another format (`src/providers.ts:1129`,
  `src/providers.ts:1312`, `src/providers.ts:1459`; `docs/PROVIDERS.md:155` does
  announce that, against the sentences quoted). On the other hand they rebuild
  reasoning items of OpenRouter's details for Anthropic and OpenAI.
  `ForeignSense` and `Relayed` state what is sent. An answer with
  `preserveUnknownBlocks: false` loses its unknown items already when it is
  normalised, which the option announces.
* **Reasoning in a chat completion request.** `docs/PROVIDERS.md:98` says that
  "Reasoning blocks have no Chat Completions input form and follow the
  fail-loud/downgrade policy", while `docs/PROVIDERS.md:147` and the code
  (`src/providers.ts:1459`) return their details. `Expected` states the latter.
* **An unknown part of a chat completion** does not go back to its own provider:
  `toOpenAIChatInput` has a placeholder or an error for it
  (`src/providers.ts:1466`), where the other two encoders return the raw form.
  `OwnSense` states it.
* **A streamed refusal is lost.** The accumulator reads neither `delta.refusal` nor
  a content that is an array (`src/providers.ts:1689`), so the answer is journaled
  without the refusal and its stop reason is `end`, while the same answer in one
  piece keeps it as text and stops with `content_filter`
  (`src/providers.ts:439`). `docs/PROVIDERS.md:112` says that the accumulator folds
  chunks "into the complete non-streaming response shape". `Carried` states what is.
* **Reasoning told twice.** Where a provider sends its reasoning in plain and in the
  details, the accumulator tells the host the plain one only, chunk by chunk
  (`src/providers.ts:1725`). If the two come in chunks of their own, the host is
  told both. The accumulated answer is not affected.
* **A message that encodes to nothing** (no text, plain reasoning only) makes
  `toAnthropicInput` throw for the whole context, for ever
  (`src/providers.ts:1378`).
* **A truncated stream** that ends cleanly yields an answer with stop reason
  `unknown`; `StreamedAsWhole` says that it never has a finish reason. If the
  arguments of a call happen to parse, the call is executed.

## 7. Not modelled

* *Failures of an append other than a head conflict while executions of the same
  turn are in flight*: the loop throws and the process ends, which the model
  covers as `Exit`; that effects of the abandoned executions still happen later in
  the same process is not covered.
* *Sessions*: forks with `linkInParent: false` or an explicit `atEventId`,
  conflicts of purpose or metadata, the check for cycles in the ancestry, and the
  validation of descriptors, configs and results. One parent has one child; a
  config's id stands for its content.
* *Mailbox*: `waitForMailbox`, which polls `read`; envelopes that change under an
  id (refused by `send`). The catalog is assumed durable: `node/sessions.ts` and
  `node/artifacts.ts` do not sync, see the hazards.
* *Projection*: evidence references, and the snapshots of `foldProjection` with
  their two stores: views that may be thrown away.
* *Providers*: usage, ids and time stamps, tools, files, native Anthropic images, the
  validation of canonical shapes (`assertCanonicalForEncoding`), streamed fields that
  are null after they had a value, and choices other than the first. Of JSON only
  that it is complete and that blanks do not count is modelled; arguments that do not
  parse are kept as text, and such an answer is not journaled (`src/loop.ts:380`). The id of a
  call stands for its id and name. Characters cut between two network pieces are
  left to the platform's decoder.
* *Reads* that select events or records and change nothing.
* *Artifacts, conformance checks, viewer, wiring*: write-once files, a test
  harness, a read-only view, and object construction.

## 8. Plan

Done: journal, leases, queue, host, loop, JSONL journal; then mailbox, sessions,
orchestration, projection, providers and streams. Left:

1. A proof of `EncodedFaithfully` (encoding after normalisation).
2. An abstract mailbox (a set of messages told once) that `Orchestration` implements.
3. Artifact and catalog files with losses of power.
4. Several children, and forks without a link.
5. Liveness of the loop under fair processes.
