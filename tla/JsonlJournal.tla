---------------------------- MODULE JsonlJournal ----------------------------
(***************************************************************************)
(* JsonlJournalStore (src/src/node/journal.ts), the journal of one session *)
(* as a file of JSON lines: appends one after another through `exclusive`, *)
(* each by itself a series of file operations; reads at any time; I/O      *)
(* errors, deaths of the process, and losses of power.                     *)
(*                                                                         *)
(* A line has three bytes here: JSON text that does not parse alone, the   *)
(* end of that text, and the newline.  A write can stop after any of them. *)
(* After a loss of power the file is as it was at some moment since the    *)
(* last sync, and what is synced stays.                                    *)
(***************************************************************************)
EXTENDS Integers, Sequences, FiniteSets, SequencesExt, FiniteSetsExt

CONSTANTS
  Callers,    \* concurrent callers of append
  MaxId,      \* bound: events created
  MaxStops,   \* bound: deaths of the process and losses of power
  None

ASSUME JsonlJournalAssumption == {MaxId, MaxStops} \subseteq Nat /\ None \notin Nat

VARIABLES
  file,       \* the bytes of events.jsonl, as processes see them
  disk,       \* what the file may be after a loss of power
  tail,       \* tails.get(sessionId): the cached length and head, or None
  queue,      \* queues: callers of append, the running one first
  expected,   \* the head each queued caller expects; empty without one
  pc,         \* where each append stands
  base,       \* the tail an append builds on
  line,       \* what is left to write of its line
  lastId,     \* ids created
  acked,      \* history: ids of the appends that resolved
  wholeTail,  \* history: a write once stopped right before its newline
  stops       \* bound: deaths and losses of power so far

callers == <<queue, expected, pc, base, line>>
vars == <<file, disk, tail, callers, lastId, acked, wholeTail, stops>>

Byte == [id : Nat, parent : Nat \cup {None}, part : {"text", "end", "newline"}]
Parts == <<"text", "end", "newline">>
LineOf(id, parent) ==
  [i \in 1 .. 3 |-> [id |-> id, parent |-> parent, part |-> Parts[i]]]

JournalTail == [bytes : Nat, head : Nat \cup {None}]
NoTail == [bytes |-> 0, head |-> None]

-----------------------------------------------------------------------------
(* load.                                                                    *)

\* Where the nonempty lines of a file end: at a newline, or where one would
\* be that the file lacks.
LineEnds(f) ==
  {i \in 1 .. Len(f) : f[i].part = "newline"}
  \cup (IF f # <<>> /\ Last(f).part # "newline" THEN {Len(f) + 1} ELSE {})

\* The line that ends at e.
LineAt(f, e) ==
  LET start == Max({0} \cup {i \in LineEnds(f) : i < e})
  IN  SubSeq(f, start + 1, e - 1)

\* JSON.parse accepts the text of one event, whole, and nothing else.
Parses(text) == Len(text) = 2 /\ text[1].part = "text" /\ text[2].part = "end"

\* The lines before the first that does not parse; that one is taken for a
\* torn tail if no other follows.
Valid(f) ==
  {e \in LineEnds(f) : \A d \in LineEnds(f) : d <= e => Parses(LineAt(f, d))}
Invalid(f) == Cardinality(LineEnds(f) \ Valid(f)) > 1

\* The event of the k-th valid line.
Nth(ends, k) == CHOOSE e \in ends : Cardinality({d \in ends : d < e}) = k - 1
Events(f) ==
  LET ends == Valid(f)
  IN  [k \in 1 .. Cardinality(ends) |-> LineAt(f, Nth(ends, k))[1]]
HeadOf(f) == IF Events(f) = <<>> THEN None ELSE Last(Events(f)).id

\* Faulty variants of ValidBytes: a torn tail counts as valid; the newline of
\* the last valid line does not count.
ValidBytes_All(f) == Len(f)
ValidBytes_ShortLast(f) == IF Valid(f) = {} THEN 0 ELSE Max(Valid(f)) - 1

\* Every valid line counts with a newline, also the last.
ValidBytes(f) == Max({0} \cup Valid(f))

\* validateChain.
Chained(events) ==
  \A k \in DOMAIN events :
    events[k].parent = IF k = 1 THEN None ELSE events[k - 1].id

\* load returns; otherwise it throws, now and at every later call.
Readable(f) == ~Invalid(f) /\ Chained(Events(f))

-----------------------------------------------------------------------------
\* Type correctness.  The file is always among what a loss of power may leave.
TypeOK ==
  /\ file \in Seq(Byte)
  /\ file \in disk
  /\ disk \subseteq Seq(Byte)
  /\ tail \in JournalTail \cup {None}
  /\ queue \in Seq(Callers)
  /\ expected \in [Callers -> SUBSET ((1 .. lastId) \cup {None})]
  /\ pc \in [Callers -> {"idle", "queued", "truncate", "compose", "write", "sync", "resolve"}]
  /\ \A c \in Callers : pc[c] # "idle" <=> c \in ToSet(queue)
  /\ base \in [Callers -> JournalTail]
  /\ line \in [Callers -> Seq(Byte)]
  /\ lastId \in 0 .. MaxId
  /\ acked \in Seq(1 .. lastId)
  /\ wholeTail \in BOOLEAN
  /\ stops \in 0 .. MaxStops

Init ==
  /\ file = <<>>
  /\ disk = {<<>>}
  /\ tail = None
  /\ queue = <<>>
  /\ expected = [c \in Callers |-> {}]
  /\ pc = [c \in Callers |-> "idle"]
  /\ base = [c \in Callers |-> NoTail]
  /\ line = [c \in Callers |-> <<>>]
  /\ lastId = 0
  /\ acked = <<>>
  /\ wholeTail = FALSE
  /\ stops = 0

-----------------------------------------------------------------------------
(* Faulty variants, each put in place of the definition it is named after.  *)

\* The cached tail is used also when the file has grown.
Cached_Shorter == tail # None /\ tail.bytes <= Len(file)

\* Appends of one session run side by side.
Turn_Any(c) == TRUE

\* An append that ends does not let the next one run.
End_KeepsTurn(c) ==
  /\ pc' = [pc EXCEPT ![c] = "idle"]
  /\ expected' = [expected EXCEPT ![c] = {}]
  /\ base' = [base EXCEPT ![c] = NoTail]
  /\ line' = [line EXCEPT ![c] = <<>>]
  /\ UNCHANGED queue

-----------------------------------------------------------------------------
\* exclusive: an append runs when all that were called before have ended.
Turn(c) == queue # <<>> /\ Head(queue) = c

\* The append of c ends, resolved or rejected.
End(c) ==
  /\ queue' = RemoveFirst(queue, c)
  /\ pc' = [pc EXCEPT ![c] = "idle"]
  /\ expected' = [expected EXCEPT ![c] = {}]
  /\ base' = [base EXCEPT ![c] = NoTail]
  /\ line' = [line EXCEPT ![c] = <<>>]

\* The file becomes f, in memory only.
Become(f) == file' = f /\ disk' = disk \cup {f}

\* What an end of writing leaves is remembered by the history.
NoteTail(f) == wholeTail' = (wholeTail \/ (f # <<>> /\ Last(f).part = "end"))

\* append is called, with no expectation or that of the head just read.
Call(c) ==
  /\ pc[c] = "idle"
  /\ \E e \in {{}, {HeadOf(file)}} : expected' = [expected EXCEPT ![c] = e]
  /\ queue' = Append(queue, c)
  /\ pc' = [pc EXCEPT ![c] = "queued"]
  /\ UNCHANGED <<file, disk, tail, base, line, lastId, acked, wholeTail, stops>>

\* The cached tail is used while the file has the length it says.
Cached == tail # None /\ tail.bytes = Len(file)

Locate(c) ==
  /\ pc[c] = "queued"
  /\ Turn(c)
  /\ \/ /\ Cached
        /\ base' = [base EXCEPT ![c] = tail]
        /\ pc' = [pc EXCEPT ![c] = "compose"]
     \/ /\ ~Cached
        /\ Readable(file)
        /\ base' = [base EXCEPT ![c] =
             [bytes |-> ValidBytes(file), head |-> HeadOf(file)]]
        /\ pc' = [pc EXCEPT ![c] =
             IF ValidBytes(file) < Len(file) THEN "truncate" ELSE "compose"]
  /\ UNCHANGED <<file, disk, tail, queue, expected, line, lastId, acked, wholeTail, stops>>

Truncate(c) ==
  /\ pc[c] = "truncate"
  /\ Become(SubSeq(file, 1, base[c].bytes))
  /\ pc' = [pc EXCEPT ![c] = "compose"]
  /\ UNCHANGED <<tail, queue, expected, base, line, lastId, acked, wholeTail, stops>>

\* assertExpectedJournalHead and createJournalEvent.
Compose(c) ==
  /\ pc[c] = "compose"
  /\ expected[c] \subseteq {base[c].head}
  /\ lastId < MaxId
  /\ lastId' = lastId + 1
  /\ line' = [line EXCEPT ![c] = LineOf(lastId', base[c].head)]
  /\ pc' = [pc EXCEPT ![c] = "write"]
  /\ UNCHANGED <<file, disk, tail, queue, expected, base, acked, wholeTail, stops>>

\* append rejects before it writes: what it loads is corrupt, or its head is
\* not the expected one.
Refuse(c) ==
  /\ \/ pc[c] = "queued" /\ Turn(c) /\ ~Cached /\ ~Readable(file)
     \/ pc[c] = "compose" /\ ~(expected[c] \subseteq {base[c].head})
  /\ End(c)
  /\ UNCHANGED <<file, disk, tail, lastId, acked, wholeTail, stops>>

Write(c) ==
  /\ pc[c] = "write"
  /\ Become(Append(file, Head(line[c])))
  /\ line' = [line EXCEPT ![c] = Tail(@)]
  /\ pc' = [pc EXCEPT ![c] = IF Len(line[c]) = 1 THEN "sync" ELSE "write"]
  /\ UNCHANGED <<tail, queue, expected, base, lastId, acked, wholeTail, stops>>

Datasync(c) ==
  /\ pc[c] = "sync"
  /\ disk' = {file}
  /\ pc' = [pc EXCEPT ![c] = "resolve"]
  /\ UNCHANGED <<file, tail, queue, expected, base, line, lastId, acked, wholeTail, stops>>

\* A file operation fails: append rejects, whatever was written.
Fail(c) ==
  /\ pc[c] # "idle"
  /\ Turn(c)
  /\ NoteTail(file)
  /\ End(c)
  /\ UNCHANGED <<file, disk, tail, lastId, acked, stops>>

\* The tail an append leaves: counted, not measured.
TailAfter(c) == [bytes |-> base[c].bytes + 3, head |-> Last(file).id]

Resolve(c) ==
  /\ pc[c] = "resolve"
  /\ tail' = TailAfter(c)
  /\ acked' = Append(acked, Last(file).id)
  /\ End(c)
  /\ UNCHANGED <<file, disk, lastId, wholeTail, stops>>

\* The process dies and the file becomes f; another process starts.
Restart(f) ==
  /\ stops < MaxStops
  /\ stops' = stops + 1
  /\ file' = f
  /\ NoteTail(f)
  /\ tail' = None
  /\ queue' = <<>>
  /\ expected' = [c \in Callers |-> {}]
  /\ pc' = [c \in Callers |-> "idle"]
  /\ base' = [c \in Callers |-> NoTail]
  /\ line' = [c \in Callers |-> <<>>]
  /\ UNCHANGED <<lastId, acked>>

ProcessDies == Restart(file) /\ UNCHANGED disk

PowerLost == \E f \in disk : Restart(f) /\ disk' = {f}

Next ==
  \/ \E c \in Callers :
       \/ Call(c)
       \/ Locate(c)
       \/ Truncate(c)
       \/ Compose(c)
       \/ Refuse(c)
       \/ Write(c)
       \/ Datasync(c)
       \/ Fail(c)
       \/ Resolve(c)
  \/ ProcessDies
  \/ PowerLost

Spec == Init /\ [][Next]_vars

-----------------------------------------------------------------------------
(* All but the last property are conditional: a write that stops between    *)
(* the text of an event and its newline leaves a line that parses, and      *)
(* what follows then is another matter (AckedSurviveTornLines).             *)

\* The journal can always be read, now and after a loss of power: nothing
\* but the last line is ever torn, and the events are one chain, whatever
\* appends failed, were refused or ran at once (load would throw for good).
LoadsCleanly ==
  wholeTail \/ \A f \in disk : Readable(f)

\* The cached tail never passes a wrong head: when an append may use it, the
\* cached head is the head that load would find, although failed writes,
\* truncations and other appends changed the file behind it.
CacheHonest ==
  Cached /\ (\A c \in Callers : pc[c] \in {"idle", "queued"})
    => wholeTail \/ tail.head = HeadOf(file)

\* Every event whose append resolved.
AllAcked(f) ==
  LET events == Events(f)
  IN  /\ \A k \in DOMAIN acked : \E i \in DOMAIN events : events[i].id = acked[k]
      /\ \A i, j \in DOMAIN events, k, l \in DOMAIN acked :
           events[i].id = acked[k] /\ events[j].id = acked[l] => (i < j <=> k < l)

\* An event whose append resolved stays in the journal, in the order of
\* resolution, through failed appends, deaths and losses of power.
AckedSurvive == wholeTail \/ \A f \in disk : AllAcked(f)

\* "A partial final line left by a crash mid-write is ignored by reads and
\* truncated before the next append": what was acknowledged stays.
AckedSurviveTornLines == \A f \in disk : AllAcked(f)

\* What a read returned is taken back by a loss of power only, not by the
\* truncation of torn lines, by failed appends or by restarts.
ReadsStable ==
  [][wholeTail' \/ PowerLost \/ IsPrefix(Events(file), Events(file'))]_vars
=============================================================================
