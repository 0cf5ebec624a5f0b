------------------------------- MODULE Context ------------------------------
(***************************************************************************)
(* Sessions and what their models are shown.  Each session but the first   *)
(* is forked from the one before it (SessionManager.project,               *)
(* src/src/sessions.ts).  Answers arrive whole or as a stream (module      *)
(* Streams), become messages (module Providers), are journaled, forked,    *)
(* compacted and reconciled, projected (module Projection), and sent to    *)
(* any provider.                                                           *)
(***************************************************************************)
EXTENDS Projection, Streams

CONSTANTS
  Depth,          \* sessions in the chain of forks
  MaxEvents,      \* bound: events of each session
  MaxAnswers,     \* bound: answers in all sessions
  Inputs,         \* messages of users, hosts and mail
  Summary,        \* the message a compaction puts in place of others
  Pending,        \* the content of a tool's first result, of a suspended call
  Settled,        \* and of the result that follows it, or comes at once
  Whole,          \* answers that arrive whole: provider, wire form, options
  Streamed        \* answers of openai-chat that arrive as a stream: also the deltas

Sessions == 1 .. Depth

ASSUME ContextAssumption ==
  /\ Depth \in Nat \ {0} /\ MaxEvents \in [Sessions -> Nat] /\ MaxAnswers \in Nat
  /\ Inputs \subseteq PlainMessages /\ Summary \in PlainMessages
  /\ Pending \in Seq(PlainBlocks) /\ Settled \in Seq(PlainBlocks) /\ Pending # Settled
  /\ \A a \in Whole \cup Streamed :
       a.provider \in Providers /\ a.wire \in Wires(a.provider) /\ a.options \in NormalizeOptions
  /\ \A a \in Streamed : a.provider = "openai-chat"

\* A stream has deltas, which deliver its answer in any order and size, and ids
\* tell the calls of an answer apart.
ASSUME StreamedAssumption ==
  /\ None \notin Texts \cup STRING \cup Finishes
  /\ \A a \in Streamed :
       LET calls == a.wire.calls
       IN  /\ a.deltas \in Seq(Deltas(a.wire)) /\ a.deltas # <<>>
           /\ Delivers(a.deltas, a.wire)
           /\ \A i, j \in DOMAIN calls :
                calls[i].id = calls[j].id => i = j \/ calls[i].id = None

\* No provider uses a call id again in another answer, nor one that stands for
\* an id that was cut off.
IdsOfAnswer(a) ==
  IdsOf(BlocksIn(<<Normalized(a.provider, a.wire, a.options)>>, "tool_call"))
IdsStreamed == {None} \cup UNION {IdsOf(a.wire.calls) : a \in Streamed}

ASSUME IdsAssumption ==
  /\ \A a \in Whole : IdsOfAnswer(a) \cap IdsStreamed = {}
  /\ \A a, b \in Whole :
       \/ a.provider = b.provider /\ a.wire = b.wire
       \/ IdsOfAnswer(a) \cap IdsOfAnswer(b) = {}

VARIABLES
  journal,    \* the events of each session
  fork,       \* the event of the session before, 0 if not forked yet
  stream      \* the answer that is arriving, None if there is none

vars == <<journal, fork, stream>>

\* Type correctness; a session is begun only when its parent is, and forked
\* from an event that its parent has.
TypeOK ==
  /\ journal \in [Sessions -> Seq(EventsOf(Messages))]
  /\ fork \in [Sessions -> Nat]
  /\ \A s \in Sessions \ {1} : journal[s] # <<>> => fork[s] \in DOMAIN journal[s - 1]
  /\ stream # None =>
       /\ DOMAIN stream = {"answer", "chunks", "transit", "reader", "cut"}
       /\ stream.answer \in Streamed
       /\ stream.chunks \in Seq(ChunksOf(stream.answer.wire))
       /\ stream.transit \in Seq(BytesOf(Len(stream.chunks)))
       /\ IsReader(stream.reader, stream.answer.wire, Len(stream.chunks))
       /\ stream.cut \in BOOLEAN

Init ==
  /\ journal = [s \in Sessions |-> IF s = 1 THEN <<Trace("session.started")>> ELSE <<>>]
  /\ fork = [s \in Sessions |-> 0]
  /\ stream = None

Begun(s) == journal[s] # <<>>
\* Bound: nothing else happens while an answer arrives.
Room(s) == Begun(s) /\ Len(journal[s]) < MaxEvents[s] /\ stream = None
Record(s, event) == journal' = [journal EXCEPT ![s] = Append(@, event)]

-----------------------------------------------------------------------------
(* Faulty variants, each put in place of the definition it is named after.  *)

\* What is inherited grows with the parent.
ForkEvents_All(journals, forks, s) == journals[s - 1]

-----------------------------------------------------------------------------
(* SessionManager.project.                                                  *)

\* The events of the parent that a session builds on.
ForkEvents(journals, forks, s) == SubSeq(journals[s - 1], 1, forks[s])

\* What a session inherits: the context of its parent as of the fork.
Inherited(journals, forks) ==
  LET inherited[s \in Sessions] ==
        IF s = 1 THEN <<>>
        ELSE ProjectContext(ForkEvents(journals, forks, s), inherited[s - 1])
  IN  inherited

Project(journals, forks, s) == ProjectContext(journals[s], Inherited(journals, forks)[s])
Shown(s) == Project(journal, fork, s)

-----------------------------------------------------------------------------
(* What happens to a session.                                               *)

Say(s) ==
  /\ Room(s)
  /\ \E message \in Inputs : Record(s, Appended(message))
  /\ UNCHANGED <<fork, stream>>

Said(s) == Visible(journal[s])
Calls(s) == IdsOf(BlocksIn(Said(s), "tool_call"))
ResultsIn(messages, id) == Filter(BlocksIn(messages, "tool_result"), LAMBDA b : b.id = id)
ResultsOf(s, id) == ResultsIn(Said(s), id)
Answered(s) == {id \in Calls(s) : ResultsOf(s, id) # <<>>}

\* Bound: no more than MaxAnswers.
Answers ==
  UNION {{<<s, i>> : i \in {j \in DOMAIN Said(s) : Said(s)[j].answer # None}} : s \in Sessions}

\* The model is called once the session's own calls have results, and an
\* answer whose arguments do not parse is not journaled (module AgentLoop).
Callable(s) == Room(s) /\ Calls(s) = Answered(s) /\ Cardinality(Answers) < MaxAnswers
Accepted(message) ==
  \A i \in DOMAIN message.content :
    message.content[i].type = "tool_call" => ~message.content[i].error

\* Bound: no answer is given twice.
Given(answer) ==
  \E s \in Sessions : \E i \in DOMAIN Said(s) :
    Said(s)[i].provider = answer.provider /\ Said(s)[i].answer.wire = answer.wire

Answer(s) ==
  /\ Callable(s)
  /\ \E a \in Whole :
       ~Given(a) /\ Record(s, Appended(Normalized(a.provider, a.wire, a.options)))
  /\ UNCHANGED <<fork, stream>>

\* A first result may be pending; a reconciled one follows it.
Settle(s) ==
  /\ Room(s)
  /\ \E id \in Calls(s), content \in {Pending, Settled} :
       /\ IF ResultsOf(s, id) = <<>> THEN TRUE
          ELSE content = Settled /\ Last(ResultsOf(s, id)).content = Pending
       /\ Record(s, Appended(Message("tool", <<ToolResult(id, content)>>)))
  /\ UNCHANGED <<fork, stream>>

\* A host may record any boundary, also one that must be ignored.
Compact(s) ==
  /\ Room(s)
  /\ \E through \in DOMAIN journal[s], scope \in {"local", "including_inherited"} :
       /\ s = 1 => scope = "local"
       /\ Record(s, Compaction(through, Summary, scope))
  /\ UNCHANGED <<fork, stream>>

\* fork at the last event; the parent's journal gets a link.
Fork(s) ==
  /\ s > 1 /\ ~Begun(s) /\ Begun(s - 1) /\ stream = None
  /\ fork' = [fork EXCEPT ![s] = Len(journal[s - 1])]
  /\ journal' = [journal EXCEPT ![s] = <<Trace("session.started")>>,
                                ![s - 1] = Append(@, Trace("child.started"))]
  /\ UNCHANGED stream

-----------------------------------------------------------------------------
(* A streamed answer.                                                       *)

\* Bound: only the first answer of the first session is streamed.
Open ==
  /\ Callable(1) /\ Len(journal[1]) = 1
  /\ \E answer \in Streamed, crlf \in BOOLEAN :
       \E cuts \in SUBSET (1 .. Len(answer.deltas) - 1) :
         LET chunks == Chunks(answer.deltas, answer.wire, cuts)
         IN  stream' = [answer |-> answer, chunks |-> chunks,
                        transit |-> Bytes(Len(chunks), crlf),
                        reader |-> NewReader, cut |-> FALSE]
  /\ UNCHANGED <<journal, fork>>

Arriving == stream # None /\ stream.reader.status = "reading"

Receive ==
  /\ Arriving
  /\ \E n \in DOMAIN stream.transit :
       stream' = [stream EXCEPT
         !.transit = SubSeq(@, n + 1, Len(@)),
         !.reader = Read(@, SubSeq(stream.transit, 1, n), stream.chunks)]
  /\ UNCHANGED <<journal, fork>>

\* The connection ends early, without an error.
Cut ==
  /\ Arriving /\ stream.transit # <<>>
  /\ stream' = [stream EXCEPT !.transit = <<>>, !.cut = TRUE]
  /\ UNCHANGED <<journal, fork>>

EndOfBody ==
  /\ Arriving /\ stream.transit = <<>>
  /\ stream' = [stream EXCEPT !.reader = ReadEnd(@, stream.chunks)]
  /\ UNCHANGED <<journal, fork>>

\* The invoker returns the accumulated answer, or throws.
Complete ==
  /\ stream # None /\ ~Arriving
  /\ LET reader == stream.reader
         message == Normalized("openai-chat", Response(reader.acc), stream.answer.options)
     IN  IF reader.status = "ended" /\ reader.acc.chunks > 0 /\ Accepted(message)
         THEN Record(1, Appended(message)) ELSE UNCHANGED journal
  /\ stream' = None
  /\ UNCHANGED fork

Next ==
  \/ \E s \in Sessions : Say(s) \/ Answer(s) \/ Settle(s) \/ Compact(s) \/ Fork(s)
  \/ Open \/ Receive \/ Cut \/ EndOfBody \/ Complete

Spec == Init /\ [][Next]_vars

-----------------------------------------------------------------------------
(* A stream.                                                                *)

\* What the host was told live, for one kind of delta.
Told(type) ==
  Each(stream.reader.acc.live, LAMBDA l : IF l.type = type THEN l.value ELSE <<>>)
ToldArguments(id) ==
  Each(stream.reader.acc.live, LAMBDA l :
    IF l.type = "tool_call_arguments_delta" /\ l.value[1] = id THEN Tail(l.value) ELSE <<>>)

\* What the accumulator has a place for: no refusal, no array of parts, and
\* reasoning that is empty counts as absent.
Carried(answer) ==
  [answer EXCEPT !.parts = <<>>, !.refusal = None, !.reasoning = IF @ = <<>> THEN None ELSE @]

\* Whether the first part of a call names it.
NamedAtOnce(k) ==
  Head(PartsOf(Joined(stream.answer.deltas).calls, k)).id # None

\* The reasoning of a chunk that the host is told: plain, or else the details'.
Reasoned(delta) ==
  IF delta.reasoning # None THEN delta.reasoning
  ELSE Each(delta.details, LAMBDA p : TextOf(p.text))

\* However a provider interleaves the deltas of an answer, cuts them into chunks
\* and has its bytes cut into pieces, the accumulated answer is the provider's
\* but for the refusal and for content in parts, which are lost.  The host is
\* told each call once, then its arguments as they come (those that came before
\* its id never), all text, and of each chunk the plain reasoning or else that
\* of the details: reasoning that comes in both, in chunks of their own, is told
\* twice.  A connection that ends early never passes for a complete answer.
StreamedAsWhole ==
  stream # None =>
    LET acc == stream.reader.acc
        whole == stream.answer.wire
        started == Told("tool_call_started")
    IN  /\ stream.reader.status = "failed" => stream.cut
        /\ stream.reader.status = "ended" /\ ~stream.cut => acc.finish # None
        /\ acc.finish # None =>
             /\ Response(acc) = Carried(whole)
             /\ StopReason(acc.finish) = (IF whole.calls = <<>> THEN "end" ELSE "tool_use")
             /\ Told("stream_completed") = <<acc.finish>>
        /\ Told("text_delta") = acc.content /\ IsPrefix(acc.content, whole.content)
        /\ IsInjective(started)
        /\ ToSet(started) = {acc.calls[k].id : k \in DOMAIN acc.calls} \ {None}
        /\ \A k \in DOMAIN acc.calls : LET arguments == acc.calls[k].arguments IN
             /\ IsPrefix(arguments, whole.calls[k].arguments)
             /\ acc.calls[k].id # None =>
                  \E n \in 0 .. Len(arguments) :
                    /\ ToldArguments(acc.calls[k].id) = SubSeq(arguments, n + 1, Len(arguments))
                    /\ NamedAtOnce(k) => n = 0
        /\ Told("reasoning_delta") =
             Each(SubSeq(stream.chunks, 1, acc.chunks), LAMBDA c : Reasoned(c.delta))

-----------------------------------------------------------------------------
(* What the model is shown.                                                 *)

\* All that a session's ancestors recorded before its forks, whatever was
\* compacted since, and with what it recorded itself.
Ancestry ==
  LET before[s \in Sessions] ==
        IF s = 1 THEN <<>> ELSE before[s - 1] \o Visible(ForkEvents(journal, fork, s))
  IN  before
History(s) == Ancestry[s] \o Visible(journal[s])

Holds(message, type, id) ==
  \E i \in DOMAIN message.content : message.content[i].type = type /\ message.content[i].id = id
Places(messages, type, id) == {i \in DOMAIN messages : Holds(messages[i], type, id)}

\* Forks, compactions and reconciliations leave every visible call its latest
\* result, behind it, and no other; a result without its call is seen only
\* where an earlier result was compacted together with the call.
CallsKeepResults ==
  \A s \in Sessions : Begun(s) =>
    LET shown == Shown(s)
        history == History(s)
    IN  \A id \in IdsOf(BlocksIn(history, "tool_call")) :
          LET calls == Places(shown, "tool_call", id)
              results == ResultsIn(shown, id)
              recorded == ResultsIn(history, id)
          IN  /\ calls # {} /\ recorded # <<>> =>
                   /\ results = <<Last(recorded)>>
                   /\ \A i \in calls, j \in Places(shown, "tool_result", id) : i < j
              /\ Len(results) <= 1
              /\ calls = {} /\ results # <<>> => Len(recorded) > 1

\* A session's context is changed by its own events only, and by a message
\* only at its end, except for the older result of the same call.  So what a
\* fork inherited stays, and a compaction that was ignored stays ignored.
ContextsAdvance ==
  [][\A s \in Sessions : Begun(s) =>
       LET before == Shown(s)
           after == Project(journal', fork', s)
           event == Last(journal'[s])
       IN  IF journal'[s] = journal[s] THEN after = before
           ELSE event.type # "context.compacted" =>
                  after = SupersedeToolResults(
                    IF event.message = None THEN before ELSE Append(before, event.message))]_vars

-----------------------------------------------------------------------------
(* What the provider is sent.                                               *)

\* The pieces of an input, in order.
Pieces(provider, messages) ==
  CASE provider = "openai" ->
         Each(ToOpenAI(messages), LAMBDA i : IF i.type = "message" THEN i.parts ELSE <<i>>)
    [] provider = "anthropic" ->
         AnthropicSystem(messages) \o Each(AnthropicMessages(messages), LAMBDA m : m.content)
    [] OTHER ->
         Each(ToChat(messages), LAMBDA m :
           CASE m.role = "assistant" ->
                  m.content \o m.calls \o Each(m.details, LAMBDA d :
                                <<WireReasoning("details", None, d)>>)
             [] m.role = "tool" -> <<[type |-> "result", id |-> m.id]>>
             [] OTHER -> m.content)

\* What a piece says, whatever the wire calls it; of arguments their value.
Sense(piece) ==
  CASE piece.type \in {"text", "output_text", "input_text", "refusal"} -> <<"text", piece.text>>
    [] piece.type \in {"function_call", "tool_use", "function"} ->
         <<"call", piece.id, JsonValue(piece.arguments)>>
    [] piece.type \in {"function_call_output", "tool_result", "result"} -> <<"result", piece.id>>
    [] piece.type \in {"reasoning", "thinking", "redacted_thinking", "details"} ->
         <<"opaque", piece.opaque>>
    [] piece.type = "unencodable" -> <<piece.of>>
    [] OTHER -> <<piece.type>>
Shared == {"text", "call"}

\* The pieces of an answer, as its provider gave it.
AnswerPieces(provider, wire) ==
  CASE provider = "openai" ->
         Each(wire, LAMBDA i : IF i.type = "message" THEN i.parts ELSE <<i>>)
    [] provider = "anthropic" -> wire
    [] OTHER ->
         (IF wire.content = <<>> THEN wire.parts ELSE <<WireText("text", wire.content)>>)
         \o (IF wire.refusal = None THEN <<>> ELSE <<WireText("refusal", wire.refusal)>>)
         \o wire.calls \o Each(wire.details, LAMBDA d : <<WireReasoning("details", None, d)>>)

\* What openai-chat relays to another provider: the reasoning of its format.
\* (Data reaches anthropic whatever its format is.)
Relayed(provider, detail) ==
  CASE provider = "openai" /\ detail.format = "openai" -> <<<<"opaque", detail.data>>>>
    [] provider = "anthropic" /\ detail.signature # None /\ detail.text # None ->
         <<<<"opaque", detail.signature>>>>
    [] provider = "anthropic" /\ (detail.signature = None \/ detail.text = None)
         /\ detail.data # None -> <<<<"opaque", detail.data>>>>
    [] OTHER -> <<>>

\* What of a piece of an answer is meant for its own provider, and for another.
\* openai-chat does not get back the parts it alone knows.
OwnSense(message, sense) ==
  LET options == message.answer.options
      kept == CASE sense[1] \in Shared -> TRUE
                [] sense[1] = "opaque" -> options.metadata \/ message.provider = "openai-chat"
                [] OTHER               -> options.unknown
  IN  IF ~kept THEN <<>>
      ELSE IF sense[1] \in Shared \cup {"opaque"} \/ message.provider # "openai-chat" THEN <<sense>>
      ELSE <<<<"provider">>>>
ForeignSense(message, provider, sense) ==
  CASE sense[1] \in Shared -> <<sense>>
    [] sense[1] = "opaque" ->
         IF message.provider = "openai-chat" THEN Relayed(provider, sense[2]) ELSE <<>>
    [] OTHER -> IF message.answer.options.unknown THEN <<<<"provider">>>> ELSE <<>>

\* openai-chat has a place of its own for calls and one for reasoning.
ChatOrder(senses) ==
  LET Of(kinds) == Filter(senses, LAMBDA x : x[1] \in kinds)
  IN  Filter(senses, LAMBDA x : x[1] \notin {"call", "opaque"}) \o Of({"call"}) \o Of({"opaque"})

Expected(provider, message) ==
  LET Placed(senses) == IF provider = "openai-chat" THEN ChatOrder(senses) ELSE senses IN
  IF message.answer = None
  THEN Each(message.content, LAMBDA b :
         CASE b.type = "text"        -> <<<<"text", b.value>>>>
           [] b.type = "tool_result" -> <<<<"result", b.id>>>>
           [] OTHER                  -> <<<<b.type>>>>)
  ELSE Placed(Each(AnswerPieces(message.provider, message.answer.wire), LAMBDA piece :
         IF message.provider = provider THEN OwnSense(message, Sense(piece))
         ELSE ForeignSense(message, provider, Sense(piece))))

\* An answer goes back to its provider as it came, opaque reasoning included
\* (but openai-chat gets a placeholder for a part that it alone knows), and to
\* any other provider with all it said but its reasoning, which only openai-chat
\* relays; everything else is sent, or replaced by a placeholder, once and in
\* order, whatever was forked, compacted or reconciled.  Anthropic gets system
\* messages first and the results of a turn in one message.  (It refuses a
\* context with a message that would be empty.)
EncodedFaithfully ==
  \A s \in Sessions : Begun(s) =>
    LET shown == Shown(s)
        sent == AnthropicMessages(shown)
        OnlyResults(k) == \A i \in DOMAIN sent[k].content : sent[k].content[i].type = "tool_result"
        Faithful(provider, meant) ==
          Each(Pieces(provider, shown), LAMBDA p : <<Sense(p)>>)
            = Each(meant, LAMBDA m : Expected(provider, m))
    IN  /\ Faithful("openai", shown) /\ Faithful("openai-chat", shown)
        /\ EmptyForAnthropic(shown)
           \/ /\ Faithful("anthropic", OfSystem(shown) \o NotOfSystem(shown))
              /\ \A k \in 1 .. Len(sent) - 1 : ~(OnlyResults(k) /\ OnlyResults(k + 1))
=============================================================================
