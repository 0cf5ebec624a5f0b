------------------------------- MODULE Streams ------------------------------
(***************************************************************************)
(* An answer that arrives as server-sent events: sseJsonEvents and the     *)
(* chat completion accumulator (src/src/providers.ts), as the invoker      *)
(* drives them.  The provider cuts its answer into chunks where it likes   *)
(* and the network delivers the bytes in pieces that respect neither       *)
(* events nor line ends; the connection may also end early.                *)
(***************************************************************************)
EXTENDS Providers

-----------------------------------------------------------------------------
(* The provider's side: deltas, the answer they deliver, chunks and bytes.   *)

\* Calls and details come in parts that carry the index of what they belong to.
Nothing == [content |-> <<>>, parts |-> <<>>, refusal |-> None, reasoning |-> None,
            calls |-> <<>>, details |-> <<>>]
CallPart(index, id, arguments) == [index |-> index, id |-> id, arguments |-> arguments]
DetailPart(index, format, text, signature, data) ==
  [index |-> index, format |-> format, text |-> text, signature |-> signature, data |-> data]

\* Of texts that may be absent, their join; of other values, the last one given.
JoinedText(s, f(_)) ==
  IF \A i \in DOMAIN s : f(s[i]) = None THEN None ELSE Each(s, LAMBDA x : TextOf(f(x)))
LastGiven(s, f(_)) ==
  LET given == Each(s, LAMBDA x : IF f(x) = None THEN <<>> ELSE <<f(x)>>)
  IN  IF given = <<>> THEN None ELSE Last(given)

Joined(deltas) ==
  [content   |-> Each(deltas, LAMBDA d : d.content),
   parts     |-> Each(deltas, LAMBDA d : d.parts),
   refusal   |-> JoinedText(deltas, LAMBDA d : d.refusal),
   reasoning |-> JoinedText(deltas, LAMBDA d : d.reasoning),
   calls     |-> Each(deltas, LAMBDA d : d.calls),
   details   |-> Each(deltas, LAMBDA d : d.details)]

\* What parts come to, in whatever order those of other indices come between.
PartsOf(parts, index) == Filter(parts, LAMBDA p : p.index = index)
CallOf(parts) ==
  WireCall("function", LastGiven(parts, LAMBDA p : p.id), Each(parts, LAMBDA p : p.arguments))
DetailOf(parts) ==
  Detail(LastGiven(parts, LAMBDA p : p.format), JoinedText(parts, LAMBDA p : p.text),
         LastGiven(parts, LAMBDA p : p.signature), LastGiven(parts, LAMBDA p : p.data))

Delivers(deltas, answer) ==
  LET all == Joined(deltas)
  IN  /\ all.content = answer.content /\ all.parts = answer.parts
      /\ all.refusal = answer.refusal /\ all.reasoning = answer.reasoning
      /\ \A k \in DOMAIN answer.calls :
           PartsOf(all.calls, k) # <<>> /\ answer.calls[k] = CallOf(PartsOf(all.calls, k))
      /\ \A k \in DOMAIN answer.details :
           PartsOf(all.details, k) # <<>> /\ answer.details[k] = DetailOf(PartsOf(all.details, k))

\* One chunk for each group of deltas; the last one says why it ends.
\* cuts: after which deltas a new chunk begins.
Chunks(deltas, answer, cuts) ==
  LET ends == InOrder(cuts \cup {Len(deltas)})
      begin(k) == IF k = 1 THEN 1 ELSE ends[k - 1] + 1
  IN  [k \in DOMAIN ends |->
        [delta  |-> Joined(SubSeq(deltas, begin(k), ends[k])),
         finish |-> IF k < Len(ends) THEN None
                    ELSE IF answer.calls = <<>> THEN "stop" ELSE "tool_calls"]]

(* Bytes, as coarse as the parser can tell them apart: a chunk is two       *)
(* halves of a data line, chunk 0 is [DONE].                                *)
Byte(kind, chunk) == [kind |-> kind, chunk |-> chunk]
LF == Byte("LF", 0)
CR == Byte("CR", 0)

Bytes(n, crlf) ==
  LET line == IF crlf THEN <<CR, LF>> ELSE <<LF>>
      Event(k) == <<Byte("open", k), Byte("close", k)>> \o line \o line
  IN  <<Byte("comment", 0)>> \o line \o line
        \o FlattenSeq([k \in 1 .. n |-> Event(k)]) \o Event(0)

-----------------------------------------------------------------------------
(* Types of what arrives of an answer, in n chunks.  Every piece of a call  *)
(* belongs to a call of the answer.                                         *)

Finishes == {"stop", "tool_calls"}
ByteKinds == {"comment", "open", "close", "LF", "CR"}
Lives ==
  [type : {"text_delta", "reasoning_delta", "tool_call_started", "tool_call_arguments_delta"},
   value : Texts]
  \cup [type : {"stream_completed"}, value : Seq(Finishes)]

CallParts(answer) ==
  {p \in [index : DOMAIN answer.calls, id : Maybe(STRING), arguments : Texts] :
     p.id \in {None, answer.calls[p.index].id}}
DetailParts(answer) ==
  [index : DOMAIN answer.details, format : Maybe(STRING), text : Maybe(Texts),
   signature : Maybe(STRING), data : Maybe(STRING)]
Deltas(answer) == [content : Texts, parts : Seq(ChatParts), refusal : Maybe(Texts),
                   reasoning : Maybe(Texts), calls : Seq(CallParts(answer)),
                   details : Seq(DetailParts(answer))]
ChunksOf(answer) == [delta : Deltas(answer), finish : Maybe(Finishes)]
BytesOf(n) == [kind : ByteKinds, chunk : 0 .. n]

-----------------------------------------------------------------------------
(* Faulty variants, each put in place of the definition it is named after.  *)

\* Line ends are normalised chunk by chunk of the network.
Buffered_ByPiece(buffer, piece) ==
  buffer \o Each([i \in DOMAIN piece |-> <<piece[i], i < Len(piece) /\ piece[i + 1] = LF>>],
                 LAMBDA p : IF p[1] = CR /\ p[2] THEN <<>> ELSE <<p[1]>>)

-----------------------------------------------------------------------------
(* sseJsonEvents.                                                           *)

\* CRLF becomes LF over the whole buffer, which may hold half of one.
Buffered(buffer, piece) ==
  LET all == buffer \o piece
  IN  FlattenSeq([i \in DOMAIN all |->
        IF all[i] = CR /\ i < Len(all) /\ all[i + 1] = LF THEN <<>> ELSE <<all[i]>>])

\* Comment lines carry no data.
DataOf(event) == Filter(event, LAMBDA b : b.kind \in {"open", "close"})
IsDone(data) == data # <<>> /\ data[1] = Byte("open", 0) /\ Len(data) = 2
IsJson(data) ==
  Len(data) = 2 /\ data[1].kind = "open" /\ data[2] = Byte("close", data[1].chunk)

\* The events in front of the buffer's blank lines, and what is left behind.
SplitEvents(buffer) ==
  LET Blanks(n) == {i \in n .. Len(buffer) - 1 : buffer[i] = LF /\ buffer[i + 1] = LF}
      from[n \in 1 .. Len(buffer) + 1] ==
        IF Blanks(n) = {}
        THEN [events |-> <<>>, rest |-> SubSeq(buffer, n, Len(buffer))]
        ELSE LET i == Min(Blanks(n))
             IN  [from[i + 2] EXCEPT !.events = <<SubSeq(buffer, n, i - 1)>> \o @]
  IN  from[1]

-----------------------------------------------------------------------------
(* createChatCompletionStreamAccumulator.                                   *)

\* calls and details are kept by index; live is what the host has been told.
\* A refusal has no place, and neither has an array of parts.
EmptyAccumulator ==
  [content |-> <<>>, reasoning |-> None, calls |-> <<>>, details |-> <<>>,
   finish |-> None, chunks |-> 0, live |-> <<>>]

Live(type, value) == [type |-> type, value |-> value]
Tell(acc, type, value) ==
  IF value = <<>> THEN acc ELSE [acc EXCEPT !.live = Append(@, Live(type, value))]

\* A map from indices that grows by one key.
At(map, index, default) == IF index \in DOMAIN map THEN map[index] ELSE default
With(map, index, value) == [i \in DOMAIN map \cup {index} |-> IF i = index THEN value ELSE map[i]]

\* Texts grow, other fields are replaced when they come.
Grown(old, text) == IF text = None THEN old ELSE TextOf(old) \o text
Replaced(old, field) == IF field = None THEN old ELSE field

AddDetail(acc, part) ==
  LET old == At(acc.details, part.index, Detail(None, None, None, None))
  IN  [acc EXCEPT !.details = With(@, part.index,
        Detail(Replaced(old.format, part.format), Grown(old.text, part.text),
               Replaced(old.signature, part.signature), Replaced(old.data, part.data)))]

AddCall(acc, part) ==
  LET old == At(acc.calls, part.index, WireCall("function", None, <<>>))
      new == [old EXCEPT !.id = Replaced(@, part.id),
                         !.arguments = @ \o part.arguments]
      announced == IF old.id = None /\ new.id # None
                   THEN Tell(acc, "tool_call_started", <<new.id>>) ELSE acc
      told == IF new.id = None \/ part.arguments = <<>> THEN announced
              ELSE Tell(announced, "tool_call_arguments_delta", <<new.id>> \o part.arguments)
  IN  [told EXCEPT !.calls = With(@, part.index, new)]

Push(acc, chunk) ==
  LET delta == chunk.delta
      said == Tell([acc EXCEPT !.content = @ \o delta.content, !.chunks = @ + 1],
                   "text_delta", delta.content)
      thought == Tell([said EXCEPT !.reasoning = Grown(@, delta.reasoning)],
                      "reasoning_delta", TextOf(delta.reasoning))
      detailed == FoldLeft(AddDetail, thought, delta.details)
      \* The details' text is told where the chunk has no plain reasoning.
      mused == IF delta.reasoning # None THEN detailed
               ELSE Tell(detailed, "reasoning_delta", Each(delta.details, LAMBDA p : TextOf(p.text)))
      called == FoldLeft(AddCall, mused, delta.calls)
  IN  IF chunk.finish = None THEN called
      ELSE [(IF acc.finish = None THEN Tell(called, "stream_completed", <<chunk.finish>>)
             ELSE called) EXCEPT !.finish = chunk.finish]

\* The values of a map, by index.
Values(map) ==
  LET indices == InOrder(DOMAIN map) IN [k \in DOMAIN indices |-> map[indices[k]]]

Response(acc) ==
  ChatAnswer(acc.content, <<>>, None, Values(acc.calls),
             IF acc.reasoning = <<>> THEN None ELSE acc.reasoning, Values(acc.details))

-----------------------------------------------------------------------------
(* The invoker: it pushes every event of the body to the accumulator.       *)

\* Push one event; [DONE] ends the body, a broken text throws.
Consume(reader, event, chunks) ==
  LET data == DataOf(event)
  IN  CASE reader.status # "reading" \/ data = <<>> -> reader
        [] reader.status = "reading" /\ IsDone(data) -> [reader EXCEPT !.status = "ended"]
        [] reader.status = "reading" /\ IsJson(data) /\ ~IsDone(data) ->
             [reader EXCEPT !.acc = Push(@, chunks[data[1].chunk])]
        [] OTHER -> [reader EXCEPT !.status = "failed"]

NewReader == [buffer |-> <<>>, status |-> "reading", acc |-> EmptyAccumulator]

\* Types of the accumulator of an answer, and of the reader of its n chunks.
IsAccumulator(acc, answer) ==
  /\ DOMAIN acc = DOMAIN EmptyAccumulator
  /\ acc.content \in Texts /\ acc.reasoning \in Maybe(Texts)
  /\ acc.finish \in Maybe(Finishes) /\ acc.chunks \in Nat /\ acc.live \in Seq(Lives)
  /\ \E D \in SUBSET DOMAIN answer.calls :
       /\ acc.calls \in [D -> WireCalls]
       /\ \A k \in D : acc.calls[k].id \in {None, answer.calls[k].id}
  /\ \E D \in SUBSET DOMAIN answer.details : acc.details \in [D -> Details]
IsReader(reader, answer, n) ==
  /\ DOMAIN reader = DOMAIN NewReader
  /\ reader.buffer \in Seq(BytesOf(n))
  /\ reader.status \in {"reading", "ended", "failed"}
  /\ IsAccumulator(reader.acc, answer)

Read(reader, piece, chunks) ==
  LET split == SplitEvents(Buffered(reader.buffer, piece))
  IN  FoldLeft(LAMBDA r, event : Consume(r, event, chunks),
               [reader EXCEPT !.buffer = split.rest], split.events)

\* The body ends; what is left counts as an event.
ReadEnd(reader, chunks) ==
  LET last == Consume(reader, reader.buffer, chunks)
  IN  IF last.status = "reading" THEN [last EXCEPT !.status = "ended"] ELSE last
=============================================================================
