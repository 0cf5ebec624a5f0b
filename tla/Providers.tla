------------------------------ MODULE Providers -----------------------------
(***************************************************************************)
(* The provider adapters (src/src/providers.ts): answers of three wire     *)
(* formats become canonical messages, and canonical messages of any origin *)
(* become input for each provider.                                         *)
(*                                                                         *)
(* A wire answer is what it says in order.  Ids of messages, time stamps,  *)
(* usage and the checks of shapes no journal holds are left out.  A block  *)
(* that a provider cannot take becomes a placeholder, which stands for the *)
(* text that "describe" puts there and for the error that "throw" raises.  *)
(***************************************************************************)
EXTENDS CanonicalMessages

Providers == {"openai", "anthropic", "openai-chat"}

(* Wire answers: a sequence of items for openai and anthropic, one record   *)
(* for openai-chat, whose details are opaque reasoning and whose content is *)
(* a text or an array of parts.  None stands for a field that is absent.    *)
WireText(type, text) == [type |-> type, text |-> text]
WireCall(type, id, arguments) == [type |-> type, id |-> id, arguments |-> arguments]
WireReasoning(type, text, opaque) == [type |-> type, text |-> text, opaque |-> opaque]
WireMessage(parts) == [type |-> "message", parts |-> parts]
WireOther(type) == [type |-> type]
Detail(format, text, signature, data) ==
  [format |-> format, text |-> text, signature |-> signature, data |-> data]
ChatAnswer(content, parts, refusal, calls, reasoning, details) ==
  [content |-> content, parts |-> parts, refusal |-> refusal, calls |-> calls,
   reasoning |-> reasoning, details |-> details]

\* NormalizeProviderOptions: preserveProviderMetadata, preserveUnknownBlocks.
NormalizeOptions == [metadata : BOOLEAN, unknown : BOOLEAN]

-----------------------------------------------------------------------------
(* Types.  The type of a wire item tells what it has; None stands for what  *)
(* an item may lack.                                                        *)

TextTypes == {"output_text", "input_text", "refusal", "text"}
CallTypes == {"function_call", "tool_use", "function"}
ReasoningTypes == {"reasoning", "thinking", "redacted_thinking"}

WireTexts == [type : TextTypes, text : Texts]
WireCalls == [type : CallTypes, id : Maybe(STRING), arguments : Texts]
WireReasonings ==
  [type : ReasoningTypes, text : Maybe(Texts), opaque : Maybe(STRING)]
WireOthers == [type : STRING \ ({"message"} \cup TextTypes \cup CallTypes \cup ReasoningTypes)]
WireMessages == [type : {"message"}, parts : Seq(WireTexts \cup WireOthers)]
WireItems == WireTexts \cup WireCalls \cup WireReasonings \cup WireOthers \cup WireMessages

Details == [format : Maybe(STRING), text : Maybe(Texts),
            signature : Maybe(STRING), data : Maybe(STRING)]
ChatParts == {t \in WireTexts : t.type = "text"} \cup WireOthers
ChatAnswers ==
  {a \in [content : Texts, parts : Seq(ChatParts), refusal : Maybe(Texts),
          calls : Seq(WireCalls), reasoning : Maybe(Texts), details : Seq(Details)] :
     a.content = <<>> \/ a.parts = <<>>}
Wires(provider) == IF provider = "openai-chat" THEN ChatAnswers ELSE Seq(WireItems)

\* Blocks that anyone may write, and those that only answers have.
PlainBlocks ==
  [type : {"text"}, value : Texts, raw : Maybe(WireItems)]
  \cup [type : {"image"}, artifact : STRING, bytes : BOOLEAN, raw : {None}]
AnswerBlocks ==
  PlainBlocks
  \cup [type : {"tool_call"}, id : Maybe(STRING), input : Texts, error : BOOLEAN,
        raw : Maybe(WireItems)]
  \cup [type : {"reasoning"}, value : Maybe(Texts), details : Seq(Details),
        raw : Maybe(WireItems)]
  \cup [type : {"provider"}, provider : Providers, placement : {"content", "item"},
        raw : WireItems]
ResultBlocks == [type : {"tool_result"}, id : Maybe(STRING), content : Seq(PlainBlocks)]

PlainMessages == [role : {"system", "user", "assistant"}, content : Seq(PlainBlocks),
                  provider : {None}, answer : {None}]
AnswerMessages(provider) ==
  [role : {"assistant"}, content : Seq(AnswerBlocks), provider : {provider},
   answer : [wire : Wires(provider), options : NormalizeOptions]]
ResultMessages == {m \in [role : {"tool"}, content : Seq(ResultBlocks),
                           provider : {None}, answer : {None}] : Len(m.content) = 1}
Messages ==
  PlainMessages \cup ResultMessages
  \cup AnswerMessages("openai") \cup AnswerMessages("anthropic") \cup AnswerMessages("openai-chat")

-----------------------------------------------------------------------------
(* Faulty variants, each put in place of the definition it is named after.  *)

\* A function call is put before the text that came before it.
Itemised_Unflushed(state, entry, role) ==
  IF entry.part THEN [state EXCEPT !.parts = Append(@, entry.wire)]
  ELSE [state EXCEPT !.items = Append(@, entry.wire)]

-----------------------------------------------------------------------------
(* Normalisation.                                                           *)

Kept(raw, options) == IF options.metadata THEN raw ELSE None

\* A text that may be absent.
TextOf(text) == IF text = None THEN <<>> ELSE text

\* A JSON text without what is blank in it; it is complete with its last brace.
JsonValue(text) == Filter(text, LAMBDA token : token # " ")
Parses(text) == JsonValue(text) # <<>> /\ Last(JsonValue(text)) = "}"

\* A text that does not parse is kept as it is, with the error.
ParseArguments(text) ==
  IF Parses(text) THEN [input |-> JsonValue(text), error |-> FALSE]
  ELSE [input |-> text, error |-> TRUE]

UnknownBlock(provider, placement, raw, options) ==
  IF options.unknown THEN <<ProviderBlock(provider, placement, raw)>> ELSE <<>>

StopReason(finish) ==
  CASE finish \in {"stop", "end_turn", "stop_sequence", "completed"}  -> "end"
    [] finish \in {"tool_calls", "tool_use"}                         -> "tool_use"
    [] finish \in {"length", "max_tokens", "max_output_tokens",
                   "model_context_window_exceeded", "incomplete"}    -> "length"
    [] finish \in {"content_filter", "refusal"}                      -> "content_filter"
    [] finish = "pause_turn"                                         -> "pause"
    [] finish = "cancelled"                                          -> "aborted"
    [] finish \in {"failed", "error"}                                -> "error"
    [] OTHER                                                         -> "unknown"

FromOpenAIPart(part, options) ==
  IF part.type \in {"output_text", "refusal"} THEN <<Text(part.text, Kept(part, options))>>
  ELSE UnknownBlock("openai", "content", part, options)

FromOpenAIItem(item, options) ==
  CASE item.type = "message" ->
         Each(item.parts, LAMBDA part : FromOpenAIPart(part, options))
    [] item.type = "function_call" ->
         <<ToolCall(item.id, ParseArguments(item.arguments), Kept(item, options))>>
    [] item.type = "reasoning" ->
         <<Reasoning(IF TextOf(item.text) = <<>> THEN None ELSE item.text, <<>>,
                     Kept(item, options))>>
    [] OTHER -> UnknownBlock("openai", "item", item, options)

\* The input of a call is a value already.
FromAnthropicBlock(block, options) ==
  CASE block.type = "text" -> <<Text(block.text, Kept(block, options))>>
    [] block.type = "tool_use" ->
         <<ToolCall(block.id, [input |-> JsonValue(block.arguments), error |-> FALSE],
                    Kept(block, options))>>
    [] block.type \in {"thinking", "redacted_thinking"} ->
         <<Reasoning(IF block.type = "thinking" THEN block.text ELSE None, <<>>,
                     Kept(block, options))>>
    [] OTHER -> UnknownBlock("anthropic", "content", block, options)

FromChatPart(part, options) ==
  IF part.type = "text" THEN <<Text(part.text, Kept(part, options))>>
  ELSE UnknownBlock("openai-chat", "content", part, options)

\* An empty content says nothing, an empty refusal is a block; reasoning comes
\* last, with the details' text when there is no other.
FromChat(answer, options) ==
  LET plain == IF answer.reasoning # None THEN answer.reasoning
               ELSE Each(answer.details, LAMBDA d : TextOf(d.text))
  IN  (IF answer.content # <<>> THEN <<Text(answer.content, None)>>
       ELSE Each(answer.parts, LAMBDA p : FromChatPart(p, options)))
        \o (IF answer.refusal = None THEN <<>> ELSE <<Text(answer.refusal, None)>>)
        \o Each(answer.calls, LAMBDA c :
             <<ToolCall(c.id, ParseArguments(c.arguments), Kept(c, options))>>)
        \o (IF plain = <<>> /\ answer.details = <<>> THEN <<>>
            ELSE <<Reasoning(IF plain = <<>> THEN None ELSE plain, answer.details, None)>>)

Normalized(provider, wire, options) ==
  [Message("assistant",
     CASE provider = "openai"    -> Each(wire, LAMBDA i : FromOpenAIItem(i, options))
       [] provider = "anthropic" -> Each(wire, LAMBDA b : FromAnthropicBlock(b, options))
       [] OTHER                  -> FromChat(wire, options))
   EXCEPT !.provider = provider, !.answer = [wire |-> wire, options |-> options]]

-----------------------------------------------------------------------------
(* Encoding.                                                                *)

Placeholder(block) == [type |-> "unencodable", of |-> block.type]

\* What the block says, in its own form if that is of one of the types.
HasRaw(block, types) == block.raw # None /\ block.raw.type \in types
EchoText(block, types, type) ==
  IF HasRaw(block, types) THEN [block.raw EXCEPT !.text = block.value]
  ELSE WireText(type, block.value)
EchoCall(block, type) ==
  IF HasRaw(block, {type}) THEN [block.raw EXCEPT !.id = block.id, !.arguments = block.input]
  ELSE WireCall(type, block.id, block.input)

\* Images inside the results of tools.
ResultContent(blocks, imagesAllowed) ==
  Each(blocks, LAMBDA b :
    CASE b.type = "text"                                  -> b.value
      [] b.type = "image" /\ imagesAllowed /\ b.bytes     -> <<b.artifact>>
      [] OTHER                                            -> <<Placeholder(b)>>)

OpenAIReasoningFromDetails(details) ==
  Each(details, LAMBDA d :
    IF d.format = "openai" THEN <<WireReasoning("reasoning", None, d.data)>> ELSE <<>>)

\* Signed text, and data of whatever format.
AnthropicThinkingFromDetails(details) ==
  Each(details, LAMBDA d :
    CASE d.signature # None /\ d.text # None ->
           <<WireReasoning("thinking", d.text, d.signature)>>
      [] d.data # None /\ (d.signature = None \/ d.text = None) ->
           <<WireReasoning("redacted_thinking", None, d.data)>>
      [] OTHER -> <<>>)

\* toOpenAIInput: content parts gather in a message until an item ends it.
Part(wire) == [part |-> TRUE, wire |-> wire]
Item(wire) == [part |-> FALSE, wire |-> wire]

OpenAIEntries(block, role) ==
  LET textType == IF role = "assistant" THEN "output_text" ELSE "input_text" IN
  CASE block.type = "text" ->
         <<Part(EchoText(block, {"output_text", "input_text"}, textType))>>
    [] block.type = "tool_call" -> <<Item(EchoCall(block, "function_call"))>>
    [] block.type = "tool_result" ->
         <<Item([type |-> "function_call_output", id |-> block.id,
                 content |-> ResultContent(block.content, FALSE)])>>
    [] block.type = "reasoning" ->
         IF HasRaw(block, {"reasoning"}) THEN <<Item(block.raw)>>
         ELSE Each(OpenAIReasoningFromDetails(block.details), LAMBDA i : <<Item(i)>>)
    [] block.type = "provider" /\ block.provider = "openai" ->
         <<IF block.placement = "content" THEN Part(block.raw) ELSE Item(block.raw)>>
    [] block.type = "image" /\ block.bytes /\ role \in {"user", "system"} ->
         <<Part([type |-> "image", artifact |-> block.artifact])>>
    [] OTHER -> <<Part(Placeholder(block))>>

Flushed(state, role) ==
  IF state.parts = <<>> THEN state.items
  ELSE Append(state.items, [type |-> "message", role |-> role, parts |-> state.parts])

Itemised(state, entry, role) ==
  IF entry.part THEN [state EXCEPT !.parts = Append(@, entry.wire)]
  ELSE [items |-> Append(Flushed(state, role), entry.wire), parts |-> <<>>]

ToOpenAI(messages) ==
  Each(messages, LAMBDA m :
    Flushed(FoldLeft(LAMBDA state, entry : Itemised(state, entry, m.role),
                     [items |-> <<>>, parts |-> <<>>],
                     Each(m.content, LAMBDA b : OpenAIEntries(b, m.role))),
            m.role))

\* toAnthropicInput.
AnthropicContent(block) ==
  CASE block.type = "text" -> <<EchoText(block, {"text"}, "text")>>
    [] block.type = "tool_call" -> <<EchoCall(block, "tool_use")>>
    [] block.type = "tool_result" ->
         <<[type |-> "tool_result", id |-> block.id,
            content |-> ResultContent(block.content, TRUE)]>>
    [] block.type = "reasoning" ->
         IF HasRaw(block, {"thinking", "redacted_thinking"}) THEN <<block.raw>>
         ELSE AnthropicThinkingFromDetails(block.details)
    [] block.type = "provider" /\ block.provider = "anthropic" -> <<block.raw>>
    [] block.type = "image" /\ block.bytes -> <<[type |-> "image", artifact |-> block.artifact]>>
    [] OTHER -> <<Placeholder(block)>>

\* System messages become one text beside the others; only text belongs there.
OfSystem(messages) == Filter(messages, LAMBDA m : m.role = "system")
NotOfSystem(messages) == Filter(messages, LAMBDA m : m.role # "system")
AnthropicSystem(messages) ==
  Each(OfSystem(messages), LAMBDA m : Each(m.content, LAMBDA b :
    IF b.type = "text" THEN <<WireText("text", b.value)>> ELSE <<Placeholder(b)>>))

\* A message with nothing to send is refused, and with it the whole input.
EmptyForAnthropic(messages) ==
  LET turns == NotOfSystem(messages)
  IN  \E i \in DOMAIN turns : Each(turns[i].content, AnthropicContent) = <<>>

\* The results of one turn share one user message.
AnthropicMessages(messages) ==
  LET turns == NotOfSystem(messages)
      Merged(i) == i > 1 /\ turns[i].role = "tool" /\ turns[i - 1].role = "tool"
      starts == InOrder({i \in DOMAIN turns : ~Merged(i)})
      upTo(k) == IF k = Len(starts) THEN Len(turns) ELSE starts[k + 1] - 1
      role(k) == turns[starts[k]].role
  IN  [k \in DOMAIN starts |->
        [role    |-> IF role(k) = "tool" THEN "user" ELSE role(k),
         content |-> Each(SubSeq(turns, starts[k], upTo(k)),
                          LAMBDA m : Each(m.content, AnthropicContent))]]

\* toOpenAIChatInput: one message per result, one per other message.
ChatContent(block, role) ==
  CASE block.type = "text" -> <<WireText("text", block.value)>>
    [] block.type = "image" /\ block.bytes /\ role = "user" ->
         <<[type |-> "image", artifact |-> block.artifact]>>
    [] OTHER -> <<Placeholder(block)>>

ChatAssistant(content) ==
  LET of(type) == Filter(content, LAMBDA b : b.type = type)
      spoken == Filter(content, LAMBDA b : b.type \notin {"tool_call", "reasoning"})
  IN  [role    |-> "assistant",
       content |-> Each(spoken, LAMBDA b : ChatContent(b, "assistant")),
       calls   |-> Each(of("tool_call"), LAMBDA b : <<WireCall("function", b.id, b.input)>>),
       details |-> Each(of("reasoning"), LAMBDA b : b.details)]

ToChat(messages) ==
  Each(messages, LAMBDA m :
    CASE m.role = "tool" ->
           Each(m.content, LAMBDA b : <<[role |-> "tool", id |-> b.id,
                                         content |-> ResultContent(b.content, FALSE)]>>)
      [] m.role = "assistant" -> <<ChatAssistant(m.content)>>
      [] OTHER -> <<[role |-> m.role, content |-> Each(m.content, LAMBDA b : ChatContent(b, m.role))]>>)
=============================================================================
