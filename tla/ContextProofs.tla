---------------------------- MODULE ContextProofs ---------------------------
(***************************************************************************)
(* Proofs about module Context and the modules it is made of, for any      *)
(* answers, inputs, chain of forks and way of cutting a stream.            *)
(***************************************************************************)
EXTENDS Context, PositionLemmas

-----------------------------------------------------------------------------
(* Types of what is joined, filtered and put in order.                      *)

\* Sequences joined are a sequence of what they are sequences of.
LEMMA FlattenTyped ==
  ASSUME NEW B, NEW n \in Nat, NEW f \in [1 .. n -> Seq(B)]
  PROVE  FlattenSeq(f) \in Seq(B)
<1> DEFINE W == Seq(B)
<1>1. f \in Seq(W)
  BY DEF Seq
<1> QED BY <1>1, FlattenUnfolds

\* The numbers of a set, in order, are a sequence of them.
LEMMA InOrderTyped ==
  ASSUME NEW n \in Nat, NEW S \in SUBSET (0 .. n)
  PROVE  InOrder(S) \in Seq(S)
<1> DEFINE m == Max(S \cup {0})
           f == [i \in DOMAIN [i \in 1 .. m |-> i] |->
                   IF [j \in 1 .. m |-> j][i] \in S THEN <<[j \in 1 .. m |-> j][i]>> ELSE <<>>]
<1>1. m \in Nat
  <2>1. S \cup {0} \in SUBSET (0 .. n) /\ S \cup {0} # {}
    OBVIOUS
  <2>2. m \in S \cup {0}
    BY <2>1, MaxIsGreatest
  <2>3. m \in 0 .. n
    <3> HIDE DEF m
    <3> QED BY <2>1, <2>2
  <2> QED BY <2>3
<1> HIDE DEF m
<1>2. f \in [1 .. m -> Seq(S)]
  OBVIOUS
<1>3. FlattenSeq(f) \in Seq(S)
  <2> HIDE DEF f
  <2> QED BY <1>1, <1>2, FlattenTyped
<1>4. InOrder(S) = FlattenSeq(f)
  BY DEF InOrder, Filter, Each, m
<1> QED BY <1>3, <1>4

-----------------------------------------------------------------------------
(* Types of answers and of the messages made of them.                       *)

\* The blocks that answers become.
LEMMA BlockTypes ==
  /\ \A v \in Texts, r \in Maybe(WireItems) : Text(v, r) \in AnswerBlocks
  /\ \A id \in Maybe(STRING), p \in [input : Texts, error : BOOLEAN], r \in Maybe(WireItems) :
       ToolCall(id, p, r) \in AnswerBlocks
  /\ \A v \in Maybe(Texts), d \in Seq(Details), r \in Maybe(WireItems) :
       Reasoning(v, d, r) \in AnswerBlocks
  /\ \A p \in Providers, q \in {"content", "item"}, r \in WireItems :
       ProviderBlock(p, q, r) \in AnswerBlocks
BY DEF AnswerBlocks, PlainBlocks, Text, ToolCall, Reasoning, ProviderBlock

\* Raw forms that are kept or not.
LEMMA KeptTypes ==
  ASSUME NEW r \in WireItems, NEW options \in NormalizeOptions
  PROVE  Kept(r, options) \in Maybe(WireItems)
BY DEF Kept, Maybe

\* A block kept for its provider is a block of an answer.
LEMMA UnknownTypes ==
  ASSUME NEW p \in Providers, NEW q \in {"content", "item"}, NEW r \in WireItems,
         NEW options \in NormalizeOptions
  PROVE  UnknownBlock(p, q, r, options) \in Seq(AnswerBlocks)
BY BlockTypes DEF UnknownBlock

\* A text that may be absent, and several of them joined.
LEMMA TextTyped ==
  ASSUME NEW t \in Maybe(Texts)
  PROVE  TextOf(t) \in Texts
<1>1. <<>> \in Texts
  BY DEF Texts
<1> HIDE DEF Texts
<1> QED BY <1>1 DEF TextOf, Maybe

\* Texts joined, those that are absent as empty ones.
LEMMA TextsTyped ==
  ASSUME NEW n \in Nat, NEW f, \A i \in 1 .. n : f[i] \in Maybe(Texts)
  PROVE  FlattenSeq([i \in 1 .. n |-> TextOf(f[i])]) \in Texts
<1> DEFINE g == [i \in 1 .. n |-> TextOf(f[i])]
           W == Seq(STRING)
<1>1. \A i \in 1 .. n : TextOf(f[i]) \in W
  BY TextTyped DEF Texts
<1>2. g \in [1 .. n -> W]
  <2> HIDE DEF W
  <2> QED BY <1>1
<1> HIDE DEF g
<1>3. FlattenSeq(g) \in Seq(STRING)
  BY <1>2, FlattenTyped
<1> QED BY <1>3 DEF g, Texts

\* A JSON text without its blanks, and what is parsed of it.
LEMMA ParsedTypes ==
  ASSUME NEW text \in Texts
  PROVE  /\ JsonValue(text) \in Texts
         /\ [input |-> JsonValue(text), error |-> FALSE] \in [input : Texts, error : BOOLEAN]
         /\ ParseArguments(text) \in [input : Texts, error : BOOLEAN]
<1> DEFINE n == Len(text)
           f == [i \in 1 .. n |-> IF text[i] # " " THEN <<text[i]>> ELSE <<>>]
<1>1. n \in Nat /\ DOMAIN text = 1 .. n /\ \A i \in 1 .. n : text[i] \in STRING
  BY DEF Texts
<1>2. f \in [1 .. n -> Seq(STRING)]
  <2> DEFINE V == STRING
  <2>1. n \in Nat /\ \A i \in 1 .. n : text[i] \in V
    BY <1>1
  <2> HIDE DEF n, V
  <2>2. \A x \in V : <<x>> \in Seq(V)
    OBVIOUS
  <2>3. <<>> \in Seq(V)
    OBVIOUS
  <2> DEFINE W == Seq(V)
  <2>4. \A i \in 1 .. n : (IF text[i] # " " THEN <<text[i]>> ELSE <<>>) \in W
    BY <2>1, <2>2, <2>3, Zenon
  <2> HIDE DEF W
  <2>5. f \in [1 .. n -> W]
    BY <2>4, Zenon
  <2> QED BY <2>5 DEF V, W
<1>3. JsonValue(text) = FlattenSeq(f)
  BY <1>1 DEF JsonValue, Filter, Each
<1>4. JsonValue(text) \in Texts
  <2> HIDE DEF f, n
  <2> QED BY <1>1, <1>2, <1>3, FlattenTyped DEF Texts
<1> HIDE DEF n, f
<1> QED BY <1>4 DEF ParseArguments

\* What the type of a wire item says of it.
LEMMA WireTypes ==
  ASSUME NEW w \in WireItems
  PROVE  /\ w.type \in TextTypes => w \in WireTexts /\ w.text \in Texts
         /\ w.type \in CallTypes =>
              w \in WireCalls /\ w.id \in Maybe(STRING) /\ w.arguments \in Texts
         /\ w.type \in ReasoningTypes => w.text \in Maybe(Texts)
         /\ w.type = "message" => w.parts \in Seq(WireTexts \cup WireOthers)
BY DEF WireItems, WireTexts, WireCalls, WireReasonings, WireOthers, WireMessages,
       TextTypes, CallTypes, ReasoningTypes

\* The parts of an OpenAI message become blocks of an answer.
LEMMA OpenAIPartTypes ==
  ASSUME NEW part \in WireTexts \cup WireOthers, NEW options \in NormalizeOptions
  PROVE  FromOpenAIPart(part, options) \in Seq(AnswerBlocks)
<1>0. part \in WireItems
  BY DEF WireItems
<1>1. CASE part.type \in {"output_text", "refusal"}
  <2>1. part.text \in Texts
    BY <1>0, <1>1, WireTypes DEF TextTypes
  <2>2. Text(part.text, Kept(part, options)) \in AnswerBlocks
    BY <1>0, <2>1, BlockTypes, KeptTypes
  <2> QED BY <1>1, <2>2 DEF FromOpenAIPart
<1>2. CASE part.type \notin {"output_text", "refusal"}
  <2>1. UnknownBlock("openai", "content", part, options) \in Seq(AnswerBlocks)
    BY <1>0, UnknownTypes DEF Providers
  <2> QED BY <1>2, <2>1 DEF FromOpenAIPart
<1> QED BY <1>1, <1>2

\* The items of an OpenAI answer become blocks of an answer.
LEMMA OpenAIItemTypes ==
  ASSUME NEW item \in WireItems, NEW options \in NormalizeOptions
  PROVE  FromOpenAIItem(item, options) \in Seq(AnswerBlocks)
<1>1. CASE item.type = "message"
  <2> DEFINE f == [i \in DOMAIN item.parts |-> FromOpenAIPart(item.parts[i], options)]
  <2>1. item.parts \in Seq(WireTexts \cup WireOthers)
    BY <1>1, WireTypes
  <2>2. Len(item.parts) \in Nat /\ f \in [1 .. Len(item.parts) -> Seq(AnswerBlocks)]
    BY <2>1, OpenAIPartTypes
  <2> HIDE DEF f
  <2>3. FlattenSeq(f) \in Seq(AnswerBlocks)
    BY <2>2, FlattenTyped
  <2>4. FromOpenAIItem(item, options) = FlattenSeq(f)
    BY <1>1 DEF FromOpenAIItem, Each, f
  <2> QED BY <2>3, <2>4
<1>2. CASE item.type = "function_call"
  <2>1. ToolCall(item.id, ParseArguments(item.arguments), Kept(item, options)) \in AnswerBlocks
    <3>1. item.id \in Maybe(STRING) /\ item.arguments \in Texts
      BY <1>2, WireTypes DEF CallTypes
    <3> QED BY <3>1, ParsedTypes, KeptTypes, BlockTypes
  <2> QED BY <1>2, <2>1 DEF FromOpenAIItem
<1>3. CASE item.type = "reasoning"
  <2> DEFINE said == IF TextOf(item.text) = <<>> THEN None ELSE item.text
  <2>1. Reasoning(said, <<>>, Kept(item, options)) \in AnswerBlocks
    <3>1. item.text \in Maybe(Texts) /\ <<>> \in Seq(Details)
      BY <1>3, WireTypes DEF ReasoningTypes
    <3>2. said \in Maybe(Texts)
      BY <3>1 DEF Maybe
    <3> HIDE DEF said
    <3> QED BY <3>1, <3>2, KeptTypes, BlockTypes
  <2> QED BY <1>3, <2>1 DEF FromOpenAIItem
<1>4. CASE item.type \notin {"message", "function_call", "reasoning"}
  <2>1. UnknownBlock("openai", "item", item, options) \in Seq(AnswerBlocks)
    BY UnknownTypes DEF Providers
  <2> QED BY <1>4, <2>1 DEF FromOpenAIItem
<1> QED BY <1>1, <1>2, <1>3, <1>4

\* The blocks of an Anthropic answer become blocks of an answer.
LEMMA AnthropicBlockTypes ==
  ASSUME NEW block \in WireItems, NEW options \in NormalizeOptions
  PROVE  FromAnthropicBlock(block, options) \in Seq(AnswerBlocks)
<1>1. CASE block.type = "text"
  <2>1. Text(block.text, Kept(block, options)) \in AnswerBlocks
    <3>1. block.text \in Texts
      BY <1>1, WireTypes DEF TextTypes
    <3> QED BY <3>1, KeptTypes, BlockTypes
  <2> QED BY <1>1, <2>1 DEF FromAnthropicBlock
<1>2. CASE block.type = "tool_use"
  <2> DEFINE parsed == [input |-> JsonValue(block.arguments), error |-> FALSE]
  <2>1. ToolCall(block.id, parsed, Kept(block, options)) \in AnswerBlocks
    <3>1. block.id \in Maybe(STRING) /\ block.arguments \in Texts
      BY <1>2, WireTypes DEF CallTypes
    <3>2. parsed \in [input : Texts, error : BOOLEAN]
      BY <3>1, ParsedTypes
    <3> HIDE DEF parsed
    <3> QED BY <3>1, <3>2, KeptTypes, BlockTypes
  <2> QED BY <1>2, <2>1 DEF FromAnthropicBlock
<1>3. CASE block.type \in {"thinking", "redacted_thinking"}
  <2> DEFINE said == IF block.type = "thinking" THEN block.text ELSE None
  <2>1. Reasoning(said, <<>>, Kept(block, options)) \in AnswerBlocks
    <3>1. block.text \in Maybe(Texts) /\ <<>> \in Seq(Details)
      BY <1>3, WireTypes DEF ReasoningTypes
    <3>2. said \in Maybe(Texts)
      BY <3>1 DEF Maybe
    <3> HIDE DEF said
    <3> QED BY <3>1, <3>2, KeptTypes, BlockTypes
  <2> QED BY <1>3, <2>1 DEF FromAnthropicBlock
<1>4. CASE block.type \notin {"text", "tool_use", "thinking", "redacted_thinking"}
  <2>1. UnknownBlock("anthropic", "content", block, options) \in Seq(AnswerBlocks)
    BY UnknownTypes DEF Providers
  <2> QED BY <1>4, <2>1 DEF FromAnthropicBlock
<1> QED BY <1>1, <1>2, <1>3, <1>4

\* The fields of an answer of openai-chat.
LEMMA ChatFields ==
  ASSUME NEW answer \in ChatAnswers
  PROVE  /\ answer.content \in Texts /\ answer.parts \in Seq(ChatParts)
         /\ answer.refusal \in Maybe(Texts) /\ answer.reasoning \in Maybe(Texts)
         /\ answer.calls \in Seq(WireCalls) /\ answer.details \in Seq(Details)
         /\ answer.content = <<>> \/ answer.parts = <<>>
         /\ answer = ChatAnswer(answer.content, answer.parts, answer.refusal, answer.calls,
                                answer.reasoning, answer.details)
BY DEF ChatAnswers, ChatAnswer

\* The parts of its content become blocks of an answer.
LEMMA ChatPartTypes ==
  ASSUME NEW part \in ChatParts, NEW options \in NormalizeOptions
  PROVE  FromChatPart(part, options) \in Seq(AnswerBlocks)
<1>0. part \in WireItems
  BY DEF WireItems, ChatParts
<1>1. CASE part.type = "text"
  <2>1. part.text \in Texts
    BY <1>0, <1>1, WireTypes DEF TextTypes
  <2>2. Text(part.text, Kept(part, options)) \in AnswerBlocks
    BY <1>0, <2>1, BlockTypes, KeptTypes
  <2> QED BY <1>1, <2>2 DEF FromChatPart
<1>2. CASE part.type # "text"
  <2>1. UnknownBlock("openai-chat", "content", part, options) \in Seq(AnswerBlocks)
    BY <1>0, UnknownTypes DEF Providers
  <2> QED BY <1>2, <2>1 DEF FromChatPart
<1> QED BY <1>1, <1>2

\* An answer of openai-chat: what it says, its calls, and its reasoning.
LEMMA ChatTypes ==
  ASSUME NEW answer \in ChatAnswers, NEW options \in NormalizeOptions
  PROVE  FromChat(answer, options) \in Seq(AnswerBlocks)
<1> DEFINE parts == [i \in DOMAIN answer.parts |-> FromChatPart(answer.parts[i], options)]
           said == IF answer.content # <<>> THEN <<Text(answer.content, None)>>
                   ELSE FlattenSeq(parts)
           refused == IF answer.refusal = None THEN <<>> ELSE <<Text(answer.refusal, None)>>
           texts == [i \in DOMAIN answer.details |-> TextOf(answer.details[i].text)]
           plain == IF answer.reasoning # None THEN answer.reasoning ELSE FlattenSeq(texts)
           calls == [i \in DOMAIN answer.calls |->
                      <<ToolCall(answer.calls[i].id, ParseArguments(answer.calls[i].arguments),
                                 Kept(answer.calls[i], options))>>]
           last == IF plain = <<>> /\ answer.details = <<>> THEN <<>>
                   ELSE <<Reasoning(IF plain = <<>> THEN None ELSE plain, answer.details, None)>>
<1>1. /\ answer.content \in Texts /\ answer.parts \in Seq(ChatParts)
      /\ answer.refusal \in Maybe(Texts) /\ answer.reasoning \in Maybe(Texts)
      /\ answer.calls \in Seq(WireCalls) /\ answer.details \in Seq(Details)
  BY ChatFields
<1>2. \A text \in Texts : <<Text(text, None)>> \in Seq(AnswerBlocks)
  <2>1. None \in Maybe(WireItems)
    BY DEF Maybe
  <2>2. \A text \in Texts : Text(text, None) \in AnswerBlocks
    BY <2>1, BlockTypes
  <2> QED BY <2>2
<1>3. FlattenSeq(calls) \in Seq(AnswerBlocks)
  <2>1. \A c \in WireCalls : ToolCall(c.id, ParseArguments(c.arguments), Kept(c, options)) \in AnswerBlocks
    <3> SUFFICES ASSUME NEW c \in WireCalls
                 PROVE  ToolCall(c.id, ParseArguments(c.arguments), Kept(c, options)) \in AnswerBlocks
      OBVIOUS
    <3>1. c \in WireItems /\ c.id \in Maybe(STRING) /\ c.arguments \in Texts
      BY DEF WireItems, WireCalls
    <3> QED BY <3>1, ParsedTypes, KeptTypes, BlockTypes
  <2>2. Len(answer.calls) \in Nat /\ calls \in [1 .. Len(answer.calls) -> Seq(AnswerBlocks)]
    BY <1>1, <2>1
  <2> HIDE DEF calls
  <2> QED BY <2>2, FlattenTyped
<1>4. plain \in Texts
  <2>1. Len(answer.details) \in Nat /\ DOMAIN answer.details = 1 .. Len(answer.details)
        /\ \A i \in 1 .. Len(answer.details) : answer.details[i].text \in Maybe(Texts)
    <3>1. Len(answer.details) \in Nat /\ DOMAIN answer.details = 1 .. Len(answer.details)
          /\ \A i \in 1 .. Len(answer.details) : answer.details[i] \in Details
      BY <1>1
    <3>2. \A d \in Details : d.text \in Maybe(Texts)
      BY DEF Details
    <3> QED BY <3>1, <3>2
  <2> DEFINE f == [i \in 1 .. Len(answer.details) |-> answer.details[i].text]
  <2>2. FlattenSeq([i \in 1 .. Len(answer.details) |-> TextOf(f[i])]) \in Texts
    <3>1. \A i \in 1 .. Len(answer.details) : f[i] \in Maybe(Texts)
      BY <2>1
    <3> HIDE DEF f
    <3> QED BY <2>1, <3>1, TextsTyped
  <2>3. [i \in 1 .. Len(answer.details) |-> TextOf(f[i])] = texts
    BY <2>1
  <2>4. FlattenSeq(texts) \in Texts
    <3> HIDE DEF f, texts
    <3> QED BY <2>2, <2>3
  <2> HIDE DEF texts
  <2> QED BY <1>1, <2>4 DEF Maybe
<1>5. last \in Seq(AnswerBlocks)
  <2>1. (IF plain = <<>> THEN None ELSE plain) \in Maybe(Texts) /\ None \in Maybe(WireItems)
    <3> HIDE DEF plain
    <3> QED BY <1>4 DEF Maybe
  <2>2. Reasoning(IF plain = <<>> THEN None ELSE plain, answer.details, None) \in AnswerBlocks
    <3> HIDE DEF plain
    <3> QED BY <1>1, <2>1, BlockTypes
  <2> HIDE DEF plain
  <2> QED BY <2>2
<1>6. said \in Seq(AnswerBlocks)
  <2>1. Len(answer.parts) \in Nat /\ parts \in [1 .. Len(answer.parts) -> Seq(AnswerBlocks)]
    BY <1>1, ChatPartTypes
  <2> HIDE DEF parts
  <2>2. FlattenSeq(parts) \in Seq(AnswerBlocks)
    BY <2>1, FlattenTyped
  <2> QED BY <1>1, <1>2, <2>2
<1>7. refused \in Seq(AnswerBlocks)
  <2>1. <<>> \in Seq(AnswerBlocks)
    OBVIOUS
  <2>2. answer.refusal # None => answer.refusal \in Texts
    BY <1>1 DEF Maybe
  <2> QED BY <1>2, <2>1, <2>2
<1>8. FromChat(answer, options) = said \o refused \o FlattenSeq(calls) \o last
  BY Zenon DEF FromChat, Each
<1>9. \A u, v, w, x \in Seq(AnswerBlocks) : u \o v \o w \o x \in Seq(AnswerBlocks)
  OBVIOUS
<1> HIDE DEF said, refused, calls, last
<1> QED BY <1>3, <1>5, <1>6, <1>7, <1>8, <1>9

\* An answer of a provider becomes a message of it.
LEMMA NormalizedTypes ==
  ASSUME NEW provider \in Providers, NEW wire \in Wires(provider),
         NEW options \in NormalizeOptions
  PROVE  Normalized(provider, wire, options) \in AnswerMessages(provider)
<1> DEFINE content == CASE provider = "openai"    -> Each(wire, LAMBDA i : FromOpenAIItem(i, options))
                        [] provider = "anthropic" -> Each(wire, LAMBDA b : FromAnthropicBlock(b, options))
                        [] OTHER                  -> FromChat(wire, options)
<1>1. content \in Seq(AnswerBlocks)
  <2>1. CASE provider = "openai"
    <3> DEFINE f == [i \in DOMAIN wire |-> FromOpenAIItem(wire[i], options)]
    <3>1. wire \in Seq(WireItems)
      BY <2>1 DEF Wires
    <3>2. Len(wire) \in Nat /\ f \in [1 .. Len(wire) -> Seq(AnswerBlocks)]
      BY <3>1, OpenAIItemTypes
    <3>3. content = FlattenSeq(f)
      BY <2>1 DEF Each
    <3> HIDE DEF f, content
    <3> QED BY <3>2, <3>3, FlattenTyped
  <2>2. CASE provider = "anthropic"
    <3> DEFINE f == [i \in DOMAIN wire |-> FromAnthropicBlock(wire[i], options)]
    <3>1. wire \in Seq(WireItems)
      BY <2>2 DEF Wires
    <3>2. Len(wire) \in Nat /\ f \in [1 .. Len(wire) -> Seq(AnswerBlocks)]
      BY <3>1, AnthropicBlockTypes
    <3>3. content = FlattenSeq(f)
      BY <2>2 DEF Each
    <3> HIDE DEF f, content
    <3> QED BY <3>2, <3>3, FlattenTyped
  <2>3. CASE provider = "openai-chat"
    <3>1. wire \in ChatAnswers
      BY <2>3 DEF Wires
    <3>2. content = FromChat(wire, options)
      BY <2>3
    <3> HIDE DEF content
    <3> QED BY <3>1, <3>2, ChatTypes
  <2> QED BY <2>1, <2>2, <2>3 DEF Providers
<1>2. Normalized(provider, wire, options)
        = [role |-> "assistant", content |-> content, provider |-> provider,
           answer |-> [wire |-> wire, options |-> options]]
  <2>1. Normalized(provider, wire, options)
          = [Message("assistant", content) EXCEPT
               !.provider = provider, !.answer = [wire |-> wire, options |-> options]]
    BY Zenon DEF Normalized
  <2> HIDE DEF content
  <2> QED BY <2>1 DEF Message
<1> HIDE DEF content
<1> QED BY <1>1, <1>2 DEF AnswerMessages

-----------------------------------------------------------------------------
(* Types of what arrives of an answer.                                      *)

\* Texts that may be absent, joined: absent if they all are.
Together(n, f) ==
  IF \A i \in 1 .. n : f[i] = None THEN None ELSE FlattenSeq([i \in 1 .. n |-> TextOf(f[i])])

\* Joined, they are a text that may be absent.
LEMMA TogetherTypes ==
  ASSUME NEW n \in Nat, NEW f, \A i \in 1 .. n : f[i] \in Maybe(Texts)
  PROVE  Together(n, f) \in Maybe(Texts)
<1>1. FlattenSeq([i \in 1 .. n |-> TextOf(f[i])]) \in Texts
  BY TextsTyped
<1> QED BY <1>1, Zenon DEF Together, Maybe

\* The fields of joined deltas.
LEMMA JoinedFields ==
  ASSUME NEW D, NEW deltas \in Seq(D)
  PROVE  LET n == Len(deltas) IN Joined(deltas) =
           [content   |-> FlattenSeq([i \in 1 .. n |-> deltas[i].content]),
            parts     |-> FlattenSeq([i \in 1 .. n |-> deltas[i].parts]),
            refusal   |-> Together(n, [i \in 1 .. n |-> deltas[i].refusal]),
            reasoning |-> Together(n, [i \in 1 .. n |-> deltas[i].reasoning]),
            calls     |-> FlattenSeq([i \in 1 .. n |-> deltas[i].calls]),
            details   |-> FlattenSeq([i \in 1 .. n |-> deltas[i].details])]
<1> DEFINE n == Len(deltas)
           refusals == [i \in 1 .. n |-> deltas[i].refusal]
           reasonings == [i \in 1 .. n |-> deltas[i].reasoning]
<1>1. n \in Nat /\ DOMAIN deltas = 1 .. n
  OBVIOUS
<1>2. JoinedText(deltas, LAMBDA d : d.refusal) = Together(n, refusals)
  <2>1. JoinedText(deltas, LAMBDA d : d.refusal)
          = IF \A i \in 1 .. n : deltas[i].refusal = None THEN None
            ELSE FlattenSeq([i \in 1 .. n |-> TextOf(deltas[i].refusal)])
    BY <1>1 DEF JoinedText, Each
  <2>2. \A i \in 1 .. n : refusals[i] = deltas[i].refusal
    OBVIOUS
  <2>3. [i \in 1 .. n |-> TextOf(refusals[i])] = [i \in 1 .. n |-> TextOf(deltas[i].refusal)]
    BY <2>2
  <2> HIDE DEF refusals, n
  <2> QED BY <2>1, <2>2, <2>3 DEF Together
<1>3. JoinedText(deltas, LAMBDA d : d.reasoning) = Together(n, reasonings)
  <2>1. JoinedText(deltas, LAMBDA d : d.reasoning)
          = IF \A i \in 1 .. n : deltas[i].reasoning = None THEN None
            ELSE FlattenSeq([i \in 1 .. n |-> TextOf(deltas[i].reasoning)])
    BY <1>1 DEF JoinedText, Each
  <2>2. \A i \in 1 .. n : reasonings[i] = deltas[i].reasoning
    OBVIOUS
  <2>3. [i \in 1 .. n |-> TextOf(reasonings[i])] = [i \in 1 .. n |-> TextOf(deltas[i].reasoning)]
    BY <2>2
  <2> HIDE DEF reasonings, n
  <2> QED BY <2>1, <2>2, <2>3 DEF Together
<1>4. Joined(deltas) =
           [content   |-> FlattenSeq([i \in 1 .. n |-> deltas[i].content]),
            parts     |-> FlattenSeq([i \in 1 .. n |-> deltas[i].parts]),
            refusal   |-> JoinedText(deltas, LAMBDA d : d.refusal),
            reasoning |-> JoinedText(deltas, LAMBDA d : d.reasoning),
            calls     |-> FlattenSeq([i \in 1 .. n |-> deltas[i].calls]),
            details   |-> FlattenSeq([i \in 1 .. n |-> deltas[i].details])]
  <2> HIDE DEF n
  <2> QED BY <1>1, Zenon DEF Joined, Each
<1> HIDE DEF refusals, reasonings
<1>5. Joined(deltas) =
           [content   |-> FlattenSeq([i \in 1 .. n |-> deltas[i].content]),
            parts     |-> FlattenSeq([i \in 1 .. n |-> deltas[i].parts]),
            refusal   |-> Together(n, refusals),
            reasoning |-> Together(n, reasonings),
            calls     |-> FlattenSeq([i \in 1 .. n |-> deltas[i].calls]),
            details   |-> FlattenSeq([i \in 1 .. n |-> deltas[i].details])]
  BY <1>2, <1>3, <1>4, Zenon
<1> QED BY <1>5, Zenon DEF n, refusals, reasonings

\* Deltas joined are a delta.
LEMMA JoinedTypes ==
  ASSUME NEW answer, NEW deltas \in Seq(Deltas(answer))
  PROVE  Joined(deltas) \in Deltas(answer)
<1> DEFINE D == Deltas(answer)
           n == Len(deltas)
           T == Seq(STRING)
           M == Maybe(Texts)
           P == Seq(ChatParts)
           C == Seq(CallParts(answer))
           R == Seq(DetailParts(answer))
           refusals == [i \in 1 .. n |-> deltas[i].refusal]
           reasonings == [i \in 1 .. n |-> deltas[i].reasoning]
<1>1. n \in Nat /\ DOMAIN deltas = 1 .. n /\ \A i \in 1 .. n : deltas[i] \in D
  OBVIOUS
<1>2. D = [content : T, parts : P, refusal : M, reasoning : M, calls : C, details : R]
  BY DEF Deltas, Texts
<1>3. \A i \in 1 .. n : /\ deltas[i].content \in T /\ deltas[i].parts \in P
                        /\ deltas[i].refusal \in M /\ deltas[i].reasoning \in M
                        /\ deltas[i].calls \in C /\ deltas[i].details \in R
  <2> HIDE DEF D, T, M, P, C, R, n
  <2> QED BY <1>1, <1>2
<1>4. /\ [i \in 1 .. n |-> deltas[i].content] \in [1 .. n -> T]
      /\ [i \in 1 .. n |-> deltas[i].parts] \in [1 .. n -> P]
      /\ \A i \in 1 .. n : refusals[i] \in M
      /\ \A i \in 1 .. n : reasonings[i] \in M
      /\ [i \in 1 .. n |-> deltas[i].calls] \in [1 .. n -> C]
      /\ [i \in 1 .. n |-> deltas[i].details] \in [1 .. n -> R]
  <2> HIDE DEF T, M, P, C, R, n, D
  <2> QED BY <1>3
<1> HIDE DEF n, D, refusals, reasonings
<1>5. /\ FlattenSeq([i \in 1 .. n |-> deltas[i].content]) \in T
      /\ FlattenSeq([i \in 1 .. n |-> deltas[i].parts]) \in P
      /\ Together(n, refusals) \in M
      /\ Together(n, reasonings) \in M
      /\ FlattenSeq([i \in 1 .. n |-> deltas[i].calls]) \in C
      /\ FlattenSeq([i \in 1 .. n |-> deltas[i].details]) \in R
  <2>1. FlattenSeq([i \in 1 .. n |-> deltas[i].content]) \in T
    BY <1>1, <1>4, FlattenTyped
  <2>2. FlattenSeq([i \in 1 .. n |-> deltas[i].parts]) \in P
    BY <1>1, <1>4, FlattenTyped
  <2>3. FlattenSeq([i \in 1 .. n |-> deltas[i].calls]) \in C
    BY <1>1, <1>4, FlattenTyped
  <2>4. FlattenSeq([i \in 1 .. n |-> deltas[i].details]) \in R
    BY <1>1, <1>4, FlattenTyped
  <2>5. Together(n, refusals) \in M
    BY <1>1, <1>4, TogetherTypes
  <2>6. Together(n, reasonings) \in M
    BY <1>1, <1>4, TogetherTypes
  <2> QED BY <2>1, <2>2, <2>3, <2>4, <2>5, <2>6
<1>6. Joined(deltas) =
        [content   |-> FlattenSeq([i \in 1 .. n |-> deltas[i].content]),
         parts     |-> FlattenSeq([i \in 1 .. n |-> deltas[i].parts]),
         refusal   |-> Together(n, refusals),
         reasoning |-> Together(n, reasonings),
         calls     |-> FlattenSeq([i \in 1 .. n |-> deltas[i].calls]),
         details   |-> FlattenSeq([i \in 1 .. n |-> deltas[i].details])]
  BY JoinedFields, Zenon DEF n, refusals, reasonings
<1> HIDE DEF T, M, P, C, R
<1>7. Joined(deltas) \in [content : T, parts : P, refusal : M, reasoning : M, calls : C, details : R]
  BY <1>5, <1>6
<1> QED BY <1>2, <1>7 DEF D

\* An answer in chunks, wherever it is cut.
LEMMA ChunkTypes ==
  ASSUME NEW answer, NEW deltas \in Seq(Deltas(answer)),
         NEW cuts \in SUBSET (1 .. Len(deltas) - 1)
  PROVE  Chunks(deltas, answer, cuts) \in Seq(ChunksOf(answer))
<1> DEFINE D == Deltas(answer)
           n == Len(deltas)
           ends == InOrder(cuts \cup {n})
           begin(k) == IF k = 1 THEN 1 ELSE ends[k - 1] + 1
           finish(k) == IF k < Len(ends) THEN None
                        ELSE IF answer.calls = <<>> THEN "stop" ELSE "tool_calls"
           chunk(k) == [delta |-> Joined(SubSeq(deltas, begin(k), ends[k])), finish |-> finish(k)]
<1>1. deltas \in Seq(D) /\ n \in Nat
  OBVIOUS
<1>2. ends \in Seq(0 .. n)
  <2>0. cuts \in SUBSET (1 .. n - 1)
    OBVIOUS
  <2> HIDE DEF n
  <2>1. cuts \cup {n} \in SUBSET (0 .. n)
    BY <1>1, <2>0
  <2>2. ends \in Seq(cuts \cup {n})
    BY <1>1, <2>1, InOrderTyped
  <2>3. \A S, W, e : S \in SUBSET W /\ e \in Seq(S) => e \in Seq(W)
    OBVIOUS
  <2> HIDE DEF ends
  <2> QED BY <2>1, <2>2, <2>3, Zenon
<1> HIDE DEF D, ends
<1>3. /\ Len(ends) \in Nat /\ DOMAIN ends = 1 .. Len(ends)
      /\ \A k \in 1 .. Len(ends) : ends[k] \in 0 .. n
  <2> DEFINE S == 0 .. n
  <2>1. ends \in Seq(S)
    BY <1>2
  <2> HIDE DEF S
  <2>2. Len(ends) \in Nat /\ DOMAIN ends = 1 .. Len(ends) /\ \A k \in 1 .. Len(ends) : ends[k] \in S
    BY <2>1
  <2> QED BY <2>2 DEF S
<1>4. ASSUME NEW k \in 1 .. Len(ends) PROVE chunk(k) \in ChunksOf(answer)
  <2>1. begin(k) \in Nat \ {0}
    <3> HIDE DEF n
    <3>1. CASE k = 1
      BY <3>1
    <3>2. CASE k # 1
      <4>1. k - 1 \in 1 .. Len(ends)
        BY <1>3, <3>2
      <4>2. ends[k - 1] \in Nat
        BY <1>1, <1>3, <4>1
      <4> QED BY <3>2, <4>2
    <3> QED BY <3>1, <3>2
  <2>2. SubSeq(deltas, begin(k), ends[k]) \in Seq(D)
    <3>0. ends[k] \in 0 .. n
      BY <1>3
    <3> HIDE DEF begin
    <3>1. \A i \in begin(k) .. ends[k] : i \in 1 .. Len(deltas)
      BY <1>1, <2>1, <3>0
    <3> QED BY <1>1, <2>1, <3>0, <3>1
  <2>3. Joined(SubSeq(deltas, begin(k), ends[k])) \in D
    <3> HIDE DEF begin
    <3> QED BY <2>2, JoinedTypes DEF D
  <2>4. finish(k) \in Maybe(Finishes)
    BY DEF Maybe, Finishes
  <2> HIDE DEF begin, finish
  <2> QED BY <2>3, <2>4 DEF ChunksOf, D
<1>5. Chunks(deltas, answer, cuts) = [k \in 1 .. Len(ends) |-> chunk(k)]
  <2>1. Chunks(deltas, answer, cuts) = [k \in DOMAIN ends |-> chunk(k)]
    BY Zenon DEF Chunks, ends
  <2> HIDE DEF chunk
  <2> QED BY <1>3, <2>1
<1> HIDE DEF chunk
<1> QED BY <1>3, <1>4, <1>5

\* The bytes of n chunks.
LEMMA BytesTypes ==
  ASSUME NEW n \in Nat, NEW crlf \in BOOLEAN
  PROVE  Bytes(n, crlf) \in Seq(BytesOf(n))
<1> DEFINE B == BytesOf(n)
           line == IF crlf THEN <<CR, LF>> ELSE <<LF>>
           Event(k) == <<Byte("open", k), Byte("close", k)>> \o line \o line
           f == [k \in 1 .. n |-> Event(k)]
<1>1. \A t \in ByteKinds, k \in 0 .. n : Byte(t, k) \in B
  BY DEF Byte, BytesOf
<1>2. LF \in B /\ CR \in B
  <2>1. 0 \in 0 .. n /\ "LF" \in ByteKinds /\ "CR" \in ByteKinds
    BY DEF ByteKinds
  <2> QED BY <1>1, <2>1, Zenon DEF LF, CR
<1> HIDE DEF B
<1>3. line \in Seq(B)
  BY <1>2
<1> HIDE DEF line
<1>4. \A k \in 0 .. n : Event(k) \in Seq(B)
  <2>1. "open" \in ByteKinds /\ "close" \in ByteKinds
    BY DEF ByteKinds
  <2>2. \A k \in 0 .. n : Byte("open", k) \in B /\ Byte("close", k) \in B
    BY <1>1, <2>1, Zenon
  <2> QED BY <1>3, <2>2
<1> HIDE DEF Event
<1>5. FlattenSeq(f) \in Seq(B)
  <2>1. f \in [1 .. n -> Seq(B)]
    BY <1>4
  <2> HIDE DEF f
  <2> QED BY <2>1, FlattenTyped
<1>6. <<Byte("comment", 0)>> \in Seq(B) /\ Event(0) \in Seq(B)
  <2>1. 0 \in 0 .. n /\ "comment" \in ByteKinds
    BY DEF ByteKinds
  <2>2. Byte("comment", 0) \in B
    BY <1>1, <2>1, Zenon
  <2> QED BY <1>4, <2>1, <2>2
<1>7. Bytes(n, crlf) = <<Byte("comment", 0)>> \o line \o line \o FlattenSeq(f) \o Event(0)
  BY Zenon DEF Bytes, line, Event
<1>8. \A u, v, w, x \in Seq(B) : u \o v \o v \o w \o x \in Seq(B)
  OBVIOUS
<1> HIDE DEF f
<1> QED BY <1>3, <1>5, <1>6, <1>7, <1>8 DEF B

-----------------------------------------------------------------------------
(* Types of what a reader makes of the bytes.                               *)

\* What the reader buffers are bytes of the body, CRLF or not.
LEMMA BufferedTypes ==
  ASSUME NEW n \in Nat, NEW buffer \in Seq(BytesOf(n)), NEW piece \in Seq(BytesOf(n))
  PROVE  Buffered(buffer, piece) \in Seq(BytesOf(n))
<1> DEFINE B == BytesOf(n)
           all == buffer \o piece
           f == [i \in DOMAIN all |->
                  IF all[i] = CR /\ i < Len(all) /\ all[i + 1] = LF THEN <<>> ELSE <<all[i]>>]
<1> HIDE DEF B
<1>1. all \in Seq(B)
  BY DEF B
<1> HIDE DEF all
<1>2. Len(all) \in Nat /\ f \in [1 .. Len(all) -> Seq(B)]
  BY <1>1
<1>3. Buffered(buffer, piece) = FlattenSeq(f)
  BY Zenon DEF Buffered, all
<1> HIDE DEF f
<1> QED BY <1>2, <1>3, FlattenTyped DEF B

Later(g, L, stop, jump, base, piece) ==
  g = [n \in 1 .. L |-> IF n \in stop THEN base[n]
                        ELSE [g[jump[n]] EXCEPT !.events = <<piece[n]>> \o @]]

\* A value that each position of a buffer takes from a later one, or by itself.
LEMMA LaterExists ==
  ASSUME NEW L \in Nat, NEW stop, NEW jump, NEW base, NEW piece,
         \A n \in 1 .. L : n \notin stop => jump[n] \in n + 1 .. L
  PROVE  \E g : Later(g, L, stop, jump, base, piece)
<1> DEFINE Body(g, n) == IF n \in stop THEN base[n]
                         ELSE [g[jump[n]] EXCEPT !.events = <<piece[n]>> \o @]
           P == {m \in Nat : m <= L => \E g : g = [n \in L - m + 1 .. L |-> Body(g, n)]}
<1>1. 0 \in P
  <2>1. [n \in L + 1 .. L |-> base[n]]
          = [n \in L + 1 .. L |-> Body([k \in L + 1 .. L |-> base[k]], n)]
    <3> HIDE DEF Body
    <3> QED OBVIOUS
  <2> HIDE DEF Body
  <2>2. L - 0 + 1 = L + 1
    OBVIOUS
  <2> QED BY <2>1, <2>2
<1>2. ASSUME NEW m \in Nat, m \in P PROVE m + 1 \in P
  <2> SUFFICES ASSUME m + 1 <= L
               PROVE  \E g : g = [n \in L - (m + 1) + 1 .. L |-> Body(g, n)]
    OBVIOUS
  <2>1. PICK g : g = [n \in L - m + 1 .. L |-> Body(g, n)]
    <3>1. m <= L
      OBVIOUS
    <3> HIDE DEF Body
    <3> QED BY <1>2, <3>1
  <2> DEFINE h == [n \in L - m .. L |-> Body(g, n)]
  <2>2. \A n \in L - m + 1 .. L : h[n] = g[n]
    <3>1. \A n \in L - m + 1 .. L : g[n] = Body(g, n)
      <4> HIDE DEF Body
      <4> QED BY <2>1
    <3> HIDE DEF Body
    <3> QED BY <3>1
  <2>3. \A n \in L - m .. L : n \notin stop => jump[n] \in L - m + 1 .. L
    OBVIOUS
  <2>4. \A n \in L - m .. L : Body(g, n) = Body(h, n)
    <3> SUFFICES ASSUME NEW n \in L - m .. L PROVE Body(g, n) = Body(h, n)
      OBVIOUS
    <3>1. n \notin stop => h[jump[n]] = g[jump[n]]
      BY <2>2, <2>3
    <3> HIDE DEF h
    <3> QED BY <3>1
  <2>5. h = [n \in L - m .. L |-> Body(h, n)]
    <3> HIDE DEF Body
    <3> QED BY <2>4
  <2>6. L - (m + 1) + 1 = L - m
    OBVIOUS
  <2> HIDE DEF Body, h
  <2> QED BY <2>5, <2>6
<1>3. Nat \subseteq P
  <2> HIDE DEF P
  <2> QED BY <1>1, <1>2, NatInduct
<1>4. PICK g : g = [n \in L - L + 1 .. L |-> Body(g, n)]
  <2> HIDE DEF Body
  <2>1. L \in P /\ L <= L
    <3> HIDE DEF P
    <3> QED BY <1>3
  <2> QED BY <2>1
<1>5. L - L + 1 = 1
  OBVIOUS
<1>6. g = [n \in 1 .. L |-> Body(g, n)]
  <2> HIDE DEF Body
  <2> QED BY <1>4, <1>5
<1> QED BY <1>6, Zenon DEF Later

\* Where the blank lines of a buffer are, from a position on.
BlanksFrom(b, n) == {i \in n .. Len(b) - 1 : b[i] = LF /\ b[i + 1] = LF}

\* g splits a buffer from every position on.
Splits(g, b) ==
  \A n \in 1 .. Len(b) + 1 :
    g[n] = IF BlanksFrom(b, n) = {}
           THEN [events |-> <<>>, rest |-> SubSeq(b, n, Len(b))]
           ELSE [g[Min(BlanksFrom(b, n)) + 2] EXCEPT
                   !.events = <<SubSeq(b, n, Min(BlanksFrom(b, n)) - 1)>> \o @]

\* The recursive function behind SplitEvents exists.
LEMMA SplitUnfolds ==
  ASSUME NEW B, NEW buffer \in Seq(B)
  PROVE  /\ \E g : Splits(g, buffer) /\ SplitEvents(buffer) = g[1]
         /\ \A n \in 1 .. Len(buffer) + 1 : BlanksFrom(buffer, n) # {} =>
              /\ Min(BlanksFrom(buffer, n)) \in BlanksFrom(buffer, n)
              /\ \A i \in BlanksFrom(buffer, n) : Min(BlanksFrom(buffer, n)) <= i
<1> DEFINE L == Len(buffer) + 1
           Blanks(n) == BlanksFrom(buffer, n)
           stop == {n \in 1 .. L : Blanks(n) = {}}
           jump == [n \in 1 .. L |-> IF Blanks(n) = {} THEN n ELSE Min(Blanks(n)) + 2]
           base == [n \in 1 .. L |-> [events |-> <<>>, rest |-> SubSeq(buffer, n, Len(buffer))]]
           piece == [n \in 1 .. L |-> SubSeq(buffer, n, Min(Blanks(n)) - 1)]
           Body(g, n) == IF n \in stop THEN base[n]
                         ELSE [g[jump[n]] EXCEPT !.events = <<piece[n]>> \o @]
           Text0(g, n) == IF Blanks(n) = {}
                          THEN [events |-> <<>>, rest |-> SubSeq(buffer, n, Len(buffer))]
                          ELSE LET i == Min(Blanks(n))
                               IN  [g[i + 2] EXCEPT !.events = <<SubSeq(buffer, n, i - 1)>> \o @]
           from == CHOOSE g : g = [n \in 1 .. L |-> Text0(g, n)]
<1>1. Len(buffer) \in Nat /\ L \in Nat
  OBVIOUS
<1>2. ASSUME NEW n \in 1 .. L, Blanks(n) # {}
      PROVE  /\ Min(Blanks(n)) \in n .. L - 2
             /\ Min(Blanks(n)) \in Blanks(n) /\ \A i \in Blanks(n) : Min(Blanks(n)) <= i
  <2>1. Blanks(n) \in SUBSET Nat /\ Blanks(n) \subseteq n .. L - 2
    BY <1>1 DEF BlanksFrom
  <2> HIDE DEF Blanks, L
  <2>2. Min(Blanks(n)) \in Blanks(n) /\ \A i \in Blanks(n) : Min(Blanks(n)) <= i
    BY <1>2, <2>1, MinIsLeast
  <2> QED BY <2>1, <2>2
<1> HIDE DEF Blanks
<1>3. /\ jump \in [1 .. L -> 1 .. L]
      /\ \A n \in 1 .. L : n \notin stop => jump[n] > n
      /\ \A n \in 1 .. L : Blanks(n) # {} => jump[n] = Min(Blanks(n)) + 2
  <2> HIDE DEF L
  <2> QED BY <1>1, <1>2
<1>4. \A n \in 1 .. L : base[n] = [events |-> <<>>, rest |-> SubSeq(buffer, n, Len(buffer))]
                        /\ piece[n] = SubSeq(buffer, n, Min(Blanks(n)) - 1)
                        /\ (n \in stop <=> Blanks(n) = {})
  OBVIOUS
<1> HIDE DEF stop, jump, base, piece, L
<1>7. \A g : \A n \in 1 .. L : Text0(g, n) = Body(g, n)
  <2> SUFFICES ASSUME NEW g, NEW n \in 1 .. L PROVE Text0(g, n) = Body(g, n)
    OBVIOUS
  <2>1. CASE Blanks(n) = {}
    BY <1>4, <2>1
  <2>2. CASE Blanks(n) # {}
    BY <1>3, <1>4, <2>2
  <2> QED BY <2>1, <2>2
<1>8. PICK r : r = [n \in 1 .. L |-> Body(r, n)]
  <2> HIDE DEF Blanks
  <2>1. \A n \in 1 .. L : n \notin stop => jump[n] \in n + 1 .. L
    BY <1>1, <1>3
  <2>2. \E g : Later(g, L, stop, jump, base, piece)
    BY <1>1, <2>1, LaterExists
  <2> QED BY <2>2, Zenon DEF Later
<1>9. from = [n \in 1 .. L |-> Text0(from, n)]
  <2> HIDE DEF Text0, Body
  <2>1. \A h : [n \in 1 .. L |-> Text0(h, n)] = [n \in 1 .. L |-> Body(h, n)]
    BY <1>7
  <2>2. r = [n \in 1 .. L |-> Text0(r, n)]
    BY <1>8, <2>1
  <2> QED BY <2>2
<1>10. SplitEvents(buffer) = from[1]
  BY DEF SplitEvents, L, Blanks, BlanksFrom
<1> HIDE DEF from
<1>11. \A n \in 1 .. L : from[n] = Text0(from, n)
  <2> HIDE DEF Text0
  <2> QED BY <1>9
<1>12. Splits(from, buffer)
  BY <1>11, Zenon DEF Splits, L, Blanks
<1>13. \E g : Splits(g, buffer) /\ SplitEvents(buffer) = g[1]
  BY <1>10, <1>12, Zenon
<1> QED BY <1>2, <1>13 DEF L, Blanks

\* The events of a buffer and what is left of it.
LEMMA SplitTypes ==
  ASSUME NEW B, NEW buffer \in Seq(B)
  PROVE  /\ SplitEvents(buffer).events \in Seq(Seq(B))
         /\ SplitEvents(buffer).rest \in Seq(B)
<1> DEFINE L == Len(buffer) + 1
           Blanks(n) == BlanksFrom(buffer, n)
           W == Seq(B)
           T == [events : Seq(W), rest : W]
<1>1. Len(buffer) \in Nat /\ L \in Nat
  OBVIOUS
<1>2. PICK from : Splits(from, buffer) /\ SplitEvents(buffer) = from[1]
  BY SplitUnfolds
<1>3. ASSUME NEW n \in 1 .. L, Blanks(n) # {}
      PROVE  Min(Blanks(n)) \in n .. L - 2
  <2>1. Min(Blanks(n)) \in Blanks(n)
    BY <1>3, SplitUnfolds
  <2> QED BY <1>1, <2>1 DEF BlanksFrom
<1> HIDE DEF Blanks
<1>4. \A n \in 1 .. L :
        from[n] = IF Blanks(n) = {}
                  THEN [events |-> <<>>, rest |-> SubSeq(buffer, n, Len(buffer))]
                  ELSE [from[Min(Blanks(n)) + 2] EXCEPT
                          !.events = <<SubSeq(buffer, n, Min(Blanks(n)) - 1)>> \o @]
  BY <1>2, Zenon DEF Splits, L, Blanks
<1> DEFINE P == {m \in Nat : \A n \in 1 .. L : n >= L - m => from[n] \in T}
<1> HIDE DEF L
<1>11. ASSUME NEW n \in 1 .. L, Blanks(n) = {} PROVE from[n] \in T
  <2>1. SubSeq(buffer, n, Len(buffer)) \in Seq(B)
    <3>1. \A i \in n .. Len(buffer) : i \in 1 .. Len(buffer)
      BY <1>1
    <3> QED BY <1>1, <3>1
  <2>2. from[n] = [events |-> <<>>, rest |-> SubSeq(buffer, n, Len(buffer))]
    BY <1>4, <1>11
  <2> HIDE DEF W
  <2>3. SubSeq(buffer, n, Len(buffer)) \in W
    BY <2>1 DEF W
  <2>4. <<>> \in Seq(W)
    OBVIOUS
  <2> QED BY <2>2, <2>3, <2>4
<1>12. ASSUME NEW n \in 1 .. L, Blanks(n) # {}, from[Min(Blanks(n)) + 2] \in T
       PROVE  from[n] \in T
  <2> DEFINE e == Min(Blanks(n)) - 1
             r == from[Min(Blanks(n)) + 2]
             piece == SubSeq(buffer, n, e)
  <2>1. r \in T /\ from[n] = [r EXCEPT !.events = <<piece>> \o @]
    <3> HIDE DEF T
    <3> QED BY <1>4, <1>12, Zenon
  <2>2. e \in Int /\ n \in Nat \ {0} /\ e <= Len(buffer)
    BY <1>1, <1>3, <1>12 DEF L
  <2> HIDE DEF r, e
  <2>3. piece \in W
    <3>1. \A i \in n .. e : i \in 1 .. Len(buffer)
      BY <1>1, <2>2
    <3> QED BY <2>2, <3>1
  <2> HIDE DEF piece, W
  <2>4. <<piece>> \o r.events \in Seq(W)
    BY <2>1, <2>3
  <2> QED BY <2>1, <2>4
<1> HIDE DEF T
<1>13. 0 \in P
  <2>1. L \in 1 .. L => Blanks(L) = {}
    BY <1>1, <1>3
  <2> QED BY <1>1, <1>11, <2>1
<1>14. ASSUME NEW m \in Nat, m \in P PROVE m + 1 \in P
  <2> SUFFICES ASSUME NEW n \in 1 .. L, n >= L - (m + 1) PROVE from[n] \in T
    OBVIOUS
  <2>1. CASE Blanks(n) = {}
    BY <1>11, <2>1
  <2>2. CASE Blanks(n) # {}
    <3>1. Min(Blanks(n)) \in n .. L - 2
      BY <1>3, <2>2
    <3>2. Min(Blanks(n)) + 2 \in 1 .. L /\ Min(Blanks(n)) + 2 >= L - m
      BY <1>1, <3>1
    <3>3. from[Min(Blanks(n)) + 2] \in T
      BY <1>14, <3>2
    <3> QED BY <1>12, <2>2, <3>3
  <2> QED BY <2>1, <2>2
<1>15. Nat \subseteq P
  <2> HIDE DEF P
  <2> QED BY <1>13, <1>14, NatInduct
<1>16. 1 \in 1 .. L
  BY DEF L
<1>17. from[1] \in T
  <2>1. L \in P
    BY <1>1, <1>15
  <2> QED BY <1>1, <1>16, <2>1
<1> QED BY <1>2, <1>17 DEF T, W

\* The data of an event, and the chunk it holds.
LEMMA DataTypes ==
  ASSUME NEW n \in Nat, NEW event \in Seq(BytesOf(n)),
         IsJson(DataOf(event)), ~IsDone(DataOf(event))
  PROVE  DataOf(event)[1].chunk \in 1 .. n
<1> DEFINE B == BytesOf(n)
           f == [i \in DOMAIN event |-> IF event[i].kind \in {"open", "close"} THEN <<event[i]>> ELSE <<>>]
           data == DataOf(event)
<1> HIDE DEF B
<1>1. event \in Seq(B)
  BY DEF B
<1>2. Len(event) \in Nat /\ f \in [1 .. Len(event) -> Seq(B)]
  BY <1>1
<1>3. data = FlattenSeq(f)
  BY DEF DataOf, Filter, Each
<1> HIDE DEF f, data
<1>4. data \in Seq(B)
  BY <1>2, <1>3, FlattenTyped
<1>5. Len(data) = 2
  BY DEF IsJson, data
<1>6. /\ data[1].kind = "open"
      /\ ~(data # <<>> /\ data[1] = Byte("open", 0) /\ Len(data) = 2)
  BY DEF IsJson, IsDone, data
<1>7. data # <<>> /\ data[1] \in B
  <2>1. Len(<<>>) # 2 /\ 1 \in 1 .. 2
    OBVIOUS
  <2>2. data # <<>>
    BY <1>5, <2>1, Zenon
  <2>3. data[1] \in B
    BY <1>4, <1>5, <2>1
  <2> QED BY <2>2, <2>3
<1>8. data[1].chunk \in 0 .. n /\ data[1] = [kind |-> data[1].kind, chunk |-> data[1].chunk]
  BY <1>7 DEF B, BytesOf
<1>9. data[1].chunk # 0
  <2>1. data[1] # Byte("open", 0)
    BY <1>5, <1>6, <1>7, Zenon
  <2> QED BY <1>6, <1>8, <2>1 DEF Byte
<1> QED BY <1>8, <1>9 DEF data

-----------------------------------------------------------------------------
(* What is folded from left to right.                                       *)

\* What FoldLeft takes away, of a set of positions.
LEMMA WithoutMax ==
  ASSUME NEW n \in Nat, NEW S \in SUBSET (1 .. n + 1), S # {}
  PROVE  /\ Max(S) \in S /\ S \ {Max(S)} \in SUBSET (1 .. n)
         /\ \A k \in Nat : S = 1 .. k => Max(S) = k /\ S \ {Max(S)} = 1 .. k - 1
<1>1. S \in SUBSET (0 .. n + 1) /\ n + 1 \in Nat
  OBVIOUS
<1>2. Max(S) \in S /\ \A m \in S : m <= Max(S)
  BY <1>1, MaxIsGreatest
<1> DEFINE x == Max(S)
<1>3. x \in S /\ \A m \in S : m <= x
  BY <1>2
<1> HIDE DEF x
<1>4. S \ {x} \in SUBSET (1 .. n)
  BY <1>3
<1>5. ASSUME NEW k \in Nat, S = 1 .. k PROVE x = k /\ S \ {x} = 1 .. k - 1
  BY <1>3, <1>5
<1> QED BY <1>3, <1>4, <1>5 DEF x

DetailsSets(g, base, s, n) ==
  g = [S \in SUBSET (1 .. n) |-> IF S = {} THEN base ELSE AddDetail(g[S \ {Max(S)}], s[Max(S)])]

\* The recursive function behind the fold over details exists.
LEMMA DetailsExists ==
  ASSUME NEW base, NEW s, NEW n \in Nat
  PROVE  \E g : DetailsSets(g, base, s, n)
<1> DEFINE Body(g, S) == IF S = {} THEN base ELSE AddDetail(g[S \ {Max(S)}], s[Max(S)])
           P == {m \in Nat : \E g : g = [S \in SUBSET (1 .. m) |-> Body(g, S)]}
<1>1. 0 \in P
  <2>1. SUBSET (1 .. 0) = {{}}
    OBVIOUS
  <2>2. [S \in {{}} |-> base] = [S \in {{}} |-> Body([R \in {{}} |-> base], S)]
    OBVIOUS
  <2> HIDE DEF Body
  <2>3. \E g : g = [S \in SUBSET (1 .. 0) |-> Body(g, S)]
    BY <2>1, <2>2
  <2> QED BY <2>3
<1>2. ASSUME NEW m \in Nat, m \in P PROVE m + 1 \in P
  <2>1. PICK g : g = [S \in SUBSET (1 .. m) |-> Body(g, S)]
    <3> HIDE DEF Body
    <3> QED BY <1>2
  <2> DEFINE h == [S \in SUBSET (1 .. m + 1) |-> Body(g, S)]
  <2>2. \A S \in SUBSET (1 .. m) : S \in SUBSET (1 .. m + 1)
    OBVIOUS
  <2>3. \A S \in SUBSET (1 .. m) : h[S] = g[S]
    <3> HIDE DEF Body
    <3>1. \A S \in SUBSET (1 .. m) : g[S] = Body(g, S)
      BY <2>1
    <3> QED BY <2>2, <3>1
  <2>4. ASSUME NEW S \in SUBSET (1 .. m + 1) PROVE Body(g, S) = Body(h, S)
    <3>1. CASE S = {}
      BY <3>1
    <3>2. CASE S # {}
      <4>1. S \ {Max(S)} \in SUBSET (1 .. m)
        BY <3>2, WithoutMax
      <4>2. h[S \ {Max(S)}] = g[S \ {Max(S)}]
        <5> HIDE DEF h
        <5> QED BY <2>3, <4>1
      <4> HIDE DEF h
      <4> QED BY <3>2, <4>2
    <3> QED BY <3>1, <3>2
  <2>5. h = [S \in SUBSET (1 .. m + 1) |-> Body(h, S)]
    <3> HIDE DEF Body
    <3> QED BY <2>4
  <2> HIDE DEF Body, h
  <2> QED BY <2>5
<1>3. Nat \subseteq P
  <2> HIDE DEF P
  <2> QED BY <1>1, <1>2, NatInduct
<1>4. \E g : g = [S \in SUBSET (1 .. n) |-> Body(g, S)]
  <2> HIDE DEF Body
  <2> QED BY <1>3
<1> QED BY <1>4, Zenon DEF DetailsSets

AddDetails(base, s) == FoldLeft(AddDetail, base, s)

\* Details, added one after the other.
LEMMA DetailsFolds ==
  ASSUME NEW base, NEW B, NEW s \in Seq(B)
  PROVE  \E h : /\ h[0] = base /\ h[Len(s)] = AddDetails(base, s)
                /\ \A k \in 1 .. Len(s) : h[k] = AddDetail(h[k - 1], s[k])
<1> DEFINE n == Len(s)
           g == CHOOSE g : DetailsSets(g, base, s, n)
           h == [k \in 0 .. n |-> g[1 .. k]]
<1>1. n \in Nat /\ DOMAIN s = 1 .. n
  OBVIOUS
<1>2. DetailsSets(g, base, s, n)
  <2> HIDE DEF n
  <2> QED BY <1>1, DetailsExists
<1>3. AddDetails(base, s) = g[1 .. n]
  <2>1. AddDetails(base, s) = (CHOOSE f : f = [S \in SUBSET DOMAIN s |->
          IF S = {} THEN base ELSE AddDetail(f[S \ {Max(S)}], s[Max(S)])])[DOMAIN s]
    BY Zenon DEF AddDetails, FoldLeft, MapThenFoldSet
  <2>2. g = CHOOSE f : f = [S \in SUBSET (1 .. n) |->
          IF S = {} THEN base ELSE AddDetail(f[S \ {Max(S)}], s[Max(S)])]
    BY Zenon DEF DetailsSets
  <2> HIDE DEF n, g
  <2> QED BY <1>1, <2>1, <2>2, Zenon
<1> HIDE DEF n, g
<1>4. g[1 .. 0] = base
  <2>1. 1 .. 0 = {} /\ {} \in SUBSET (1 .. n)
    OBVIOUS
  <2> QED BY <1>2, <2>1 DEF DetailsSets
<1>5. ASSUME NEW k \in 1 .. n PROVE g[1 .. k] = AddDetail(g[1 .. k - 1], s[k])
  <2>1. 1 .. k \in SUBSET (1 .. n) /\ 1 .. k # {} /\ k \in Nat /\ 1 .. k \in SUBSET (1 .. n + 1)
    BY <1>1
  <2>2. Max(1 .. k) = k /\ (1 .. k) \ {Max(1 .. k)} = 1 .. k - 1
    BY <1>1, <2>1, WithoutMax
  <2>3. g[1 .. k] = AddDetail(g[(1 .. k) \ {Max(1 .. k)}], s[Max(1 .. k)])
    BY <1>2, <2>1, Zenon DEF DetailsSets
  <2> QED BY <2>2, <2>3, Zenon
<1>6. /\ h[0] = g[1 .. 0] /\ h[n] = g[1 .. n]
      /\ \A k \in 1 .. n : h[k] = g[1 .. k] /\ h[k - 1] = g[1 .. k - 1]
  BY <1>1
<1> HIDE DEF h
<1>7. \A k \in 1 .. n : h[k] = AddDetail(h[k - 1], s[k])
  BY <1>5, <1>6, Zenon
<1> QED BY <1>3, <1>4, <1>6, <1>7, Zenon DEF n

CallsSets(g, base, s, n) ==
  g = [S \in SUBSET (1 .. n) |-> IF S = {} THEN base ELSE AddCall(g[S \ {Max(S)}], s[Max(S)])]

\* The recursive function behind the fold over tool calls exists.
LEMMA CallsExists ==
  ASSUME NEW base, NEW s, NEW n \in Nat
  PROVE  \E g : CallsSets(g, base, s, n)
<1> DEFINE Body(g, S) == IF S = {} THEN base ELSE AddCall(g[S \ {Max(S)}], s[Max(S)])
           P == {m \in Nat : \E g : g = [S \in SUBSET (1 .. m) |-> Body(g, S)]}
<1>1. 0 \in P
  <2>1. SUBSET (1 .. 0) = {{}}
    OBVIOUS
  <2>2. [S \in {{}} |-> base] = [S \in {{}} |-> Body([R \in {{}} |-> base], S)]
    OBVIOUS
  <2> HIDE DEF Body
  <2>3. \E g : g = [S \in SUBSET (1 .. 0) |-> Body(g, S)]
    BY <2>1, <2>2
  <2> QED BY <2>3
<1>2. ASSUME NEW m \in Nat, m \in P PROVE m + 1 \in P
  <2>1. PICK g : g = [S \in SUBSET (1 .. m) |-> Body(g, S)]
    <3> HIDE DEF Body
    <3> QED BY <1>2
  <2> DEFINE h == [S \in SUBSET (1 .. m + 1) |-> Body(g, S)]
  <2>2. \A S \in SUBSET (1 .. m) : S \in SUBSET (1 .. m + 1)
    OBVIOUS
  <2>3. \A S \in SUBSET (1 .. m) : h[S] = g[S]
    <3> HIDE DEF Body
    <3>1. \A S \in SUBSET (1 .. m) : g[S] = Body(g, S)
      BY <2>1
    <3> QED BY <2>2, <3>1
  <2>4. ASSUME NEW S \in SUBSET (1 .. m + 1) PROVE Body(g, S) = Body(h, S)
    <3>1. CASE S = {}
      BY <3>1
    <3>2. CASE S # {}
      <4>1. S \ {Max(S)} \in SUBSET (1 .. m)
        BY <3>2, WithoutMax
      <4>2. h[S \ {Max(S)}] = g[S \ {Max(S)}]
        <5> HIDE DEF h
        <5> QED BY <2>3, <4>1
      <4> HIDE DEF h
      <4> QED BY <3>2, <4>2
    <3> QED BY <3>1, <3>2
  <2>5. h = [S \in SUBSET (1 .. m + 1) |-> Body(h, S)]
    <3> HIDE DEF Body
    <3> QED BY <2>4
  <2> HIDE DEF Body, h
  <2> QED BY <2>5
<1>3. Nat \subseteq P
  <2> HIDE DEF P
  <2> QED BY <1>1, <1>2, NatInduct
<1>4. \E g : g = [S \in SUBSET (1 .. n) |-> Body(g, S)]
  <2> HIDE DEF Body
  <2> QED BY <1>3
<1> QED BY <1>4, Zenon DEF CallsSets

AddCalls(base, s) == FoldLeft(AddCall, base, s)

\* Calls, added one after the other.
LEMMA CallsFolds ==
  ASSUME NEW base, NEW B, NEW s \in Seq(B)
  PROVE  \E h : /\ h[0] = base /\ h[Len(s)] = AddCalls(base, s)
                /\ \A k \in 1 .. Len(s) : h[k] = AddCall(h[k - 1], s[k])
<1> DEFINE n == Len(s)
           g == CHOOSE g : CallsSets(g, base, s, n)
           h == [k \in 0 .. n |-> g[1 .. k]]
<1>1. n \in Nat /\ DOMAIN s = 1 .. n
  OBVIOUS
<1>2. CallsSets(g, base, s, n)
  <2> HIDE DEF n
  <2> QED BY <1>1, CallsExists
<1>3. AddCalls(base, s) = g[1 .. n]
  <2>1. AddCalls(base, s) = (CHOOSE f : f = [S \in SUBSET DOMAIN s |->
          IF S = {} THEN base ELSE AddCall(f[S \ {Max(S)}], s[Max(S)])])[DOMAIN s]
    BY Zenon DEF AddCalls, FoldLeft, MapThenFoldSet
  <2>2. g = CHOOSE f : f = [S \in SUBSET (1 .. n) |->
          IF S = {} THEN base ELSE AddCall(f[S \ {Max(S)}], s[Max(S)])]
    BY Zenon DEF CallsSets
  <2> HIDE DEF n, g
  <2> QED BY <1>1, <2>1, <2>2, Zenon
<1> HIDE DEF n, g
<1>4. g[1 .. 0] = base
  <2>1. 1 .. 0 = {} /\ {} \in SUBSET (1 .. n)
    OBVIOUS
  <2> QED BY <1>2, <2>1 DEF CallsSets
<1>5. ASSUME NEW k \in 1 .. n PROVE g[1 .. k] = AddCall(g[1 .. k - 1], s[k])
  <2>1. 1 .. k \in SUBSET (1 .. n) /\ 1 .. k # {} /\ k \in Nat /\ 1 .. k \in SUBSET (1 .. n + 1)
    BY <1>1
  <2>2. Max(1 .. k) = k /\ (1 .. k) \ {Max(1 .. k)} = 1 .. k - 1
    BY <1>1, <2>1, WithoutMax
  <2>3. g[1 .. k] = AddCall(g[(1 .. k) \ {Max(1 .. k)}], s[Max(1 .. k)])
    BY <1>2, <2>1, Zenon DEF CallsSets
  <2> QED BY <2>2, <2>3, Zenon
<1>6. /\ h[0] = g[1 .. 0] /\ h[n] = g[1 .. n]
      /\ \A k \in 1 .. n : h[k] = g[1 .. k] /\ h[k - 1] = g[1 .. k - 1]
  BY <1>1
<1> HIDE DEF h
<1>7. \A k \in 1 .. n : h[k] = AddCall(h[k - 1], s[k])
  BY <1>5, <1>6, Zenon
<1> QED BY <1>3, <1>4, <1>6, <1>7, Zenon DEF n

ConsumedSets(g, base, s, n, chunks) ==
  g = [S \in SUBSET (1 .. n) |-> IF S = {} THEN base ELSE Consume(g[S \ {Max(S)}], s[Max(S)], chunks)]

\* The recursive function behind the fold over events exists.
LEMMA ConsumedExists ==
  ASSUME NEW base, NEW s, NEW n \in Nat, NEW chunks
  PROVE  \E g : ConsumedSets(g, base, s, n, chunks)
<1> DEFINE Body(g, S) == IF S = {} THEN base ELSE Consume(g[S \ {Max(S)}], s[Max(S)], chunks)
           P == {m \in Nat : \E g : g = [S \in SUBSET (1 .. m) |-> Body(g, S)]}
<1>1. 0 \in P
  <2>1. SUBSET (1 .. 0) = {{}}
    OBVIOUS
  <2>2. [S \in {{}} |-> base] = [S \in {{}} |-> Body([R \in {{}} |-> base], S)]
    OBVIOUS
  <2> HIDE DEF Body
  <2>3. \E g : g = [S \in SUBSET (1 .. 0) |-> Body(g, S)]
    BY <2>1, <2>2
  <2> QED BY <2>3
<1>2. ASSUME NEW m \in Nat, m \in P PROVE m + 1 \in P
  <2>1. PICK g : g = [S \in SUBSET (1 .. m) |-> Body(g, S)]
    <3> HIDE DEF Body
    <3> QED BY <1>2
  <2> DEFINE h == [S \in SUBSET (1 .. m + 1) |-> Body(g, S)]
  <2>2. \A S \in SUBSET (1 .. m) : S \in SUBSET (1 .. m + 1)
    OBVIOUS
  <2>3. \A S \in SUBSET (1 .. m) : h[S] = g[S]
    <3> HIDE DEF Body
    <3>1. \A S \in SUBSET (1 .. m) : g[S] = Body(g, S)
      BY <2>1
    <3> QED BY <2>2, <3>1
  <2>4. ASSUME NEW S \in SUBSET (1 .. m + 1) PROVE Body(g, S) = Body(h, S)
    <3>1. CASE S = {}
      BY <3>1
    <3>2. CASE S # {}
      <4>1. S \ {Max(S)} \in SUBSET (1 .. m)
        BY <3>2, WithoutMax
      <4>2. h[S \ {Max(S)}] = g[S \ {Max(S)}]
        <5> HIDE DEF h
        <5> QED BY <2>3, <4>1
      <4> HIDE DEF h
      <4> QED BY <3>2, <4>2
    <3> QED BY <3>1, <3>2
  <2>5. h = [S \in SUBSET (1 .. m + 1) |-> Body(h, S)]
    <3> HIDE DEF Body
    <3> QED BY <2>4
  <2> HIDE DEF Body, h
  <2> QED BY <2>5
<1>3. Nat \subseteq P
  <2> HIDE DEF P
  <2> QED BY <1>1, <1>2, NatInduct
<1>4. \E g : g = [S \in SUBSET (1 .. n) |-> Body(g, S)]
  <2> HIDE DEF Body
  <2> QED BY <1>3
<1> QED BY <1>4, Zenon DEF ConsumedSets

ConsumeAll(base, s, chunks) == FoldLeft(LAMBDA r, event : Consume(r, event, chunks), base, s)

\* h holds the readers before, between and after the events s.
ConsumedBy(h, base, s, chunks) ==
  /\ h[0] = base /\ h[Len(s)] = ConsumeAll(base, s, chunks)
  /\ \A k \in 1 .. Len(s) : h[k] = Consume(h[k - 1], s[k], chunks)

\* Events, consumed one after the other.
LEMMA ConsumedFolds ==
  ASSUME NEW base, NEW B, NEW s \in Seq(B), NEW chunks
  PROVE  \E h : ConsumedBy(h, base, s, chunks)
<1> DEFINE n == Len(s)
           g == CHOOSE g : ConsumedSets(g, base, s, n, chunks)
           h == [k \in 0 .. n |-> g[1 .. k]]
<1>1. n \in Nat /\ DOMAIN s = 1 .. n
  OBVIOUS
<1>2. ConsumedSets(g, base, s, n, chunks)
  <2> HIDE DEF n
  <2> QED BY <1>1, ConsumedExists
<1>3. ConsumeAll(base, s, chunks) = g[1 .. n]
  <2>1. ConsumeAll(base, s, chunks) = (CHOOSE f : f = [S \in SUBSET DOMAIN s |->
          IF S = {} THEN base ELSE Consume(f[S \ {Max(S)}], s[Max(S)], chunks)])[DOMAIN s]
    BY Zenon DEF ConsumeAll, FoldLeft, MapThenFoldSet
  <2>2. g = CHOOSE f : f = [S \in SUBSET (1 .. n) |->
          IF S = {} THEN base ELSE Consume(f[S \ {Max(S)}], s[Max(S)], chunks)]
    BY Zenon DEF ConsumedSets
  <2> HIDE DEF n, g
  <2> QED BY <1>1, <2>1, <2>2, Zenon
<1> HIDE DEF n, g
<1>4. g[1 .. 0] = base
  <2>1. 1 .. 0 = {} /\ {} \in SUBSET (1 .. n)
    OBVIOUS
  <2> QED BY <1>2, <2>1 DEF ConsumedSets
<1>5. ASSUME NEW k \in 1 .. n PROVE g[1 .. k] = Consume(g[1 .. k - 1], s[k], chunks)
  <2>1. 1 .. k \in SUBSET (1 .. n) /\ 1 .. k # {} /\ k \in Nat /\ 1 .. k \in SUBSET (1 .. n + 1)
    BY <1>1
  <2>2. Max(1 .. k) = k /\ (1 .. k) \ {Max(1 .. k)} = 1 .. k - 1
    BY <1>1, <2>1, WithoutMax
  <2>3. g[1 .. k] = Consume(g[(1 .. k) \ {Max(1 .. k)}], s[Max(1 .. k)], chunks)
    BY <1>2, <2>1, Zenon DEF ConsumedSets
  <2> QED BY <2>2, <2>3, Zenon
<1>6. /\ h[0] = g[1 .. 0] /\ h[n] = g[1 .. n]
      /\ \A k \in 1 .. n : h[k] = g[1 .. k] /\ h[k - 1] = g[1 .. k - 1]
  BY <1>1
<1> HIDE DEF h
<1>7. \A k \in 1 .. n : h[k] = Consume(h[k - 1], s[k], chunks)
  BY <1>5, <1>6, Zenon
<1>8. ConsumedBy(h, base, s, chunks)
  BY <1>3, <1>4, <1>6, <1>7, Zenon DEF n, ConsumedBy
<1> QED BY <1>8

-----------------------------------------------------------------------------
(* Types of the accumulator.                                                *)

AccumulatorFields ==
  {"content", "reasoning", "calls", "details", "finish", "chunks", "live"}

\* An accumulator before and after a step that tells the host of something.
LEMMA TellTypes ==
  ASSUME NEW answer, NEW acc, IsAccumulator(acc, answer), NEW type, NEW value,
         value # <<>> => Live(type, value) \in Lives
  PROVE  /\ IsAccumulator(Tell(acc, type, value), answer)
         /\ \A x \in AccumulatorFields \ {"live"} : Tell(acc, type, value)[x] = acc[x]
<1>1. DOMAIN acc = AccumulatorFields
  BY DEF IsAccumulator, EmptyAccumulator, AccumulatorFields
<1>2. CASE value = <<>>
  BY <1>2 DEF Tell
<1>3. CASE value # <<>>
  <2> DEFINE live == Append(acc.live, Live(type, value))
             new == [acc EXCEPT !.live = live]
  <2>1. live \in Seq(Lives)
    <3>1. acc.live \in Seq(Lives) /\ Live(type, value) \in Lives
      BY <1>3 DEF IsAccumulator
    <3> QED BY <3>1
  <2>2. Tell(acc, type, value) = new
    BY <1>3 DEF Tell
  <2> HIDE DEF live
  <2>3. DOMAIN new = DOMAIN acc /\ new.live = live
        /\ \A x \in AccumulatorFields \ {"live"} : new[x] = acc[x]
    BY <1>1 DEF AccumulatorFields
  <2> HIDE DEF new
  <2>4. /\ new.content = acc.content /\ new.reasoning = acc.reasoning /\ new.calls = acc.calls
        /\ new.details = acc.details /\ new.finish = acc.finish /\ new.chunks = acc.chunks
    BY <2>3 DEF AccumulatorFields
  <2>5. IsAccumulator(new, answer)
    BY <2>1, <2>3, <2>4, Zenon DEF IsAccumulator
  <2> QED BY <2>2, <2>3, <2>5
<1> QED BY <1>2, <1>3

\* A map that grows by one key.
LEMMA WithTypes ==
  ASSUME NEW D, NEW V, NEW map \in [D -> V], NEW index, NEW value \in V
  PROVE  /\ With(map, index, value) \in [D \cup {index} -> V]
         /\ With(map, index, value)[index] = value
         /\ \A k \in D : k # index => With(map, index, value)[k] = map[k]
BY DEF With

\* Fields of a detail or a call that are replaced, and a text that grows.
LEMMA GrownTypes ==
  /\ \A old, field \in Maybe(STRING) : Replaced(old, field) \in Maybe(STRING)
  /\ \A old, text \in Maybe(Texts) : Grown(old, text) \in Maybe(Texts)
<1>1. \A old, field \in Maybe(STRING) : Replaced(old, field) \in Maybe(STRING)
  BY DEF Replaced
<1>2. ASSUME NEW old \in Maybe(Texts), NEW text \in Maybe(Texts)
      PROVE  Grown(old, text) \in Maybe(Texts)
  <2>1. \A v, w \in Texts : v \o w \in Texts
    BY DEF Texts
  <2>2. text # None => TextOf(old) \o text \in Texts
    BY <2>1, TextTyped DEF Maybe
  <2> QED BY <2>2 DEF Grown, Maybe
<1> QED BY <1>1, <1>2

\* A detail is added.
LEMMA AddDetailTypes ==
  ASSUME NEW answer \in ChatAnswers, NEW acc, IsAccumulator(acc, answer),
         NEW part \in DetailParts(answer)
  PROVE  IsAccumulator(AddDetail(acc, part), answer)
<1> DEFINE old == At(acc.details, part.index, Detail(None, None, None, None))
           value == Detail(Replaced(old.format, part.format), Grown(old.text, part.text),
                           Replaced(old.signature, part.signature), Replaced(old.data, part.data))
           details == With(acc.details, part.index, value)
           new == [acc EXCEPT !.details = details]
<1>0. DOMAIN acc = AccumulatorFields
  BY DEF IsAccumulator, EmptyAccumulator, AccumulatorFields
<1>1. /\ part.index \in DOMAIN answer.details /\ part.text \in Maybe(Texts)
      /\ part.format \in Maybe(STRING) /\ part.signature \in Maybe(STRING)
      /\ part.data \in Maybe(STRING)
  BY DEF DetailParts
<1>2. PICK D \in SUBSET DOMAIN answer.details : acc.details \in [D -> Details]
  BY DEF IsAccumulator
<1>5. old \in Details
  <2>1. Detail(None, None, None, None) \in Details
    BY DEF Detail, Details, Maybe
  <2> QED BY <1>2, <2>1 DEF At
<1> HIDE DEF old
<1>6. /\ old.text \in Maybe(Texts) /\ old.format \in Maybe(STRING)
      /\ old.signature \in Maybe(STRING) /\ old.data \in Maybe(STRING)
  BY <1>5 DEF Details
<1>7. value \in Details
  <2>1. /\ Replaced(old.format, part.format) \in Maybe(STRING)
        /\ Grown(old.text, part.text) \in Maybe(Texts)
        /\ Replaced(old.signature, part.signature) \in Maybe(STRING)
        /\ Replaced(old.data, part.data) \in Maybe(STRING)
    BY <1>1, <1>6, GrownTypes
  <2> QED BY <2>1 DEF Detail, Details
<1>8. details \in [D \cup {part.index} -> Details]
  <2> HIDE DEF value
  <2> QED BY <1>2, <1>7, WithTypes
<1>9. AddDetail(acc, part) = new
  BY Zenon DEF AddDetail, old
<1> HIDE DEF value, details
<1>10. DOMAIN new = DOMAIN acc /\ new.details = details
       /\ new.content = acc.content /\ new.reasoning = acc.reasoning /\ new.calls = acc.calls
       /\ new.live = acc.live /\ new.finish = acc.finish /\ new.chunks = acc.chunks
  BY <1>0 DEF AccumulatorFields
<1> HIDE DEF new
<1>11. D \cup {part.index} \in SUBSET DOMAIN answer.details
  BY <1>1
<1>12. IsAccumulator(new, answer)
  BY <1>8, <1>10, <1>11, Zenon DEF IsAccumulator
<1> QED BY <1>9, <1>12

\* A call is added, and the host told of it.
LEMMA AddCallTypes ==
  ASSUME NEW answer \in ChatAnswers, NEW acc, IsAccumulator(acc, answer),
         NEW part \in CallParts(answer)
  PROVE  IsAccumulator(AddCall(acc, part), answer)
<1> DEFINE k == part.index
           old == At(acc.calls, k, WireCall("function", None, <<>>))
           id == Replaced(old.id, part.id)
           arguments == old.arguments \o part.arguments
           value == [old EXCEPT !.id = id, !.arguments = arguments]
           announced == IF old.id = None /\ value.id # None
                        THEN Tell(acc, "tool_call_started", <<value.id>>) ELSE acc
           told == IF value.id = None \/ part.arguments = <<>> THEN announced
                   ELSE Tell(announced, "tool_call_arguments_delta", <<value.id>> \o part.arguments)
           calls == With(told.calls, k, value)
           new == [told EXCEPT !.calls = calls]
<1>1. /\ k \in DOMAIN answer.calls /\ part.id \in Maybe(STRING) /\ part.arguments \in Texts
      /\ part.id \in {None, answer.calls[k].id}
  BY DEF CallParts
<1>2. PICK D \in SUBSET DOMAIN answer.calls :
        acc.calls \in [D -> WireCalls] /\ \A j \in D : acc.calls[j].id \in {None, answer.calls[j].id}
  BY DEF IsAccumulator
<1>3. \A v, w \in Texts : v \o w \in Texts
  BY DEF Texts
<1>4. \A c \in WireCalls : c.id \in Maybe(STRING) /\ c.arguments \in Texts
  <2> HIDE DEF old, value
  <2> QED BY DEF WireCalls
<1>5. old \in WireCalls /\ old.id \in {None, answer.calls[k].id}
  <2>1. WireCall("function", None, <<>>) \in WireCalls
    <3>1. <<>> \in Texts
      BY DEF Texts
    <3> QED BY <3>1 DEF WireCall, WireCalls, Maybe, CallTypes
  <2>2. WireCall("function", None, <<>>).id = None
    BY DEF WireCall
  <2> HIDE DEF k
  <2> QED BY <1>2, <2>1, <2>2 DEF At
<1> HIDE DEF old, k
<1>6. id \in Maybe(STRING) /\ id \in {None, answer.calls[k].id} /\ arguments \in Texts
  BY <1>1, <1>3, <1>4, <1>5 DEF Replaced
<1> HIDE DEF id, arguments
<1>7. value \in WireCalls /\ value.id = id
  BY <1>5, <1>6 DEF WireCalls
<1> HIDE DEF value
<1>8. id # None => <<id>> \in Texts /\ <<id>> \o part.arguments \in Texts
  <2>1. \A S : \A x \in S : <<x>> \in Seq(S)
    OBVIOUS
  <2>2. id # None => id \in STRING
    BY <1>6 DEF Maybe
  <2>3. id # None => <<id>> \in Texts
    BY <2>1, <2>2, Zenon DEF Texts
  <2> QED BY <1>1, <1>3, <2>3
<1>9. IsAccumulator(announced, answer) /\ announced.calls = acc.calls
  <2>1. CASE old.id = None /\ value.id # None
    <3>1. Live("tool_call_started", <<value.id>>) \in Lives
      BY <1>7, <1>8, <2>1 DEF Live, Lives
    <3> DEFINE t == Tell(acc, "tool_call_started", <<value.id>>)
    <3>2. IsAccumulator(t, answer) /\ \A x \in AccumulatorFields \ {"live"} : t[x] = acc[x]
      BY <3>1, TellTypes
    <3>3. announced = t
      BY <2>1
    <3> HIDE DEF t, announced
    <3> QED BY <3>2, <3>3 DEF AccumulatorFields
  <2>2. CASE ~(old.id = None /\ value.id # None)
    BY <2>2
  <2> QED BY <2>1, <2>2
<1> HIDE DEF announced
<1>10. IsAccumulator(told, answer) /\ told.calls = acc.calls
  <2>1. CASE value.id = None \/ part.arguments = <<>>
    BY <1>9, <2>1
  <2>2. CASE ~(value.id = None \/ part.arguments = <<>>)
    <3>1. Live("tool_call_arguments_delta", <<value.id>> \o part.arguments) \in Lives
      BY <1>7, <1>8, <2>2 DEF Live, Lives
    <3> DEFINE t == Tell(announced, "tool_call_arguments_delta", <<value.id>> \o part.arguments)
    <3>2. IsAccumulator(t, answer) /\ \A x \in AccumulatorFields \ {"live"} : t[x] = announced[x]
      BY <1>9, <3>1, TellTypes
    <3>3. told = t
      BY <2>2
    <3> HIDE DEF t, told
    <3> QED BY <1>9, <3>2, <3>3 DEF AccumulatorFields
  <2> QED BY <2>1, <2>2
<1> HIDE DEF told
<1>11. /\ calls \in [D \cup {k} -> WireCalls]
       /\ \A j \in D \cup {k} : calls[j].id \in {None, answer.calls[j].id}
  <2>1. told.calls \in [D -> WireCalls] /\ told.calls = acc.calls
    BY <1>2, <1>10
  <2>2. /\ calls \in [D \cup {k} -> WireCalls] /\ calls[k] = value
        /\ \A j \in D : j # k => calls[j] = told.calls[j]
    BY <1>7, <2>1 DEF With
  <2> HIDE DEF calls
  <2> QED BY <1>2, <1>6, <1>7, <2>1, <2>2
<1>12. AddCall(acc, part) = new
  BY DEF AddCall, old, id, arguments, value, announced, told, k
<1>13. DOMAIN told = AccumulatorFields
  BY <1>10 DEF IsAccumulator, EmptyAccumulator, AccumulatorFields
<1> HIDE DEF calls
<1>14. DOMAIN new = DOMAIN told /\ new.calls = calls
       /\ new.content = told.content /\ new.reasoning = told.reasoning /\ new.details = told.details
       /\ new.live = told.live /\ new.finish = told.finish /\ new.chunks = told.chunks
  BY <1>13 DEF AccumulatorFields
<1> HIDE DEF new
<1>15. D \cup {k} \in SUBSET DOMAIN answer.calls
  BY <1>1 DEF k
<1>16. IsAccumulator(new, answer)
  BY <1>10, <1>11, <1>14, <1>15, Zenon DEF IsAccumulator
<1> QED BY <1>12, <1>16

\* Text is added.
LEMMA UpdateTypes ==
  ASSUME NEW answer, NEW acc, IsAccumulator(acc, answer), NEW t \in Texts,
         NEW u \in Maybe(Texts), NEW f \in Maybe(Finishes)
  PROVE  /\ IsAccumulator([acc EXCEPT !.content = @ \o t, !.chunks = @ + 1], answer)
         /\ IsAccumulator([acc EXCEPT !.reasoning = Grown(@, u)], answer)
         /\ IsAccumulator([acc EXCEPT !.finish = f], answer)
<1>0. DOMAIN acc = AccumulatorFields
  BY DEF IsAccumulator, EmptyAccumulator, AccumulatorFields
<1>1. /\ acc.content \o t \in Texts /\ Grown(acc.reasoning, u) \in Maybe(Texts) /\ acc.chunks + 1 \in Nat
  <2>1. acc.content \in Texts /\ acc.reasoning \in Maybe(Texts) /\ acc.chunks \in Nat
    BY DEF IsAccumulator
  <2>2. \A v, w \in Texts : v \o w \in Texts
    BY DEF Texts
  <2> QED BY <2>1, <2>2, GrownTypes
<1> DEFINE c == acc.content \o t
           r == Grown(acc.reasoning, u)
           n == acc.chunks + 1
           a1 == [acc EXCEPT !.content = c, !.chunks = n]
           a2 == [acc EXCEPT !.reasoning = r]
           a3 == [acc EXCEPT !.finish = f]
<1> HIDE DEF c, r, n
<1>2. /\ DOMAIN a1 = DOMAIN acc /\ a1.content = c /\ a1.chunks = n
      /\ a1.reasoning = acc.reasoning /\ a1.calls = acc.calls /\ a1.details = acc.details
      /\ a1.finish = acc.finish /\ a1.live = acc.live
  BY <1>0 DEF AccumulatorFields
<1>3. /\ DOMAIN a2 = DOMAIN acc /\ a2.reasoning = r
      /\ a2.content = acc.content /\ a2.chunks = acc.chunks /\ a2.calls = acc.calls
      /\ a2.details = acc.details /\ a2.finish = acc.finish /\ a2.live = acc.live
  BY <1>0 DEF AccumulatorFields
<1>4. /\ DOMAIN a3 = DOMAIN acc /\ a3.finish = f
      /\ a3.content = acc.content /\ a3.chunks = acc.chunks /\ a3.calls = acc.calls
      /\ a3.details = acc.details /\ a3.reasoning = acc.reasoning /\ a3.live = acc.live
  BY <1>0 DEF AccumulatorFields
<1> HIDE DEF a1, a2, a3
<1>5. c \in Texts /\ r \in Maybe(Texts) /\ n \in Nat
  BY <1>1 DEF c, r, n
<1>6. IsAccumulator(a1, answer)
  BY <1>2, <1>5, Zenon DEF IsAccumulator
<1>7. IsAccumulator(a2, answer)
  BY <1>3, <1>5, Zenon DEF IsAccumulator
<1>8. IsAccumulator(a3, answer)
  BY <1>4, Zenon DEF IsAccumulator
<1> QED BY <1>6, <1>7, <1>8, Zenon DEF a1, a2, a3, c, r, n

\* The details of a delta, and the calls, are added.
LEMMA FoldedTypes ==
  ASSUME NEW answer \in ChatAnswers, NEW acc, IsAccumulator(acc, answer)
  PROVE  /\ \A s \in Seq(DetailParts(answer)) : IsAccumulator(FoldLeft(AddDetail, acc, s), answer)
         /\ \A s \in Seq(CallParts(answer)) : IsAccumulator(FoldLeft(AddCall, acc, s), answer)
<1>1. ASSUME NEW s \in Seq(DetailParts(answer))
      PROVE  IsAccumulator(FoldLeft(AddDetail, acc, s), answer)
  <2> DEFINE n == Len(s)
  <2>1. PICK h : /\ h[0] = acc /\ h[n] = AddDetails(acc, s)
                 /\ \A k \in 1 .. n : h[k] = AddDetail(h[k - 1], s[k])
    BY DetailsFolds
  <2>2. n \in Nat /\ \A k \in 1 .. n : s[k] \in DetailParts(answer)
    OBVIOUS
  <2> HIDE DEF n
  <2> DEFINE P == {k \in Nat : k <= n => IsAccumulator(h[k], answer)}
  <2>3. 0 \in P
    BY <2>1
  <2>4. ASSUME NEW k \in Nat, k \in P PROVE k + 1 \in P
    <3> SUFFICES ASSUME k + 1 <= n PROVE IsAccumulator(h[k + 1], answer)
      OBVIOUS
    <3>1. k + 1 \in 1 .. n /\ (k + 1) - 1 = k /\ IsAccumulator(h[k], answer)
      BY <2>2, <2>4
    <3>2. h[k + 1] = AddDetail(h[(k + 1) - 1], s[k + 1])
      BY <2>1, <3>1, Zenon
    <3>3. h[k + 1] = AddDetail(h[k], s[k + 1])
      BY <3>1, <3>2, Zenon
    <3>4. s[k + 1] \in DetailParts(answer)
      BY <2>2, <3>1
    <3> QED BY <3>1, <3>3, <3>4, AddDetailTypes
  <2>5. Nat \subseteq P
    <3> HIDE DEF P
    <3> QED BY <2>3, <2>4, NatInduct
  <2>6. IsAccumulator(AddDetails(acc, s), answer)
    BY <2>1, <2>2, <2>5
  <2> QED BY <2>6 DEF AddDetails
<1>2. ASSUME NEW s \in Seq(CallParts(answer))
      PROVE  IsAccumulator(FoldLeft(AddCall, acc, s), answer)
  <2> DEFINE n == Len(s)
  <2>1. PICK h : /\ h[0] = acc /\ h[n] = AddCalls(acc, s)
                 /\ \A k \in 1 .. n : h[k] = AddCall(h[k - 1], s[k])
    BY CallsFolds
  <2>2. n \in Nat /\ \A k \in 1 .. n : s[k] \in CallParts(answer)
    OBVIOUS
  <2> HIDE DEF n
  <2> DEFINE P == {k \in Nat : k <= n => IsAccumulator(h[k], answer)}
  <2>3. 0 \in P
    BY <2>1
  <2>4. ASSUME NEW k \in Nat, k \in P PROVE k + 1 \in P
    <3> SUFFICES ASSUME k + 1 <= n PROVE IsAccumulator(h[k + 1], answer)
      OBVIOUS
    <3>1. k + 1 \in 1 .. n /\ (k + 1) - 1 = k /\ IsAccumulator(h[k], answer)
      BY <2>2, <2>4
    <3>2. h[k + 1] = AddCall(h[(k + 1) - 1], s[k + 1])
      BY <2>1, <3>1, Zenon
    <3>3. h[k + 1] = AddCall(h[k], s[k + 1])
      BY <3>1, <3>2, Zenon
    <3>4. s[k + 1] \in CallParts(answer)
      BY <2>2, <3>1
    <3> QED BY <3>1, <3>3, <3>4, AddCallTypes
  <2>5. Nat \subseteq P
    <3> HIDE DEF P
    <3> QED BY <2>3, <2>4, NatInduct
  <2>6. IsAccumulator(AddCalls(acc, s), answer)
    BY <2>1, <2>2, <2>5
  <2> QED BY <2>6 DEF AddCalls
<1> QED BY <1>1, <1>2

\* A chunk is pushed.
LEMMA PushTypes ==
  ASSUME NEW answer \in ChatAnswers, NEW acc, IsAccumulator(acc, answer),
         NEW chunk \in ChunksOf(answer)
  PROVE  IsAccumulator(Push(acc, chunk), answer)
<1> DEFINE delta == chunk.delta
           texted == [acc EXCEPT !.content = @ \o delta.content, !.chunks = @ + 1]
           said == Tell(texted, "text_delta", delta.content)
           reasoned == [said EXCEPT !.reasoning = Grown(@, delta.reasoning)]
           thought == Tell(reasoned, "reasoning_delta", TextOf(delta.reasoning))
           detailed == FoldLeft(AddDetail, thought, delta.details)
           text == Each(delta.details, LAMBDA p : TextOf(p.text))
           mused == IF delta.reasoning # None THEN detailed
                    ELSE Tell(detailed, "reasoning_delta", text)
           called == FoldLeft(AddCall, mused, delta.calls)
           ended == IF acc.finish = None
                    THEN Tell(called, "stream_completed", <<chunk.finish>>) ELSE called
<1>1. /\ delta.content \in Texts /\ delta.reasoning \in Maybe(Texts)
      /\ delta.calls \in Seq(CallParts(answer)) /\ delta.details \in Seq(DetailParts(answer))
      /\ chunk.finish \in Maybe(Finishes)
  BY DEF ChunksOf, Deltas
<1>2. \A t \in Texts : Live("text_delta", t) \in Lives /\ Live("reasoning_delta", t) \in Lives
  BY DEF Live, Lives
<1>3. text \in Texts
  <2> DEFINE n == Len(delta.details)
             f == [i \in 1 .. n |-> delta.details[i].text]
  <2>1. \A p \in DetailParts(answer) : p.text \in Maybe(Texts)
    BY DEF DetailParts
  <2> HIDE DEF delta
  <2>2. n \in Nat /\ DOMAIN delta.details = 1 .. n /\ \A i \in 1 .. n : f[i] \in Maybe(Texts)
    BY <1>1, <2>1
  <2>3. [i \in 1 .. n |-> TextOf(f[i])] = [i \in 1 .. n |-> TextOf(delta.details[i].text)]
    OBVIOUS
  <2>4. text = FlattenSeq([i \in 1 .. n |-> TextOf(delta.details[i].text)])
    BY <2>2 DEF Each
  <2> HIDE DEF f, n
  <2> QED BY <2>2, <2>3, <2>4, TextsTyped
<1> HIDE DEF delta, text
<1>a. TextOf(delta.reasoning) \in Texts
  BY <1>1, TextTyped
<1>4. IsAccumulator(texted, answer)
  BY <1>1, UpdateTypes
<1> HIDE DEF texted
<1>5. IsAccumulator(said, answer)
  BY <1>1, <1>2, <1>4, TellTypes
<1> HIDE DEF said
<1>6. IsAccumulator(reasoned, answer)
  BY <1>1, <1>5, UpdateTypes
<1> HIDE DEF reasoned
<1>7. IsAccumulator(thought, answer)
  BY <1>a, <1>2, <1>6, TellTypes
<1> HIDE DEF thought
<1>8. IsAccumulator(detailed, answer)
  BY <1>1, <1>7, FoldedTypes
<1> HIDE DEF detailed
<1>9. IsAccumulator(mused, answer)
  <2>1. IsAccumulator(Tell(detailed, "reasoning_delta", text), answer)
    BY <1>2, <1>3, <1>8, TellTypes
  <2> QED BY <1>8, <2>1
<1> HIDE DEF mused
<1>10. IsAccumulator(called, answer)
  BY <1>1, <1>9, FoldedTypes
<1> HIDE DEF called
<1>11. Push(acc, chunk) = IF chunk.finish = None THEN called
                          ELSE [ended EXCEPT !.finish = chunk.finish]
  BY Zenon DEF Push, delta, texted, said, reasoned, thought, detailed, text, mused, called
<1>12. chunk.finish # None => IsAccumulator(ended, answer)
  <2> SUFFICES ASSUME chunk.finish # None PROVE IsAccumulator(ended, answer)
    OBVIOUS
  <2>1. <<chunk.finish>> \in Seq(Finishes)
    BY <1>1 DEF Maybe
  <2>2. Live("stream_completed", <<chunk.finish>>) \in Lives
    BY <2>1 DEF Live, Lives
  <2>3. IsAccumulator(Tell(called, "stream_completed", <<chunk.finish>>), answer)
    BY <1>10, <2>2, TellTypes
  <2> QED BY <1>10, <2>3
<1> HIDE DEF ended
<1>13. chunk.finish # None => IsAccumulator([ended EXCEPT !.finish = chunk.finish], answer)
  BY <1>1, <1>12, UpdateTypes
<1> QED BY <1>10, <1>11, <1>13

-----------------------------------------------------------------------------
(* Types of the reader.                                                     *)

\* An event leaves the reader a reader of the same answer.
LEMMA ConsumeTypes ==
  ASSUME NEW answer \in ChatAnswers, NEW chunks \in Seq(ChunksOf(answer)),
         NEW reader, IsReader(reader, answer, Len(chunks)),
         NEW event \in Seq(BytesOf(Len(chunks)))
  PROVE  IsReader(Consume(reader, event, chunks), answer, Len(chunks))
<1> DEFINE data == DataOf(event)
<1>0. DOMAIN reader = {"buffer", "status", "acc"}
  BY DEF IsReader, NewReader
<1>1. CASE reader.status # "reading" \/ data = <<>>
  <2>1. Len(<<>>) # 2
    OBVIOUS
  <2>2. data = <<>> => ~IsDone(data) /\ ~IsJson(data)
    BY <2>1, Zenon DEF IsDone, IsJson
  <2>3. Consume(reader, event, chunks) = reader
    <3>1. reader.status # "reading" \/ (~IsDone(data) /\ ~IsJson(data))
      BY <1>1, <2>2
    <3> QED BY <1>1, <3>1 DEF Consume
  <2> QED BY <2>3
<1>2. CASE reader.status = "reading" /\ data # <<>> /\ IsDone(data)
  <2> DEFINE new == [reader EXCEPT !.status = "ended"]
  <2>1. Consume(reader, event, chunks) = new
    BY <1>2 DEF Consume
  <2>2. DOMAIN new = DOMAIN reader /\ new.status = "ended" /\ new.buffer = reader.buffer /\ new.acc = reader.acc
    BY <1>0
  <2> HIDE DEF new
  <2>3. "ended" \in {"reading", "ended", "failed"}
    OBVIOUS
  <2>4. IsReader(new, answer, Len(chunks))
    BY <2>2, <2>3, Zenon DEF IsReader
  <2> QED BY <2>1, <2>4
<1>3. CASE reader.status = "reading" /\ data # <<>> /\ IsJson(data) /\ ~IsDone(data)
  <2> DEFINE c == data[1].chunk
             acc == Push(reader.acc, chunks[c])
             new == [reader EXCEPT !.acc = acc]
  <2>1. Consume(reader, event, chunks) = new
    BY <1>3 DEF Consume
  <2>2. Len(chunks) \in Nat /\ c \in 1 .. Len(chunks)
    BY <1>3, DataTypes
  <2> HIDE DEF c
  <2>3. chunks[c] \in ChunksOf(answer)
    BY <2>2
  <2>4. IsAccumulator(acc, answer)
    BY <2>3, PushTypes DEF IsReader
  <2> HIDE DEF acc
  <2>5. DOMAIN new = DOMAIN reader /\ new.acc = acc /\ new.buffer = reader.buffer /\ new.status = reader.status
    BY <1>0
  <2> HIDE DEF new
  <2>6. IsReader(new, answer, Len(chunks))
    BY <2>4, <2>5, Zenon DEF IsReader
  <2> QED BY <2>1, <2>6
<1>4. CASE reader.status = "reading" /\ data # <<>> /\ ~IsJson(data) /\ ~IsDone(data)
  <2> DEFINE new == [reader EXCEPT !.status = "failed"]
  <2>1. Consume(reader, event, chunks) = new
    BY <1>4 DEF Consume
  <2>2. DOMAIN new = DOMAIN reader /\ new.status = "failed" /\ new.buffer = reader.buffer /\ new.acc = reader.acc
    BY <1>0
  <2> HIDE DEF new
  <2>3. "failed" \in {"reading", "ended", "failed"}
    OBVIOUS
  <2>4. IsReader(new, answer, Len(chunks))
    BY <2>2, <2>3, Zenon DEF IsReader
  <2> QED BY <2>1, <2>4
<1> HIDE DEF data
<1> QED BY <1>1, <1>2, <1>3, <1>4

\* So does any sequence of events.
LEMMA ConsumeAllTypes ==
  ASSUME NEW answer \in ChatAnswers, NEW chunks \in Seq(ChunksOf(answer)),
         NEW reader, IsReader(reader, answer, Len(chunks)),
         NEW events \in Seq(Seq(BytesOf(Len(chunks))))
  PROVE  IsReader(ConsumeAll(reader, events, chunks), answer, Len(chunks))
<1> DEFINE n == Len(events)
           W == Seq(BytesOf(Len(chunks)))
<1>0. PICK h : ConsumedBy(h, reader, events, chunks)
  <2> HIDE DEF W
  <2>1. events \in Seq(W)
    BY DEF W
  <2> QED BY <2>1, ConsumedFolds
<1>1. /\ h[0] = reader /\ h[n] = ConsumeAll(reader, events, chunks)
      /\ \A k \in 1 .. n : h[k] = Consume(h[k - 1], events[k], chunks)
  BY <1>0, Zenon DEF ConsumedBy
<1>2. n \in Nat /\ \A k \in 1 .. n : events[k] \in W
  <2> HIDE DEF W
  <2>1. events \in Seq(W)
    BY DEF W
  <2> QED BY <2>1
<1> HIDE DEF n
<1> DEFINE P == {k \in Nat : k <= n => IsReader(h[k], answer, Len(chunks))}
<1>3. 0 \in P
  BY <1>1
<1>4. ASSUME NEW k \in Nat, k \in P PROVE k + 1 \in P
  <2> SUFFICES ASSUME k + 1 <= n PROVE IsReader(h[k + 1], answer, Len(chunks))
    OBVIOUS
  <2>1. k + 1 \in 1 .. n /\ (k + 1) - 1 = k /\ IsReader(h[k], answer, Len(chunks))
    BY <1>2, <1>4
  <2>2. h[k + 1] = Consume(h[(k + 1) - 1], events[k + 1], chunks)
    BY <1>1, <2>1, Zenon
  <2>3. h[k + 1] = Consume(h[k], events[k + 1], chunks)
    BY <2>1, <2>2, Zenon
  <2>4. events[k + 1] \in W
    BY <1>2, <2>1
  <2> QED BY <2>1, <2>3, <2>4, ConsumeTypes, Zenon
<1>5. Nat \subseteq P
  <2> HIDE DEF P
  <2> QED BY <1>3, <1>4, NatInduct
<1> QED BY <1>1, <1>2, <1>5

\* A reader takes a piece of the body, or its end.
LEMMA ReadTypes ==
  ASSUME NEW answer \in ChatAnswers, NEW chunks \in Seq(ChunksOf(answer)),
         NEW reader, IsReader(reader, answer, Len(chunks)),
         NEW piece \in Seq(BytesOf(Len(chunks)))
  PROVE  /\ IsReader(Read(reader, piece, chunks), answer, Len(chunks))
         /\ IsReader(ReadEnd(reader, chunks), answer, Len(chunks))
<1> DEFINE B == BytesOf(Len(chunks))
           split == SplitEvents(Buffered(reader.buffer, piece))
           rest == split.rest
           left == [reader EXCEPT !.buffer = rest]
           last == Consume(reader, reader.buffer, chunks)
           new == [last EXCEPT !.status = "ended"]
<1>0. Len(chunks) \in Nat /\ reader.buffer \in Seq(B)
  BY DEF IsReader
<1>1. split.events \in Seq(Seq(B)) /\ rest \in Seq(B)
  <2>1. Buffered(reader.buffer, piece) \in Seq(B)
    BY <1>0, BufferedTypes
  <2> HIDE DEF B
  <2> QED BY <2>1, SplitTypes
<1> HIDE DEF split, rest
<1>2. IsReader(left, answer, Len(chunks))
  <2>1. DOMAIN reader = {"buffer", "status", "acc"}
    BY DEF IsReader, NewReader
  <2>2. DOMAIN left = DOMAIN reader /\ left.buffer = rest /\ left.status = reader.status /\ left.acc = reader.acc
    BY <2>1
  <2> HIDE DEF left
  <2> QED BY <1>1, <2>2, Zenon DEF IsReader
<1> HIDE DEF left
<1>3. Read(reader, piece, chunks) = ConsumeAll(left, split.events, chunks)
  BY Zenon DEF Read, ConsumeAll, split, left, rest
<1>4. IsReader(last, answer, Len(chunks))
  BY <1>0, ConsumeTypes
<1> HIDE DEF last
<1>5. IsReader(new, answer, Len(chunks))
  <2>1. DOMAIN last = {"buffer", "status", "acc"}
    BY <1>4 DEF IsReader, NewReader
  <2>2. DOMAIN new = DOMAIN last /\ new.status = "ended" /\ new.buffer = last.buffer /\ new.acc = last.acc
    BY <2>1
  <2>3. "ended" \in {"reading", "ended", "failed"}
    OBVIOUS
  <2> HIDE DEF new
  <2> QED BY <1>4, <2>2, <2>3, Zenon DEF IsReader
<1>6. ReadEnd(reader, chunks) = IF last.status = "reading" THEN new ELSE last
  BY Zenon DEF ReadEnd, last
<1> HIDE DEF new
<1> QED BY <1>1, <1>2, <1>3, <1>4, <1>5, <1>6, ConsumeAllTypes

\* A map from indices, as a sequence.
LEMMA ValuesTypes ==
  ASSUME NEW V, NEW n \in Nat, NEW D \in SUBSET (1 .. n), NEW map \in [D -> V]
  PROVE  Values(map) \in Seq(V)
<1> DEFINE indices == InOrder(D)
<1>1. indices \in Seq(D)
  <2>1. D \in SUBSET (0 .. n)
    OBVIOUS
  <2> QED BY <2>1, InOrderTyped
<1>2. Values(map) = [k \in DOMAIN indices |-> map[indices[k]]]
  BY DEF Values
<1> HIDE DEF indices
<1>3. Len(indices) \in Nat /\ DOMAIN indices = 1 .. Len(indices)
      /\ \A k \in 1 .. Len(indices) : map[indices[k]] \in V
  BY <1>1
<1> QED BY <1>2, <1>3

\* The accumulated answer.
LEMMA ResponseTypes ==
  ASSUME NEW answer \in ChatAnswers, NEW acc, IsAccumulator(acc, answer)
  PROVE  Response(acc) \in ChatAnswers
<1>1. PICK D \in SUBSET DOMAIN answer.calls : acc.calls \in [D -> WireCalls]
  BY DEF IsAccumulator
<1>2. PICK E \in SUBSET DOMAIN answer.details : acc.details \in [E -> Details]
  BY DEF IsAccumulator
<1>3. acc.content \in Texts /\ acc.reasoning \in Maybe(Texts)
  BY DEF IsAccumulator
<1>4. /\ Len(answer.calls) \in Nat /\ DOMAIN answer.calls = 1 .. Len(answer.calls)
      /\ Len(answer.details) \in Nat /\ DOMAIN answer.details = 1 .. Len(answer.details)
  <2>1. answer.calls \in Seq(WireCalls) /\ answer.details \in Seq(Details)
    BY DEF ChatAnswers
  <2> QED BY <2>1
<1>5. Values(acc.calls) \in Seq(WireCalls)
  BY <1>1, <1>4, ValuesTypes, Zenon
<1>6. Values(acc.details) \in Seq(Details)
  BY <1>2, <1>4, ValuesTypes, Zenon
<1>7. <<>> \in Seq(ChatParts) /\ None \in Maybe(Texts)
  BY DEF Maybe
<1>8. (IF acc.reasoning = <<>> THEN None ELSE acc.reasoning) \in Maybe(Texts)
  BY <1>3, <1>7
<1> QED BY <1>3, <1>5, <1>6, <1>7, <1>8 DEF Response, ChatAnswer, ChatAnswers

-----------------------------------------------------------------------------
(* Type correctness.                                                        *)

\* The events that sessions record.
LEMMA EventTypes ==
  /\ \A m \in Messages : Appended(m) \in EventsOf(Messages)
  /\ \A t \in {"session.started", "child.started"} : Trace(t) \in EventsOf(Messages)
  /\ \A through \in Nat, m \in Messages, scope \in {"local", "including_inherited"} :
       Compaction(through, m, scope) \in EventsOf(Messages)
BY DEF EventsOf, Appended, Trace, Compaction

\* Recording an event keeps the types and the forks.
LEMMA RecordTypes ==
  ASSUME TypeOK, NEW s \in Sessions, s = 1 \/ Begun(s), NEW e \in EventsOf(Messages),
         Record(s, e), UNCHANGED fork
  PROVE  /\ journal' \in [Sessions -> Seq(EventsOf(Messages))]
         /\ fork' \in [Sessions -> Nat]
         /\ \A t \in Sessions \ {1} : journal'[t] # <<>> => fork'[t] \in DOMAIN journal'[t - 1]
<1> DEFINE Event == EventsOf(Messages)
<1> HIDE DEF Event
<1>1. journal \in [Sessions -> Seq(Event)] /\ e \in Event
  BY DEF TypeOK, Event
<1>2. journal' = [journal EXCEPT ![s] = Append(@, e)]
  BY DEF Record
<1>3. Append(journal[s], e) \in Seq(Event) /\ DOMAIN journal[s] \subseteq DOMAIN Append(journal[s], e)
  BY <1>1
<1>4. journal' \in [Sessions -> Seq(Event)]
  BY <1>1, <1>2, <1>3
<1>5. \A t \in Sessions : DOMAIN journal[t] \subseteq DOMAIN journal'[t]
                          /\ (journal'[t] # <<>> /\ t # 1 => journal[t] # <<>>)
  BY <1>1, <1>2, <1>3 DEF Begun
<1>6. ASSUME NEW t \in Sessions \ {1}, journal'[t] # <<>>
      PROVE  fork'[t] \in DOMAIN journal'[t - 1]
  <2>1. t - 1 \in Sessions
    BY ContextAssumption DEF Sessions
  <2>2. fork[t] \in DOMAIN journal[t - 1]
    BY <1>5, <1>6 DEF TypeOK
  <2> QED BY <1>5, <2>1, <2>2
<1> QED BY <1>4, <1>6 DEF TypeOK, Event

\* A session is forked from the one before it.
LEMMA ForkTypes ==
  ASSUME TypeOK, NEW s \in Sessions, Fork(s)
  PROVE  /\ journal' \in [Sessions -> Seq(EventsOf(Messages))]
         /\ fork' \in [Sessions -> Nat]
         /\ \A t \in Sessions \ {1} : journal'[t] # <<>> => fork'[t] \in DOMAIN journal'[t - 1]
<1> DEFINE Event == EventsOf(Messages)
<1>0. Trace("session.started") \in Event /\ Trace("child.started") \in Event
  BY EventTypes
<1> HIDE DEF Event
<1>1. /\ journal \in [Sessions -> Seq(Event)] /\ fork \in [Sessions -> Nat]
      /\ \A t \in Sessions \ {1} : journal[t] # <<>> => fork[t] \in DOMAIN journal[t - 1]
  BY DEF TypeOK, Event
<1>2. /\ s > 1 /\ journal[s] = <<>> /\ journal[s - 1] # <<>>
      /\ fork' = [fork EXCEPT ![s] = Len(journal[s - 1])]
      /\ journal' = [journal EXCEPT ![s] = <<Trace("session.started")>>,
                                    ![s - 1] = Append(@, Trace("child.started"))]
  BY DEF Fork, Begun
<1>3. Depth \in Nat /\ s \in 1 .. Depth /\ s - 1 \in Sessions /\ s - 1 # s
  BY <1>2, ContextAssumption DEF Sessions
<1> DEFINE u == journal[s - 1]
           v == Append(u, Trace("child.started"))
<1>4. u \in Seq(Event) /\ u # <<>>
  BY <1>1, <1>2, <1>3
<1> HIDE DEF u
<1>5. /\ v \in Seq(Event) /\ Len(u) \in Nat /\ Len(u) \in DOMAIN v /\ DOMAIN u \subseteq DOMAIN v
      /\ <<Trace("session.started")>> \in Seq(Event)
  BY <1>0, <1>4
<1>6. journal' = [t \in Sessions |-> IF t = s - 1 THEN v
                                    ELSE IF t = s THEN <<Trace("session.started")>> ELSE journal[t]]
  BY <1>1, <1>2, <1>3 DEF u
<1> HIDE DEF v
<1>7. journal' \in [Sessions -> Seq(Event)]
  BY <1>1, <1>5, <1>6
<1>8. fork' \in [Sessions -> Nat] /\ fork'[s] = Len(u) /\ \A t \in Sessions \ {s} : fork'[t] = fork[t]
  BY <1>1, <1>2, <1>5 DEF u
<1>9. ASSUME NEW t \in Sessions \ {1}, journal'[t] # <<>>
      PROVE  fork'[t] \in DOMAIN journal'[t - 1]
  <2>1. t - 1 \in Sessions /\ t \in Nat /\ s \in Nat
    BY <1>3 DEF Sessions
  <2>2. CASE t = s
    <3>1. journal'[t - 1] = v
      BY <1>6, <2>1, <2>2
    <3> QED BY <1>5, <1>8, <2>2, <3>1
  <2>3. CASE t # s
    <3>1. journal[t] # <<>>
      <4>1. CASE t = s - 1
        BY <1>2, <4>1
      <4>2. CASE t # s - 1
        BY <1>6, <1>9, <2>3, <4>2
      <4> QED BY <4>1, <4>2
    <3>2. fork'[t] \in DOMAIN journal[t - 1]
      BY <1>1, <1>8, <2>3, <3>1
    <3>3. t - 1 # s
      <4>1. t - 1 = s => journal[t - 1] = <<>>
        BY <1>2
      <4> QED BY <3>2, <4>1
    <3>4. CASE t - 1 = s - 1
      BY <1>5, <1>6, <2>1, <3>2, <3>4 DEF u
    <3>5. CASE t - 1 # s - 1
      BY <1>6, <2>1, <3>2, <3>3, <3>5
    <3> QED BY <3>4, <3>5
  <2> QED BY <2>2, <2>3
<1> QED BY <1>7, <1>8, <1>9 DEF Event

\* The messages of a journal, and the blocks of messages.
Blocks == AnswerBlocks \cup ResultBlocks

\* The messages of events are messages.
LEMMA VisibleTypes ==
  ASSUME NEW M, NEW events \in Seq(EventsOf(M))
  PROVE  Visible(events) \in Seq(M)
<1> DEFINE E == EventsOf(M)
           n == Len(events)
           f == [i \in DOMAIN events |->
                  IF events[i].message = None THEN <<>> ELSE <<events[i].message>>]
<1>1. \A e \in E : e.message = None \/ e.message \in M
  BY DEF EventsOf
<1> HIDE DEF E
<1>2. events \in Seq(E)
  BY DEF E
<1>3. n \in Nat /\ f \in [1 .. n -> Seq(M)]
  BY <1>1, <1>2
<1>4. Visible(events) = FlattenSeq(f)
  BY DEF Visible, Each
<1> HIDE DEF f, n
<1> QED BY <1>3, <1>4, FlattenTyped

\* The content of a message is blocks.
LEMMA ContentTypes ==
  ASSUME NEW m \in Messages
  PROVE  m.content \in Seq(Blocks)
<1>1. m.content \in Seq(PlainBlocks) \/ m.content \in Seq(ResultBlocks) \/ m.content \in Seq(AnswerBlocks)
  BY DEF Messages, PlainMessages, ResultMessages, AnswerMessages
<1>2. PlainBlocks \subseteq Blocks /\ ResultBlocks \subseteq Blocks /\ AnswerBlocks \subseteq Blocks
  BY DEF Blocks, AnswerBlocks
<1> QED BY <1>1, <1>2

\* The blocks of a type in messages are blocks of that type.
LEMMA BlocksInTypes ==
  ASSUME NEW messages \in Seq(Messages), NEW type
  PROVE  BlocksIn(messages, type) \in Seq({b \in Blocks : b.type = type})
<1> DEFINE B == {b \in Blocks : b.type = type}
           n == Len(messages)
           Of(m) == [i \in DOMAIN m.content |->
                      IF m.content[i].type = type THEN <<m.content[i]>> ELSE <<>>]
           g == [k \in DOMAIN messages |-> FlattenSeq(Of(messages[k]))]
<1>1. ASSUME NEW m \in Messages PROVE FlattenSeq(Of(m)) \in Seq(B)
  <2> DEFINE c == m.content
  <2>1. c \in Seq(Blocks)
    BY ContentTypes
  <2> HIDE DEF c
  <2>2. Len(c) \in Nat /\ [i \in DOMAIN c |-> IF c[i].type = type THEN <<c[i]>> ELSE <<>>]
                           \in [1 .. Len(c) -> Seq(B)]
    <3>1. Len(c) \in Nat /\ DOMAIN c = 1 .. Len(c) /\ \A i \in 1 .. Len(c) : c[i] \in Blocks
      BY <2>1
    <3>2. \A i \in 1 .. Len(c) : c[i].type = type => c[i] \in B
      BY <3>1
    <3> HIDE DEF B
    <3>3. \A i \in 1 .. Len(c) : (IF c[i].type = type THEN <<c[i]>> ELSE <<>>) \in Seq(B)
      BY <3>2
    <3> QED BY <3>1, <3>3
  <2> HIDE DEF B
  <2>3. FlattenSeq([i \in DOMAIN c |-> IF c[i].type = type THEN <<c[i]>> ELSE <<>>]) \in Seq(B)
    BY <2>2, FlattenTyped
  <2> QED BY <2>3 DEF c
<1> HIDE DEF B, Of
<1>2. n \in Nat /\ g \in [1 .. n -> Seq(B)]
  BY <1>1
<1>3. BlocksIn(messages, type) = FlattenSeq(g)
  BY DEF BlocksIn, Filter, Each, Of
<1> HIDE DEF g, n
<1> QED BY <1>2, <1>3, FlattenTyped DEF B

\* The ids of a session's calls.
LEMMA CallTypesOf ==
  ASSUME TypeOK, NEW s \in Sessions, NEW id \in Calls(s)
  PROVE  id \in Maybe(STRING)
<1> DEFINE blocks == BlocksIn(Visible(journal[s]), "tool_call")
<1>1. blocks \in Seq({b \in Blocks : b.type = "tool_call"})
  <2>1. journal[s] \in Seq(EventsOf(Messages))
    BY DEF TypeOK
  <2>2. Visible(journal[s]) \in Seq(Messages)
    BY <2>1, VisibleTypes
  <2> QED BY <2>2, BlocksInTypes
<1>2. \E i \in DOMAIN blocks : id = blocks[i].id
  BY DEF Calls, IdsOf, Said
<1> HIDE DEF blocks
<1>3. PICK b \in Blocks : b.type = "tool_call" /\ id = b.id
  BY <1>1, <1>2
<1> QED BY <1>3 DEF Blocks, AnswerBlocks, PlainBlocks, ResultBlocks

\* Answers become messages.
LEMMA AnswerTypes ==
  ASSUME NEW a \in Whole
  PROVE  Normalized(a.provider, a.wire, a.options) \in Messages
<1>1. a.provider \in Providers /\ a.wire \in Wires(a.provider) /\ a.options \in NormalizeOptions
  BY ContextAssumption
<1>2. Normalized(a.provider, a.wire, a.options) \in AnswerMessages(a.provider)
  BY <1>1, NormalizedTypes
<1> QED BY <1>1, <1>2 DEF Messages, Providers

\* A stream of the right type.
IsStream(s) ==
  /\ DOMAIN s = {"answer", "chunks", "transit", "reader", "cut"}
  /\ s.answer \in Streamed
  /\ s.chunks \in Seq(ChunksOf(s.answer.wire))
  /\ s.transit \in Seq(BytesOf(Len(s.chunks)))
  /\ IsReader(s.reader, s.answer.wire, Len(s.chunks))
  /\ s.cut \in BOOLEAN

\* What is streamed is an answer of openai-chat.
LEMMA StreamedTypes ==
  ASSUME NEW a \in Streamed
  PROVE  /\ a.provider = "openai-chat" /\ a.wire \in ChatAnswers /\ a.options \in NormalizeOptions
         /\ a.deltas \in Seq(Deltas(a.wire))
<1>1. a.provider = "openai-chat" /\ a.wire \in ChatAnswers /\ a.options \in NormalizeOptions
  BY ContextAssumption DEF Wires
<1>2. a.deltas \in Seq(Deltas(a.wire))
  BY StreamedAssumption, Zenon
<1> QED BY <1>1, <1>2

\* A stream is opened with nothing read.
LEMMA OpenTypes ==
  ASSUME NEW answer \in Streamed, NEW crlf \in BOOLEAN,
         NEW cuts \in SUBSET (1 .. Len(answer.deltas) - 1),
         NEW chunks, chunks = Chunks(answer.deltas, answer.wire, cuts)
  PROVE  IsStream([answer |-> answer, chunks |-> chunks, transit |-> Bytes(Len(chunks), crlf),
                   reader |-> NewReader, cut |-> FALSE])
<1>1. answer.wire \in ChatAnswers /\ answer.deltas \in Seq(Deltas(answer.wire))
  BY StreamedTypes
<1>2. chunks \in Seq(ChunksOf(answer.wire))
  BY <1>1, ChunkTypes
<1>3. Len(chunks) \in Nat
  BY <1>2
<1>4. Bytes(Len(chunks), crlf) \in Seq(BytesOf(Len(chunks)))
  BY <1>3, BytesTypes
<1>5. IsAccumulator(EmptyAccumulator, answer.wire)
  <2>1. <<>> \in Texts /\ None \in Maybe(Texts) /\ <<>> \in Seq(Lives)
    BY DEF Texts, Maybe
  <2>2. /\ <<>> \in [{} -> WireCalls] /\ <<>> \in [{} -> Details]
    OBVIOUS
  <2>3. \E D \in SUBSET DOMAIN answer.wire.calls :
          <<>> \in [D -> WireCalls] /\ \A k \in D : <<>>[k].id \in {None, answer.wire.calls[k].id}
    BY <2>2
  <2>4. \E D \in SUBSET DOMAIN answer.wire.details : <<>> \in [D -> Details]
    BY <2>2
  <2>5. /\ EmptyAccumulator.content = <<>> /\ EmptyAccumulator.reasoning = None
        /\ EmptyAccumulator.calls = <<>> /\ EmptyAccumulator.details = <<>>
        /\ EmptyAccumulator.finish = None /\ EmptyAccumulator.chunks = 0
        /\ EmptyAccumulator.live = <<>>
    BY DEF EmptyAccumulator
  <2>6. None \in Maybe(Finishes) /\ 0 \in Nat
    BY DEF Maybe
  <2> QED BY <2>1, <2>3, <2>4, <2>5, <2>6, Zenon DEF IsAccumulator
<1>6. IsReader(NewReader, answer.wire, Len(chunks))
  <2>1. NewReader.buffer = <<>> /\ NewReader.status = "reading" /\ NewReader.acc = EmptyAccumulator
    BY DEF NewReader
  <2>2. <<>> \in Seq(BytesOf(Len(chunks))) /\ "reading" \in {"reading", "ended", "failed"}
    OBVIOUS
  <2> QED BY <1>5, <2>1, <2>2, Zenon DEF IsReader
<1> DEFINE s == [answer |-> answer, chunks |-> chunks, transit |-> Bytes(Len(chunks), crlf),
                 reader |-> NewReader, cut |-> FALSE]
<1>7. /\ DOMAIN s = {"answer", "chunks", "transit", "reader", "cut"}
      /\ s.answer = answer /\ s.chunks = chunks /\ s.transit = Bytes(Len(chunks), crlf)
      /\ s.reader = NewReader /\ s.cut = FALSE
  OBVIOUS
<1>8. FALSE \in BOOLEAN
  OBVIOUS
<1> HIDE DEF s
<1>9. IsStream(s)
  BY <1>2, <1>4, <1>6, <1>7, <1>8, Zenon DEF IsStream
<1> QED BY <1>9 DEF s

\* Bytes arrive, the connection is cut, or the body ends.
LEMMA ArrivalTypes ==
  ASSUME stream # None, IsStream(stream), Receive \/ Cut \/ EndOfBody
  PROVE  IsStream(stream')
<1> DEFINE chunks == stream.chunks
           B == BytesOf(Len(chunks))
           wire == stream.answer.wire
<1>1. /\ wire \in ChatAnswers /\ chunks \in Seq(ChunksOf(wire))
      /\ stream.transit \in Seq(B) /\ IsReader(stream.reader, wire, Len(chunks))
  BY StreamedTypes DEF IsStream
<1>2. DOMAIN stream = {"answer", "chunks", "transit", "reader", "cut"}
  BY DEF IsStream
<1>3. CASE Receive
  <2>1. PICK n \in DOMAIN stream.transit :
          stream' = [stream EXCEPT
            !.transit = SubSeq(@, n + 1, Len(@)),
            !.reader = Read(@, SubSeq(stream.transit, 1, n), stream.chunks)]
    BY <1>3 DEF Receive
  <2> DEFINE rest == SubSeq(stream.transit, n + 1, Len(stream.transit))
             piece == SubSeq(stream.transit, 1, n)
             reader == Read(stream.reader, piece, chunks)
  <2>2. rest \in Seq(B) /\ piece \in Seq(B)
    <3> DEFINE t == stream.transit
    <3>1. t \in Seq(B) /\ n \in 1 .. Len(t)
      BY <1>1, <2>1
    <3> HIDE DEF t, B
    <3>2. SubSeq(t, n + 1, Len(t)) \in Seq(B)
      BY <3>1
    <3>3. SubSeq(t, 1, n) \in Seq(B)
      BY <3>1
    <3> QED BY <3>2, <3>3 DEF t
  <2> HIDE DEF rest, piece
  <2>3. IsReader(reader, wire, Len(chunks))
    BY <1>1, <2>2, ReadTypes
  <2>4. stream' = [stream EXCEPT !.transit = rest, !.reader = reader]
    BY <2>1 DEF rest, piece
  <2> HIDE DEF reader
  <2>5. /\ DOMAIN stream' = DOMAIN stream /\ stream'.transit = rest /\ stream'.reader = reader
        /\ stream'.answer = stream.answer /\ stream'.chunks = stream.chunks /\ stream'.cut = stream.cut
    BY <1>2, <2>4
  <2> QED BY <2>2, <2>3, <2>5, Zenon DEF IsStream
<1>4. CASE Cut
  <2>1. stream' = [stream EXCEPT !.transit = <<>>, !.cut = TRUE]
    BY <1>4 DEF Cut
  <2>2. /\ DOMAIN stream' = DOMAIN stream /\ stream'.transit = <<>> /\ stream'.cut = TRUE
        /\ stream'.answer = stream.answer /\ stream'.chunks = stream.chunks
        /\ stream'.reader = stream.reader
    BY <1>2, <2>1
  <2>3. <<>> \in Seq(B) /\ TRUE \in BOOLEAN
    OBVIOUS
  <2> QED BY <2>2, <2>3, Zenon DEF IsStream
<1>5. CASE EndOfBody
  <2> DEFINE reader == ReadEnd(stream.reader, chunks)
  <2>1. stream' = [stream EXCEPT !.reader = reader]
    BY <1>5 DEF EndOfBody
  <2>2. IsReader(reader, wire, Len(chunks))
    <3>1. <<>> \in Seq(B)
      OBVIOUS
    <3> QED BY <1>1, <3>1, ReadTypes
  <2> HIDE DEF reader
  <2>3. /\ DOMAIN stream' = DOMAIN stream /\ stream'.reader = reader
        /\ stream'.answer = stream.answer /\ stream'.chunks = stream.chunks
        /\ stream'.transit = stream.transit /\ stream'.cut = stream.cut
    BY <1>2, <2>1
  <2> QED BY <2>2, <2>3, Zenon DEF IsStream
<1> QED BY <1>3, <1>4, <1>5

\* The result of a call.
LEMMA SettledTypes ==
  ASSUME TypeOK, NEW s \in Sessions, NEW id \in Calls(s), NEW content \in {Pending, Settled}
  PROVE  Message("tool", <<ToolResult(id, content)>>) \in Messages
<1> DEFINE r == ToolResult(id, content)
<1>1. id \in Maybe(STRING) /\ content \in Seq(PlainBlocks)
  BY CallTypesOf, ContextAssumption
<1>2. r \in ResultBlocks
  BY <1>1 DEF ToolResult, ResultBlocks
<1> HIDE DEF r
<1>3. <<r>> \in Seq(ResultBlocks) /\ Len(<<r>>) = 1
  BY <1>2
<1>4. Message("tool", <<r>>) \in ResultMessages
  BY <1>3 DEF Message, ResultMessages
<1> QED BY <1>4 DEF Messages, r

\* The message that a stream becomes, if it is journaled.
LEMMA CompleteTypes ==
  ASSUME TypeOK, Complete
  PROVE  \E m \in Messages : UNCHANGED fork /\ (Record(1, Appended(m)) \/ UNCHANGED journal)
<1> DEFINE acc == stream.reader.acc
           message == Normalized("openai-chat", Response(acc), stream.answer.options)
<1>1. stream # None /\ UNCHANGED fork /\ (Record(1, Appended(message)) \/ UNCHANGED journal)
  BY Zenon DEF Complete
<1>2. stream.answer.wire \in ChatAnswers /\ stream.answer.options \in NormalizeOptions
      /\ IsAccumulator(acc, stream.answer.wire)
  BY <1>1, StreamedTypes DEF TypeOK, IsReader
<1>3. Response(acc) \in Wires("openai-chat") /\ "openai-chat" \in Providers
  BY <1>2, ResponseTypes DEF Wires, Providers
<1>4. message \in AnswerMessages("openai-chat")
  BY <1>2, <1>3, NormalizedTypes
<1> HIDE DEF message
<1> QED BY <1>1, <1>4 DEF Messages

\* What sessions record has the types that messages have, whatever the answers
\* and however they arrive; a session is forked from an event that its parent
\* has.
THEOREM TypeCorrect == Spec => []TypeOK
<1>1. Init => TypeOK
  <2> SUFFICES ASSUME Init PROVE TypeOK
    OBVIOUS
  <2>1. Trace("session.started") \in EventsOf(Messages)
    BY EventTypes
  <2>2. journal \in [Sessions -> Seq(EventsOf(Messages))]
    <3> DEFINE Event == EventsOf(Messages)
    <3> HIDE DEF Event
    <3>1. Trace("session.started") \in Event
      BY <2>1 DEF Event
    <3>2. <<Trace("session.started")>> \in Seq(Event) /\ <<>> \in Seq(Event)
      BY <3>1
    <3>3. journal \in [Sessions -> Seq(Event)]
      BY <3>2 DEF Init
    <3> QED BY <3>3 DEF Event
  <2>3. fork \in [Sessions -> Nat] /\ stream = None
    BY DEF Init
  <2>4. \A s \in Sessions \ {1} : journal[s] = <<>>
    BY DEF Init
  <2> QED BY <2>2, <2>3, <2>4 DEF TypeOK
<1>2. TypeOK /\ [Next]_vars => TypeOK'
  <2> SUFFICES ASSUME TypeOK, [Next]_vars PROVE TypeOK'
    OBVIOUS
  <2> DEFINE Journals ==
        /\ journal \in [Sessions -> Seq(EventsOf(Messages))]
        /\ fork \in [Sessions -> Nat]
        /\ \A t \in Sessions \ {1} : journal[t] # <<>> => fork[t] \in DOMAIN journal[t - 1]
  <2>1. TypeOK <=> Journals /\ (stream # None => IsStream(stream))
    BY Zenon DEF TypeOK, IsStream
  <2>2. TypeOK' <=> Journals' /\ (stream' # None => IsStream(stream'))
    BY Zenon DEF TypeOK, IsStream
  <2>3. Summary \in Messages /\ \A m \in Inputs : m \in Messages
    BY ContextAssumption DEF Messages
  <2>4. ASSUME NEW s \in Sessions, Room(s), NEW e \in EventsOf(Messages), Record(s, e),
               UNCHANGED <<fork, stream>>
        PROVE  TypeOK'
    <3>1. Journals'
      BY <2>4, RecordTypes DEF Room
    <3> QED BY <2>2, <2>4, <3>1 DEF Room
  <2>5. ASSUME NEW s \in Sessions, Say(s) PROVE TypeOK'
    <3>1. PICK m \in Inputs : Record(s, Appended(m))
      BY <2>5 DEF Say
    <3> QED BY <2>3, <2>4, <2>5, <3>1, EventTypes DEF Say
  <2>6. ASSUME NEW s \in Sessions, Answer(s) PROVE TypeOK'
    <3>1. PICK a \in Whole : Record(s, Appended(Normalized(a.provider, a.wire, a.options)))
      BY <2>6 DEF Answer
    <3> QED BY <2>4, <2>6, <3>1, AnswerTypes, EventTypes DEF Answer, Callable
  <2>7. ASSUME NEW s \in Sessions, Settle(s) PROVE TypeOK'
    <3>1. PICK id \in Calls(s), content \in {Pending, Settled} :
            Record(s, Appended(Message("tool", <<ToolResult(id, content)>>)))
      BY <2>7, Zenon DEF Settle
    <3>2. Message("tool", <<ToolResult(id, content)>>) \in Messages
      BY SettledTypes
    <3> QED BY <2>4, <2>7, <3>1, <3>2, EventTypes DEF Settle
  <2>8. ASSUME NEW s \in Sessions, Compact(s) PROVE TypeOK'
    <3>1. PICK through \in DOMAIN journal[s], scope \in {"local", "including_inherited"} :
            Record(s, Compaction(through, Summary, scope))
      BY <2>8 DEF Compact
    <3>2. through \in Nat
      BY <2>1
    <3> QED BY <2>3, <2>4, <2>8, <3>1, <3>2, EventTypes DEF Compact
  <2>9. ASSUME NEW s \in Sessions, Fork(s) PROVE TypeOK'
    <3>1. Journals'
      BY <2>9, ForkTypes
    <3> QED BY <2>2, <2>9, <3>1 DEF Fork
  <2>10. CASE Open
    <3>1. PICK answer \in Streamed, crlf \in BOOLEAN :
            \E cuts \in SUBSET (1 .. Len(answer.deltas) - 1) :
              LET chunks == Chunks(answer.deltas, answer.wire, cuts)
              IN  stream' = [answer |-> answer, chunks |-> chunks,
                             transit |-> Bytes(Len(chunks), crlf),
                             reader |-> NewReader, cut |-> FALSE]
      BY <2>10 DEF Open
    <3>2. IsStream(stream')
      BY <3>1, OpenTypes
    <3> QED BY <2>1, <2>2, <2>10, <3>2 DEF Open
  <2>11. CASE Receive \/ Cut \/ EndOfBody
    <3>1. stream # None /\ UNCHANGED <<journal, fork>>
      BY <2>11 DEF Receive, Cut, EndOfBody, Arriving
    <3>2. IsStream(stream')
      BY <2>1, <2>11, <3>1, ArrivalTypes
    <3> QED BY <2>1, <2>2, <3>1, <3>2
  <2>12. CASE Complete
    <3>1. stream' = None
      BY <2>12 DEF Complete
    <3>2. PICK m \in Messages : UNCHANGED fork /\ (Record(1, Appended(m)) \/ UNCHANGED journal)
      BY <2>12, CompleteTypes
    <3>3. CASE Record(1, Appended(m))
      <4>1. 1 \in Sessions
        BY ContextAssumption DEF Sessions
      <4>2. Journals'
        BY <3>2, <3>3, <4>1, RecordTypes, EventTypes
      <4> QED BY <2>2, <3>1, <4>2
    <3>4. CASE UNCHANGED journal
      BY <2>1, <2>2, <3>1, <3>2, <3>4
    <3> QED BY <3>2, <3>3, <3>4
  <2>13. CASE UNCHANGED vars
    BY <2>1, <2>2, <2>13 DEF vars
  <2> QED BY <2>5, <2>6, <2>7, <2>8, <2>9, <2>10, <2>11, <2>12, <2>13 DEF Next
<1> QED BY <1>1, <1>2, PTL DEF Spec

-----------------------------------------------------------------------------
(* Of all results of a call only the latest: SupersedeToolResults, one      *)
(* message at a time.                                                       *)

\* A message with a result of one of some calls.
Dropped(m, R) == m.role = "tool" /\ m.content[1].id \in R
Without(R) == [m \in Messages |-> IF Dropped(m, R) THEN <<>> ELSE <<m>>]
Drop(messages, R) == FlatMap(messages, Without(R))
\* The calls that a message has a result of.
IdsGiven(m) == IF m.role = "tool" THEN {m.content[1].id} ELSE {}

\* Dropping the results of some calls maps each message to none or one.
LEMMA WithoutTypes ==
  ASSUME NEW R
  PROVE  /\ Without(R) \in ToSeqs(Messages, Messages)
         /\ \A m \in Messages : Without(R)[m] = IF Dropped(m, R) THEN <<>> ELSE <<m>>
<1> DEFINE M == Messages
<1> HIDE DEF M
<1>1. \A m \in M : (IF Dropped(m, R) THEN <<>> ELSE <<m>>) \in Seq(M)
  OBVIOUS
<1>2. Without(R) = [m \in M |-> IF Dropped(m, R) THEN <<>> ELSE <<m>>]
  BY DEF Without, M
<1>3. Without(R) \in [M -> Seq(M)]
  BY <1>1, <1>2
<1> QED BY <1>2, <1>3 DEF M, ToSeqs

\* Dropping results, message by message.
LEMMA DropUnfolds ==
  ASSUME NEW R, NEW X \in Seq(Messages)
  PROVE  /\ Drop(<<>>, R) = <<>> /\ Drop(X, R) \in Seq(Messages)
         /\ \A m \in Messages :
              Drop(Append(X, m), R) = IF Dropped(m, R) THEN Drop(X, R) ELSE Append(Drop(X, R), m)
<1> DEFINE F == Without(R)
           M == Messages
<1>1. F \in ToSeqs(M, M) /\ \A m \in M : F[m] = IF Dropped(m, R) THEN <<>> ELSE <<m>>
  BY WithoutTypes
<1> HIDE DEF F, M
<1>2. X \in Seq(M)
  BY DEF M
<1>3. /\ FlatMap(<<>>, F) = <<>> /\ FlatMap(X, F) \in Seq(M)
      /\ \A m \in M : FlatMap(Append(X, m), F) = FlatMap(X, F) \o F[m]
  BY <1>1, <1>2, FlatMapUnfolds
<1>4. \A s \in Seq(M), m \in M : s \o <<m>> = Append(s, m) /\ s \o <<>> = s
  OBVIOUS
<1>5. \A m \in M : FlatMap(Append(X, m), F)
                     = IF Dropped(m, R) THEN FlatMap(X, F) ELSE Append(FlatMap(X, F), m)
  BY <1>1, <1>3, <1>4, Zenon
<1> QED BY <1>3, <1>5 DEF Drop, F, M

\* Results dropped one set after the other.
LEMMA DropTwice ==
  ASSUME NEW R, NEW Q, NEW X \in Seq(Messages)
  PROVE  Drop(Drop(X, R), Q) = Drop(X, R \cup Q)
<1> DEFINE P == {s \in Seq(Messages) : Drop(Drop(s, R), Q) = Drop(s, R \cup Q)}
<1>1. <<>> \in P
  <2>1. <<>> \in Seq(Messages)
    OBVIOUS
  <2>2. \A S : Drop(<<>>, S) = <<>>
    BY <2>1, DropUnfolds
  <2> QED BY <2>1, <2>2
<1>2. ASSUME NEW s \in Seq(Messages), NEW m \in Messages, s \in P PROVE Append(s, m) \in P
  <2> DEFINE t == Drop(s, R)
  <2>1. t \in Seq(Messages) /\ Drop(t, Q) = Drop(s, R \cup Q)
    BY <1>2, DropUnfolds
  <2>2. Drop(Append(s, m), R) = IF Dropped(m, R) THEN t ELSE Append(t, m)
    BY DropUnfolds
  <2>3. Drop(Append(s, m), R \cup Q)
          = IF Dropped(m, R \cup Q) THEN Drop(t, Q) ELSE Append(Drop(t, Q), m)
    BY <2>1, DropUnfolds
  <2> HIDE DEF t
  <2>4. Drop(Append(t, m), Q) = IF Dropped(m, Q) THEN Drop(t, Q) ELSE Append(Drop(t, Q), m)
    BY <2>1, DropUnfolds
  <2>5. Dropped(m, R \cup Q) <=> Dropped(m, R) \/ Dropped(m, Q)
    BY DEF Dropped
  <2>6. Drop(Drop(Append(s, m), R), Q) = Drop(Append(s, m), R \cup Q)
    BY <2>2, <2>3, <2>4, <2>5, Zenon
  <2>7. Append(s, m) \in Seq(Messages)
    <3> DEFINE M == Messages
    <3>1. s \in Seq(M) /\ m \in M
      OBVIOUS
    <3> HIDE DEF M
    <3>2. Append(s, m) \in Seq(M)
      BY <3>1
    <3> QED BY <3>2 DEF M
  <2> QED BY <2>6, <2>7
<1>3. Seq(Messages) \subseteq P
  <2> HIDE DEF P
  <2> QED BY <1>1, <1>2, SnocInduct
<1> QED BY <1>3

\* A tool's message has one block, a result.
LEMMA ToolTypes ==
  ASSUME NEW m \in Messages, m.role = "tool"
  PROVE  /\ m.content \in Seq(ResultBlocks) /\ Len(m.content) = 1
         /\ m.content[1] \in ResultBlocks /\ m.content[1].type = "tool_result"
<1>1. m \in ResultMessages
  BY DEF Messages, PlainMessages, AnswerMessages
<1>2. m.content \in Seq(ResultBlocks) /\ Len(m.content) = 1
  BY <1>1 DEF ResultMessages
<1>3. m.content[1] \in ResultBlocks
  BY <1>2
<1>4. \A b \in ResultBlocks : b.type = "tool_result"
  BY DEF ResultBlocks
<1> QED BY <1>2, <1>3, <1>4

\* The result in a message is superseded by a later one.
Superseded(X, i) ==
  /\ X[i].role = "tool"
  /\ \E j \in DOMAIN X : j > i /\ X[j].role = "tool" /\ X[j].content[1].id = X[i].content[1].id
Remaining(X) == [i \in DOMAIN X |-> IF Superseded(X, i) THEN <<>> ELSE <<X[i]>>]

\* supersedeToolResults leaves out the results that a later one supersedes.
LEMMA SupersedeAs ==
  ASSUME NEW X \in Seq(Messages)
  PROVE  SupersedeToolResults(X) = FlattenSeq(Remaining(X))
<1> DEFINE HasResult(i, id) ==
             X[i].role = "tool" /\ \E j \in DOMAIN X[i].content :
               X[i].content[j].type = "tool_result" /\ X[i].content[j].id = id
           LastResult(id) == Greatest({i \in DOMAIN X : HasResult(i, id)})
           Kept1(i) == [k \in DOMAIN X[i].content |->
                     IF X[i].content[k].type = "tool_result" => LastResult(X[i].content[k].id) = i
                     THEN <<X[i].content[k]>> ELSE <<>>]
           Latest(i) == FlattenSeq(Kept1(i))
           Remains(i) ==
             IF X[i].role # "tool" \/ Latest(i) = X[i].content THEN <<X[i]>>
             ELSE IF Latest(i) = <<>> THEN <<>>
             ELSE <<[X[i] EXCEPT !.content = Latest(i)]>>
           n == Len(X)
<1>1. n \in Nat /\ DOMAIN X = 1 .. n /\ \A i \in 1 .. n : X[i] \in Messages
  OBVIOUS
<1>2. SupersedeToolResults(X) = FlattenSeq([i \in DOMAIN X |-> Remains(i)])
  BY DEF SupersedeToolResults, Filter, Each
<1>3. ASSUME NEW i \in 1 .. n, X[i].role = "tool", NEW id
      PROVE  HasResult(i, id) <=> X[i].content[1].id = id
  <2> DEFINE c == X[i].content
  <2>1. DOMAIN c = {1} /\ c[1].type = "tool_result"
    <3>1. X[i] \in Messages
      BY <1>1
    <3>2. c \in Seq(ResultBlocks) /\ Len(c) = 1 /\ c[1].type = "tool_result"
      BY <1>3, <3>1, ToolTypes
    <3> HIDE DEF c
    <3>3. DOMAIN c = 1 .. 1
      BY <3>2
    <3> QED BY <3>2, <3>3
  <2> HIDE DEF c
  <2>2. HasResult(i, id) <=> \E j \in DOMAIN c : c[j].type = "tool_result" /\ c[j].id = id
    BY <1>3 DEF c
  <2>3. X[i].content[1].id = c[1].id
    BY DEF c
  <2> QED BY <2>1, <2>2, <2>3
<1>4. \A i \in 1 .. n : \A id : HasResult(i, id) => X[i].role = "tool"
  OBVIOUS
<1> HIDE DEF HasResult, n
<1>5. ASSUME NEW i \in 1 .. n, X[i].role = "tool"
      PROVE  LastResult(X[i].content[1].id) = i <=> ~Superseded(X, i)
  <2> DEFINE id == X[i].content[1].id
             S == {j \in DOMAIN X : HasResult(j, id)} \cup {0}
  <2>1. S \in SUBSET (0 .. n) /\ S # {} /\ i \in S
    BY <1>1, <1>3, <1>5
  <2>2. Max(S) \in S /\ \A j \in S : j <= Max(S)
    <3> HIDE DEF S
    <3> QED BY <1>1, <2>1, MaxIsGreatest
  <2>3. LastResult(id) = Max(S)
    BY DEF Greatest
  <2>4. \A j \in 1 .. n : j \in S <=> X[j].role = "tool" /\ X[j].content[1].id = id
    BY <1>1, <1>3, <1>4
  <2> HIDE DEF S, id
  <2>5. Superseded(X, i) <=> \E j \in 1 .. n : j > i /\ j \in S
    BY <1>1, <1>5, <2>4 DEF Superseded, id
  <2>6. Max(S) = i <=> ~\E j \in 1 .. n : j > i /\ j \in S
    <3>1. Max(S) \in 0 .. n /\ Max(S) >= i
      BY <2>1, <2>2
    <3>2. ASSUME Max(S) = i, NEW j \in 1 .. n, j > i, j \in S PROVE FALSE
      BY <2>2, <3>2
    <3>3. ASSUME ~\E j \in 1 .. n : j > i /\ j \in S PROVE Max(S) = i
      BY <2>2, <3>1, <3>3
    <3> QED BY <3>2, <3>3
  <2> HIDE DEF LastResult
  <2> QED BY <2>3, <2>5, <2>6 DEF id
<1> HIDE DEF LastResult
<1>6. ASSUME NEW i \in 1 .. n, X[i].role = "tool"
      PROVE  Latest(i) = IF Superseded(X, i) THEN <<>> ELSE X[i].content
  <2> DEFINE c == X[i].content
             x == IF LastResult(c[1].id) = i THEN <<c[1]>> ELSE <<>>
  <2>1. c \in Seq(ResultBlocks) /\ Len(c) = 1 /\ c[1] \in ResultBlocks /\ c[1].type = "tool_result"
    <3>1. X[i] \in Messages
      BY <1>1
    <3> QED BY <1>6, <3>1, ToolTypes
  <2>2. Kept1(i) = [k \in DOMAIN c |-> IF c[k].type = "tool_result" => LastResult(c[k].id) = i
                                      THEN <<c[k]>> ELSE <<>>]
    BY DEF c
  <2>3. LastResult(c[1].id) = i <=> ~Superseded(X, i)
    BY <1>5, <1>6
  <2> HIDE DEF c, Kept1
  <2>4. DOMAIN c = 1 .. 1 /\ c = <<c[1]>>
    <3>1. DOMAIN c = 1 .. 1
      BY <2>1
    <3>2. <<c[1]>> \in Seq(ResultBlocks) /\ Len(<<c[1]>>) = Len(c) /\ <<c[1]>>[1] = c[1]
      BY <2>1
    <3>3. \A k \in 1 .. Len(c) : <<c[1]>>[k] = c[k]
      BY <2>1, <3>2
    <3> QED BY <2>1, <3>1, <3>2, <3>3, SeqEqual
  <2>5. Kept1(i) = [k \in 1 .. 1 |-> x]
    BY <2>1, <2>2, <2>4
  <2> HIDE DEF x
  <2>6. x \in Seq(ResultBlocks)
    BY <2>1 DEF x
  <2>7. FlattenSeq(Kept1(i)) = x
    <3> DEFINE W == Seq(ResultBlocks)
    <3>1. x \in W
      BY <2>6
    <3>2. <<>> \in Seq(W) /\ [k \in 1 .. 1 |-> x] = Append(<<>>, x)
      OBVIOUS
    <3>3. FlattenSeq(Append(<<>>, x)) = FlattenSeq(<<>>) \o x /\ FlattenSeq(<<>>) = <<>>
      BY <2>6, <3>2, FlattenUnfolds
    <3>4. <<>> \o x = x
      BY <2>6
    <3> QED BY <2>5, <3>2, <3>3, <3>4
  <2>8. x = IF Superseded(X, i) THEN <<>> ELSE c
    BY <2>3, <2>4 DEF x
  <2> QED BY <2>7, <2>8 DEF c
<1> HIDE DEF Latest
<1>7. ASSUME NEW i \in 1 .. n PROVE Remains(i) = IF Superseded(X, i) THEN <<>> ELSE <<X[i]>>
  <2>1. CASE X[i].role # "tool"
    <3>1. Remains(i) = <<X[i]>>
      <4> HIDE DEF Superseded
      <4> QED BY <2>1
    <3>2. ~Superseded(X, i)
      BY <2>1 DEF Superseded
    <3> QED BY <3>1, <3>2
  <2>2. CASE X[i].role = "tool" /\ Superseded(X, i)
    <3>1. Latest(i) = <<>> /\ X[i].content # <<>>
      <4>1. X[i] \in Messages
        BY <1>1
      <4>2. Len(X[i].content) = 1 /\ Len(<<>>) # 1
        BY <2>2, <4>1, ToolTypes
      <4>3. X[i].content # <<>>
        BY <4>2, Zenon
      <4> QED BY <1>6, <2>2, <4>3
    <3> QED BY <2>2, <3>1
  <2>3. CASE X[i].role = "tool" /\ ~Superseded(X, i)
    <3>1. Latest(i) = X[i].content /\ X[i].content # <<>>
      <4>1. X[i] \in Messages
        BY <1>1
      <4>2. Len(X[i].content) = 1 /\ Len(<<>>) # 1
        BY <2>3, <4>1, ToolTypes
      <4>3. X[i].content # <<>>
        BY <4>2, Zenon
      <4> QED BY <1>6, <2>3, <4>3
    <3> QED BY <2>3, <3>1
  <2> QED BY <2>1, <2>2, <2>3
<1> HIDE DEF Remains
<1>8. [i \in DOMAIN X |-> Remains(i)] = Remaining(X)
  BY <1>1, <1>7 DEF Remaining
<1> QED BY <1>2, <1>8

\* No result is left of a call that a new message has one of.
LEMMA SupersedeUnfolds ==
  ASSUME NEW X \in Seq(Messages)
  PROVE  /\ SupersedeToolResults(<<>>) = <<>>
         /\ SupersedeToolResults(X) \in Seq(Messages)
         /\ \A m \in Messages :
              SupersedeToolResults(Append(X, m))
                = Append(Drop(SupersedeToolResults(X), IdsGiven(m)), m)
<1> DEFINE M == Messages
           W == Seq(M)
           n == Len(X)
<1>1. ASSUME NEW s \in Seq(M) PROVE Remaining(s) \in Seq(W) /\ SupersedeToolResults(s) \in Seq(M)
  <2>1. Remaining(s) \in Seq(W)
    <3> HIDE DEF M
    <3>1. Len(s) \in Nat /\ DOMAIN s = 1 .. Len(s)
          /\ \A i \in 1 .. Len(s) : <<s[i]>> \in W /\ <<>> \in W
      OBVIOUS
    <3> HIDE DEF W
    <3>2. Remaining(s) = [i \in 1 .. Len(s) |-> IF Superseded(s, i) THEN <<>> ELSE <<s[i]>>]
      BY <3>1 DEF Remaining
    <3> QED BY <3>1, <3>2
  <2>2. SupersedeToolResults(s) = FlattenSeq(Remaining(s))
    BY SupersedeAs
  <2> QED BY <2>1, <2>2, FlattenUnfolds
<1>2. SupersedeToolResults(<<>>) = <<>>
  <2>1. <<>> \in Seq(M) /\ Remaining(<<>>) = <<>> /\ <<>> \in Seq(Seq(M))
    BY DEF Remaining
  <2>2. FlattenSeq(<<>>) = <<>>
    BY <2>1, FlattenUnfolds
  <2> QED BY <2>1, <2>2, SupersedeAs
<1>3. ASSUME NEW m \in M
      PROVE  SupersedeToolResults(Append(X, m))
               = Append(Drop(SupersedeToolResults(X), IdsGiven(m)), m)
  <2> DEFINE Y == Append(X, m)
             F == Without(IdsGiven(m))
             r == Remaining(X)
             f == [i \in DOMAIN r |-> FlatMap(r[i], F)]
  <2>1. /\ F \in ToSeqs(M, M)
        /\ \A x \in M : F[x] = IF Dropped(x, IdsGiven(m)) THEN <<>> ELSE <<x>>
    BY WithoutTypes
  <2>2. /\ n \in Nat /\ DOMAIN X = 1 .. n /\ \A i \in 1 .. n : X[i] \in M
        /\ Y \in Seq(M) /\ Len(Y) = n + 1 /\ DOMAIN Y = 1 .. n + 1 /\ Y[n + 1] = m
        /\ \A i \in 1 .. n : Y[i] = X[i]
    <3>1. X \in Seq(M) /\ m \in M
      OBVIOUS
    <3> HIDE DEF M
    <3> QED BY <3>1
  <2> HIDE DEF F, M, Y, n
  <2>3. FlatMap(<<>>, F) = <<>> /\ \A x \in M : FlatMap(<<x>>, F) = F[x]
    <3>1. <<>> \in Seq(M)
      OBVIOUS
    <3> QED BY <2>1, <3>1, FlatMapUnfolds, FlatMapOfOne
  <2>4. ASSUME NEW i \in 1 .. n
        PROVE  Superseded(Y, i) <=> Superseded(X, i) \/ Dropped(X[i], IdsGiven(m))
    <3>1. Y[i] = X[i] /\ i \in 1 .. n + 1 /\ n + 1 > i /\ n + 1 \in 1 .. n + 1
      BY <2>2
    <3>2. \A j \in 1 .. n + 1 : j \in 1 .. n \/ j = n + 1
      BY <2>2
    <3>3. \A j \in 1 .. n : j \in 1 .. n + 1
      BY <2>2
    <3>4. Superseded(Y, i) <=>
            /\ X[i].role = "tool"
            /\ \/ \E j \in 1 .. n : j > i /\ X[j].role = "tool" /\ X[j].content[1].id = X[i].content[1].id
               \/ m.role = "tool" /\ m.content[1].id = X[i].content[1].id
      <4> DEFINE Later1(j) == j > i /\ Y[j].role = "tool" /\ Y[j].content[1].id = X[i].content[1].id
      <4>1. Superseded(Y, i) <=> X[i].role = "tool" /\ \E j \in 1 .. n + 1 : Later1(j)
        BY <2>2, <3>1, Zenon DEF Superseded
      <4>2. Later1(n + 1) <=> m.role = "tool" /\ m.content[1].id = X[i].content[1].id
        BY <2>2, <3>1, Zenon
      <4>3. \A j \in 1 .. n : Later1(j) <=>
              j > i /\ X[j].role = "tool" /\ X[j].content[1].id = X[i].content[1].id
        BY <2>2, Zenon
      <4> HIDE DEF Later1
      <4>4. (\E j \in 1 .. n + 1 : Later1(j)) <=> (\E j \in 1 .. n : Later1(j)) \/ Later1(n + 1)
        BY <3>1, <3>2, <3>3, Zenon
      <4> QED BY <4>1, <4>2, <4>3, <4>4, Zenon
    <3> QED BY <2>2, <3>4 DEF Superseded, Dropped, IdsGiven
  <2>5. ~Superseded(Y, n + 1)
    BY <2>2 DEF Superseded
  <2>6. r \in Seq(W) /\ Remaining(Y) \in Seq(W) /\ Len(r) = n /\ DOMAIN r = 1 .. n
        /\ \A i \in 1 .. n : r[i] = IF Superseded(X, i) THEN <<>> ELSE <<X[i]>>
    <3>1. r \in Seq(W) /\ Remaining(Y) \in Seq(W)
      BY <1>1, <2>2 DEF M
    <3>2. r = [i \in 1 .. n |-> IF Superseded(X, i) THEN <<>> ELSE <<X[i]>>]
      BY <2>2 DEF Remaining
    <3> HIDE DEF W, r
    <3> QED BY <2>2, <3>1, <3>2
  <2>7. f = [i \in 1 .. n |-> IF Superseded(Y, i) THEN <<>> ELSE <<X[i]>>]
    <3>1. \A i \in 1 .. n : FlatMap(r[i], F) = IF Superseded(Y, i) THEN <<>> ELSE <<X[i]>>
      <4> SUFFICES ASSUME NEW i \in 1 .. n
                   PROVE  FlatMap(r[i], F) = IF Superseded(Y, i) THEN <<>> ELSE <<X[i]>>
        OBVIOUS
      <4>1. X[i] \in M
        BY <2>2
      <4> HIDE DEF r
      <4> QED BY <2>1, <2>3, <2>4, <2>6, <4>1, Zenon
    <3> HIDE DEF r
    <3> QED BY <2>6, <3>1
  <2>8. f \in Seq(W)
    <3>1. \A i \in 1 .. n : (IF Superseded(Y, i) THEN <<>> ELSE <<X[i]>>) \in W
      BY <2>2
    <3> HIDE DEF f, W
    <3> QED BY <2>2, <2>7, <3>1
  <2>9. Remaining(Y) = Append(f, <<m>>)
    <3>1. Remaining(Y) = [i \in 1 .. n + 1 |-> IF Superseded(Y, i) THEN <<>> ELSE <<Y[i]>>]
      BY <2>2 DEF Remaining
    <3>2. <<m>> \in W /\ m \in M
      BY <1>3 DEF M
    <3> HIDE DEF f, W
    <3>3. Append(f, <<m>>) \in Seq(W) /\ Len(f) = n /\ Len(Append(f, <<m>>)) = n + 1
          /\ Append(f, <<m>>)[n + 1] = <<m>>
          /\ \A i \in 1 .. n : Append(f, <<m>>)[i] = f[i]
      BY <2>2, <2>7, <2>8, <3>2
    <3>4. Len(Remaining(Y)) = n + 1 /\ Remaining(Y)[n + 1] = <<m>>
      BY <2>2, <2>5, <3>1
    <3>5. \A i \in 1 .. n : Remaining(Y)[i] = f[i]
      <4> SUFFICES ASSUME NEW i \in 1 .. n PROVE Remaining(Y)[i] = f[i]
        OBVIOUS
      <4>1. i \in 1 .. n + 1 /\ Y[i] = X[i]
        BY <2>2
      <4>2. f[i] = IF Superseded(Y, i) THEN <<>> ELSE <<X[i]>>
        BY <2>7
      <4>3. Remaining(Y)[i] = IF Superseded(Y, i) THEN <<>> ELSE <<Y[i]>>
        BY <3>1, <4>1
      <4> QED BY <4>1, <4>2, <4>3
    <3>6. \A i \in 1 .. n + 1 : Remaining(Y)[i] = Append(f, <<m>>)[i]
      BY <2>2, <3>3, <3>4, <3>5
    <3> QED BY <2>2, <2>6, <3>3, <3>4, <3>6, SeqEqual
  <2> HIDE DEF f, r
  <2>10. FlattenSeq(Append(f, <<m>>)) = FlattenSeq(f) \o <<m>> /\ FlattenSeq(f) \in Seq(M)
    <3>1. <<m>> \in Seq(M)
      BY <1>3 DEF M
    <3> QED BY <2>8, <3>1, FlattenUnfolds
  <2>11. FlattenSeq(f) = FlatMap(FlattenSeq(r), F)
    <3>1. r \in Seq(Seq(M))
      BY <2>6
    <3> QED BY <2>1, <3>1, FlatMapFlatten DEF f
  <2>12. SupersedeToolResults(X) = FlattenSeq(r) /\ SupersedeToolResults(Y) = FlattenSeq(Remaining(Y))
    BY <2>2, SupersedeAs DEF M, r
  <2>13. SupersedeToolResults(Y) = Append(FlattenSeq(f), m)
    <3>1. FlattenSeq(f) \o <<m>> = Append(FlattenSeq(f), m)
      BY <1>3, <2>10 DEF M
    <3> QED BY <2>9, <2>10, <2>12, <3>1, Zenon
  <2>14. FlattenSeq(f) = Drop(SupersedeToolResults(X), IdsGiven(m))
    BY <2>11, <2>12, Zenon DEF Drop, F
  <2> QED BY <2>13, <2>14 DEF Y
<1> QED BY <1>1, <1>2, <1>3

\* Results dropped before and after those that are superseded.
LEMMA SupersedeDrops ==
  ASSUME NEW R, NEW X \in Seq(Messages)
  PROVE  SupersedeToolResults(Drop(X, R)) = Drop(SupersedeToolResults(X), R)
<1> DEFINE M == Messages
           S(s) == SupersedeToolResults(s)
           P == {s \in Seq(M) : S(Drop(s, R)) = Drop(S(s), R)}
<1>1. <<>> \in P
  <2>1. <<>> \in Seq(M)
    OBVIOUS
  <2>2. Drop(<<>>, R) = <<>> /\ S(<<>>) = <<>>
    BY <2>1, DropUnfolds, SupersedeUnfolds
  <2> QED BY <2>1, <2>2
<1>2. ASSUME NEW s \in Seq(M), NEW m \in M, s \in P PROVE Append(s, m) \in P
  <2> DEFINE I == IdsGiven(m)
             d == Drop(s, R)
             t == S(s)
  <2>1. d \in Seq(M) /\ t \in Seq(M) /\ Append(s, m) \in Seq(M) /\ S(d) = Drop(t, R)
    <3>1. d \in Seq(M) /\ t \in Seq(M)
      BY DropUnfolds, SupersedeUnfolds
    <3>2. s \in Seq(M) /\ m \in M
      OBVIOUS
    <3>3. Append(s, m) \in Seq(M)
      <4> HIDE DEF M
      <4> QED BY <3>2
    <3> QED BY <1>2, <3>1, <3>3
  <2>2. Drop(Append(s, m), R) = IF Dropped(m, R) THEN d ELSE Append(d, m)
    BY DropUnfolds
  <2>3. S(Append(s, m)) = Append(Drop(t, I), m) /\ Drop(t, I) \in Seq(M)
    BY <2>1, SupersedeUnfolds, DropUnfolds
  <2>4. S(Append(d, m)) = Append(Drop(S(d), I), m)
    BY <2>1, SupersedeUnfolds
  <2>5. Drop(Append(Drop(t, I), m), R)
          = IF Dropped(m, R) THEN Drop(Drop(t, I), R) ELSE Append(Drop(Drop(t, I), R), m)
    BY <2>3, DropUnfolds
  <2>6. Drop(Drop(t, I), R) = Drop(t, I \cup R) /\ Drop(Drop(t, R), I) = Drop(t, R \cup I)
    BY <2>1, DropTwice
  <2>7. I \cup R = R \cup I /\ (Dropped(m, R) => I \cup R = R)
    BY DEF IdsGiven, Dropped
  <2> HIDE DEF I, d, t, S
  <2>8. S(Drop(Append(s, m), R)) = Drop(S(Append(s, m)), R)
    <3>1. CASE Dropped(m, R)
      BY <2>1, <2>2, <2>3, <2>5, <2>6, <2>7, <3>1, Zenon
    <3>2. CASE ~Dropped(m, R)
      BY <2>1, <2>2, <2>3, <2>4, <2>5, <2>6, <2>7, <3>2, Zenon
    <3> QED BY <3>1, <3>2
  <2> QED BY <2>1, <2>8
<1>3. Seq(M) \subseteq P
  <2> HIDE DEF P, M
  <2> QED BY <1>1, <1>2, SnocInduct
<1> QED BY <1>3

\* A result is superseded once; what is shown can be shown again, and with one
\* more message.
LEMMA SupersedeTwice ==
  ASSUME NEW X \in Seq(Messages)
  PROVE  /\ SupersedeToolResults(SupersedeToolResults(X)) = SupersedeToolResults(X)
         /\ \A m \in Messages : SupersedeToolResults(Append(SupersedeToolResults(X), m))
                                  = SupersedeToolResults(Append(X, m))
<1> DEFINE M == Messages
           S(s) == SupersedeToolResults(s)
           P == {s \in Seq(M) : S(S(s)) = S(s)}
<1>1. <<>> \in P
  <2>1. <<>> \in Seq(M)
    OBVIOUS
  <2>2. S(<<>>) = <<>>
    BY <2>1, SupersedeUnfolds
  <2> QED BY <2>1, <2>2
<1>2. ASSUME NEW s \in Seq(M), NEW m \in M, s \in P PROVE Append(s, m) \in P
  <2> DEFINE I == IdsGiven(m)
             t == S(s)
             d == Drop(t, I)
  <2>1. d \in Seq(M) /\ t \in Seq(M) /\ Append(s, m) \in Seq(M) /\ S(t) = t
    <3>1. t \in Seq(M)
      BY SupersedeUnfolds
    <3>2. d \in Seq(M)
      BY <3>1, DropUnfolds
    <3>3. s \in Seq(M) /\ m \in M
      OBVIOUS
    <3>4. Append(s, m) \in Seq(M)
      <4> HIDE DEF M
      <4> QED BY <3>3
    <3> QED BY <1>2, <3>1, <3>2, <3>4
  <2>2. S(Append(s, m)) = Append(d, m)
    BY SupersedeUnfolds
  <2>3. S(Append(d, m)) = Append(Drop(S(d), I), m)
    BY <2>1, SupersedeUnfolds
  <2>4. S(d) = Drop(S(t), I)
    BY <2>1, SupersedeDrops
  <2>5. Drop(Drop(t, I), I) = Drop(t, I \cup I) /\ I \cup I = I
    BY <2>1, DropTwice
  <2>6. S(S(Append(s, m))) = S(Append(s, m))
    <3>1. Drop(S(d), I) = d
      BY <2>1, <2>4, <2>5, Zenon
    <3> HIDE DEF I, t, d, S
    <3> QED BY <2>2, <2>3, <3>1, Zenon
  <2> QED BY <2>1, <2>6
<1>3. Seq(M) \subseteq P
  <2> HIDE DEF P, M
  <2> QED BY <1>1, <1>2, SnocInduct
<1>4. ASSUME NEW m \in M PROVE S(Append(S(X), m)) = S(Append(X, m))
  <2>1. S(X) \in Seq(M) /\ S(S(X)) = S(X)
    BY <1>3, SupersedeUnfolds
  <2>2. S(Append(S(X), m)) = Append(Drop(S(S(X)), IdsGiven(m)), m)
    BY <2>1, SupersedeUnfolds
  <2>3. S(Append(X, m)) = Append(Drop(S(X), IdsGiven(m)), m)
    BY SupersedeUnfolds
  <2> HIDE DEF S
  <2> QED BY <2>1, <2>2, <2>3, Zenon
<1> QED BY <1>3, <1>4

-----------------------------------------------------------------------------
(* A journal that grows.                                                    *)

\* The first events of a journal stay.
LEMMA PrefixStays ==
  ASSUME NEW A, NEW s \in Seq(A), NEW x \in A, NEW k \in Nat, k <= Len(s)
  PROVE  SubSeq(Append(s, x), 1, k) = SubSeq(s, 1, k)
<1> DEFINE t == Append(s, x)
<1>1. t \in Seq(A) /\ Len(t) = Len(s) + 1 /\ Len(s) \in Nat
      /\ \A i \in 1 .. Len(s) : t[i] = s[i]
  OBVIOUS
<1> HIDE DEF t
<1>2. /\ SubSeq(t, 1, k) \in Seq(A) /\ SubSeq(s, 1, k) \in Seq(A)
      /\ Len(SubSeq(t, 1, k)) = k /\ Len(SubSeq(s, 1, k)) = k
      /\ \A i \in 1 .. k : SubSeq(t, 1, k)[i] = t[i] /\ SubSeq(s, 1, k)[i] = s[i]
  BY <1>1
<1>3. \A i \in 1 .. k : SubSeq(t, 1, k)[i] = SubSeq(s, 1, k)[i]
  BY <1>1, <1>2
<1> QED BY <1>2, <1>3, SeqEqual DEF t

\* And what follows them is one event longer.
LEMMA RestGrows ==
  ASSUME NEW A, NEW s \in Seq(A), NEW x \in A, NEW k \in Nat \ {0}, k <= Len(s) + 1
  PROVE  SubSeq(Append(s, x), k, Len(Append(s, x))) = Append(SubSeq(s, k, Len(s)), x)
<1> DEFINE t == Append(s, x)
           n == Len(s)
           u == SubSeq(t, k, Len(t))
           v == SubSeq(s, k, n)
<1>1. t \in Seq(A) /\ Len(t) = n + 1 /\ n \in Nat /\ k <= n + 1 /\ t[n + 1] = x
      /\ \A i \in 1 .. n : t[i] = s[i]
  OBVIOUS
<1> HIDE DEF t
<1>2. u \in Seq(A) /\ Len(u) = n + 2 - k /\ \A i \in 1 .. n + 2 - k : u[i] = t[k + i - 1]
  BY <1>1
<1>3. v \in Seq(A) /\ Len(v) = n + 1 - k /\ \A i \in 1 .. n + 1 - k : v[i] = s[k + i - 1]
  BY <1>1
<1> HIDE DEF u, v, n
<1> DEFINE w == Append(v, x)
<1>4. w \in Seq(A) /\ Len(w) = n + 2 - k /\ w[n + 2 - k] = x
      /\ \A i \in 1 .. n + 1 - k : w[i] = v[i]
  <2>1. Len(v) = n + 1 - k /\ v \in Seq(A) /\ Len(v) + 1 = n + 2 - k
    BY <1>1, <1>3
  <2>2. /\ Append(v, x) \in Seq(A) /\ Len(Append(v, x)) = Len(v) + 1
        /\ Append(v, x)[Len(v) + 1] = x /\ \A i \in 1 .. Len(v) : Append(v, x)[i] = v[i]
    BY <2>1
  <2> QED BY <2>1, <2>2
<1> HIDE DEF w
<1>5. \A i \in 1 .. n + 2 - k : u[i] = w[i]
  <2> SUFFICES ASSUME NEW i \in 1 .. n + 2 - k PROVE u[i] = w[i]
    OBVIOUS
  <2>1. CASE i = n + 2 - k
    <3>1. u[i] = t[k + i - 1] /\ k + i - 1 = n + 1
      BY <1>1, <1>2, <2>1
    <3> QED BY <1>1, <1>4, <2>1, <3>1
  <2>2. CASE i # n + 2 - k
    <3>1. i \in 1 .. n + 1 - k /\ k + i - 1 \in 1 .. n
      BY <1>1, <2>2
    <3> QED BY <1>1, <1>2, <1>3, <1>4, <3>1
  <2> QED BY <2>1, <2>2
<1>6. u = w
  BY <1>2, <1>4, <1>5, SeqEqual
<1> QED BY <1>6 DEF u, v, w, t, n

\* What is visible of a journal, one event at a time.
LEMMA VisibleUnfolds ==
  ASSUME NEW M, NEW s \in Seq(EventsOf(M)), NEW e \in EventsOf(M)
  PROVE  /\ Visible(<<>>) = <<>>
         /\ Visible(Append(s, e)) = IF e.message = None THEN Visible(s) ELSE Append(Visible(s), e.message)
<1> DEFINE E == EventsOf(M)
           F == [x \in E |-> IF x.message = None THEN <<>> ELSE <<x.message>>]
<1>1. \A x \in E : x.message = None \/ x.message \in M
  BY DEF EventsOf
<1> HIDE DEF E
<1>2. s \in Seq(E) /\ e \in E
  BY DEF E
<1>3. F \in ToSeqs(E, M)
  BY <1>1 DEF ToSeqs
<1>4. \A q \in Seq(E) : Visible(q) = FlatMap(q, F)
  <2> SUFFICES ASSUME NEW q \in Seq(E) PROVE Visible(q) = FlatMap(q, F)
    OBVIOUS
  <2>1. \A i \in DOMAIN q : q[i] \in E
    OBVIOUS
  <2>2. [i \in DOMAIN q |-> IF q[i].message = None THEN <<>> ELSE <<q[i].message>>]
          = [i \in DOMAIN q |-> F[q[i]]]
    BY <2>1
  <2> HIDE DEF F
  <2> QED BY <2>2, Zenon DEF Visible, Each, FlatMap
<1>5. F[e] = IF e.message = None THEN <<>> ELSE <<e.message>>
  BY <1>2
<1> HIDE DEF F
<1>6. FlatMap(<<>>, F) = <<>> /\ FlatMap(s, F) \in Seq(M) /\ FlatMap(Append(s, e), F) = FlatMap(s, F) \o F[e]
  BY <1>2, <1>3, FlatMapUnfolds
<1>7. Append(s, e) \in Seq(E) /\ <<>> \in Seq(E)
  BY <1>2
<1>8. \A u \in Seq(M) : u \o <<>> = u /\ \A m \in M : u \o <<m>> = Append(u, m)
  OBVIOUS
<1> QED BY <1>1, <1>2, <1>4, <1>5, <1>6, <1>7, <1>8, Zenon

\* The latest compaction lies behind what it puts away.
LEMMA LatestTypes ==
  ASSUME NEW M, NEW s \in Seq(EventsOf(M))
  PROVE  /\ LatestCompaction(s) \in 0 .. Len(s)
         /\ LatestCompaction(s) # 0 =>
              /\ s[LatestCompaction(s)].type = "context.compacted"
              /\ s[LatestCompaction(s)].through \in 1 .. LatestCompaction(s) - 1
              /\ s[LatestCompaction(s)].summary \in M
<1> DEFINE S == {i \in DOMAIN s :
                   /\ s[i].type = "context.compacted"
                   /\ s[i].through \in 1 .. i - 1
                   /\ UnpairedToolCalls(s, s[i].through) = {}}
           E == EventsOf(M)
<1>1. Len(s) \in Nat /\ DOMAIN s = 1 .. Len(s) /\ \A i \in 1 .. Len(s) : s[i] \in E
  OBVIOUS
<1>2. LatestCompaction(s) = Max(S \cup {0})
  BY DEF LatestCompaction, Greatest
<1>3. S \cup {0} \in SUBSET (0 .. Len(s)) /\ S \cup {0} # {}
  BY <1>1
<1>4. \A i \in S : s[i].type = "context.compacted" /\ s[i].through \in 1 .. i - 1 /\ i \in 1 .. Len(s)
  BY <1>1
<1> HIDE DEF S
<1>5. Max(S \cup {0}) \in S \cup {0}
  BY <1>1, <1>3, MaxIsGreatest
<1>6. \A e \in E : e.type = "context.compacted" => e.summary \in M
  BY DEF EventsOf
<1> HIDE DEF E
<1> QED BY <1>1, <1>2, <1>3, <1>4, <1>5, <1>6

\* It stays so when something else is recorded.
LEMMA LatestStays ==
  ASSUME NEW A, NEW s \in Seq(A), NEW e \in A, e.type # "context.compacted"
  PROVE  LatestCompaction(Append(s, e)) = LatestCompaction(s)
<1> DEFINE t == Append(s, e)
           n == Len(s)
           Takes(q, i) == /\ q[i].type = "context.compacted"
                          /\ q[i].through \in 1 .. i - 1
                          /\ UnpairedToolCalls(q, q[i].through) = {}
<1>1. n \in Nat /\ DOMAIN s = 1 .. n /\ DOMAIN t = 1 .. n + 1 /\ t[n + 1] = e
      /\ \A i \in 1 .. n : t[i] = s[i]
  OBVIOUS
<1>2. ASSUME NEW k \in Nat, k <= n PROVE UnpairedToolCalls(t, k) = UnpairedToolCalls(s, k)
  <2>1. SubSeq(t, 1, k) = SubSeq(s, 1, k)
    BY <1>2, PrefixStays
  <2> QED BY <2>1, Zenon DEF UnpairedToolCalls
<1> HIDE DEF t, n
<1>3. ASSUME NEW i \in 1 .. n PROVE Takes(t, i) <=> Takes(s, i)
  <2>1. t[i] = s[i]
    BY <1>1
  <2>2. s[i].through \in 1 .. i - 1 => s[i].through \in Nat /\ s[i].through <= n
    BY <1>1
  <2> QED BY <1>2, <2>1, <2>2, Zenon
<1>4. ~Takes(t, n + 1)
  BY <1>1
<1> HIDE DEF Takes
<1>5. {i \in DOMAIN t : Takes(t, i)} = {i \in DOMAIN s : Takes(s, i)}
  BY <1>1, <1>3, <1>4
<1> QED BY <1>5, Zenon DEF LatestCompaction, Takes, t

\* The parts of a projection, and their types.
Before(events, inherited) ==
  LET latest == LatestCompaction(events)
  IN  IF latest = 0 THEN inherited
      ELSE IF events[latest].scope = "including_inherited"
      THEN <<events[latest].summary>>
      ELSE Append(inherited, events[latest].summary)
Start(events) ==
  LET latest == LatestCompaction(events)
  IN  IF latest = 0 THEN 1 ELSE events[latest].through + 1

\* A projected context is the messages before its start and those since.
LEMMA ProjectTypes ==
  ASSUME NEW s \in Seq(EventsOf(Messages)), NEW inherited \in Seq(Messages)
  PROVE  /\ Before(s, inherited) \in Seq(Messages)
         /\ Start(s) \in Nat \ {0} /\ Start(s) <= Len(s) + 1
         /\ Visible(SubSeq(s, Start(s), Len(s))) \in Seq(Messages)
         /\ ProjectContext(s, inherited)
              = SupersedeToolResults(Before(s, inherited) \o Visible(SubSeq(s, Start(s), Len(s))))
         /\ ProjectContext(s, inherited) \in Seq(Messages)
<1> DEFINE M == Messages
           E == EventsOf(M)
           latest == LatestCompaction(s)
<1>1. /\ latest \in 0 .. Len(s) /\ Len(s) \in Nat
      /\ latest # 0 => s[latest].through \in 1 .. latest - 1 /\ s[latest].summary \in M
  BY LatestTypes
<1>2. s \in Seq(E) /\ inherited \in Seq(M)
  OBVIOUS
<1> HIDE DEF latest, M, E
<1>3. Start(s) \in Nat \ {0} /\ Start(s) <= Len(s) + 1
  BY <1>1 DEF Start, latest
<1>4. Before(s, inherited) \in Seq(M)
  <2>1. latest # 0 => <<s[latest].summary>> \in Seq(M) /\ Append(inherited, s[latest].summary) \in Seq(M)
    BY <1>1, <1>2
  <2> QED BY <1>2, <2>1 DEF Before, latest
<1>5. SubSeq(s, Start(s), Len(s)) \in Seq(E)
  <2>1. \A i \in Start(s) .. Len(s) : i \in 1 .. Len(s)
    BY <1>1, <1>3
  <2> QED BY <1>1, <1>2, <1>3, <2>1
<1>6. Visible(SubSeq(s, Start(s), Len(s))) \in Seq(M)
  BY <1>5, VisibleTypes DEF E
<1>7. ProjectContext(s, inherited)
        = SupersedeToolResults(Before(s, inherited) \o Visible(SubSeq(s, Start(s), Len(s))))
  BY Zenon DEF ProjectContext, Before, Start
<1>8. Before(s, inherited) \o Visible(SubSeq(s, Start(s), Len(s))) \in Seq(M)
  BY <1>4, <1>6
<1> QED BY <1>3, <1>4, <1>6, <1>7, <1>8, SupersedeUnfolds DEF M

\* A projection is one message longer, or as before.
LEMMA ProjectGrows ==
  ASSUME NEW s \in Seq(EventsOf(Messages)), NEW inherited \in Seq(Messages),
         NEW e \in EventsOf(Messages), e.type # "context.compacted"
  PROVE  ProjectContext(Append(s, e), inherited)
           = SupersedeToolResults(IF e.message = None THEN ProjectContext(s, inherited)
                                  ELSE Append(ProjectContext(s, inherited), e.message))
<1> DEFINE M == Messages
           E == EventsOf(M)
           t == Append(s, e)
           b == Before(s, inherited)
           k == Start(s)
           q == SubSeq(s, k, Len(s))
           v == Visible(q)
           X == b \o v
<1>1. s \in Seq(E) /\ e \in E /\ inherited \in Seq(M) /\ Len(s) \in Nat
  OBVIOUS
<1>2. b \in Seq(M) /\ v \in Seq(M) /\ k \in Nat \ {0} /\ k <= Len(s) + 1
      /\ ProjectContext(s, inherited) = SupersedeToolResults(X)
  BY ProjectTypes
<1> HIDE DEF M, E
<1>3. t \in Seq(E)
  BY <1>1
<1>4. LatestCompaction(t) = LatestCompaction(s)
  BY <1>1, LatestStays
<1>5. Before(t, inherited) = b /\ Start(t) = k
  <2> DEFINE l == LatestCompaction(s)
  <2>1. l \in 0 .. Len(s)
    BY <1>1, LatestTypes DEF E
  <2>2. l # 0 => t[l] = s[l]
    <3> HIDE DEF l
    <3> QED BY <1>1, <2>1
  <2> HIDE DEF t
  <2> QED BY <1>4, <2>2 DEF Before, Start
<1> HIDE DEF k, b
<1>6. SubSeq(t, k, Len(t)) = Append(q, e)
  BY <1>1, <1>2, RestGrows
<1>7. q \in Seq(E)
  <2>1. \A i \in k .. Len(s) : i \in 1 .. Len(s)
    BY <1>1, <1>2
  <2> QED BY <1>1, <1>2, <2>1
<1> HIDE DEF q
<1>8. Visible(Append(q, e)) = IF e.message = None THEN v ELSE Append(v, e.message)
  BY <1>1, <1>7, VisibleUnfolds DEF E
<1>9. ProjectContext(t, inherited) = SupersedeToolResults(b \o Visible(Append(q, e)))
  <2>1. ProjectContext(t, inherited)
          = SupersedeToolResults(Before(t, inherited) \o Visible(SubSeq(t, Start(t), Len(t))))
    BY <1>1, <1>3, ProjectTypes DEF E, M
  <2> HIDE DEF t
  <2> QED BY <1>5, <1>6, <2>1, Zenon
<1>10. e.message = None \/ e.message \in M
  BY <1>1 DEF E, EventsOf
<1> HIDE DEF t, v
<1>11. X \in Seq(M) /\ \A m \in M : b \o Append(v, m) = Append(X, m)
  BY <1>2
<1>12. ProjectContext(t, inherited)
         = IF e.message = None THEN SupersedeToolResults(X) ELSE SupersedeToolResults(Append(X, e.message))
  BY <1>8, <1>9, <1>10, <1>11, Zenon
<1>13. /\ SupersedeToolResults(SupersedeToolResults(X)) = SupersedeToolResults(X)
       /\ \A m \in M : SupersedeToolResults(Append(SupersedeToolResults(X), m))
                         = SupersedeToolResults(Append(X, m))
  BY <1>11, SupersedeTwice DEF M
<1> HIDE DEF X
<1>14. ProjectContext(t, inherited)
         = SupersedeToolResults(IF e.message = None THEN SupersedeToolResults(X)
                                ELSE Append(SupersedeToolResults(X), e.message))
  <2>1. CASE e.message = None
    BY <1>12, <1>13, <2>1
  <2>2. CASE e.message # None
    <3>1. e.message \in M
      BY <1>10, <2>2
    <3> QED BY <1>12, <1>13, <2>2, <3>1
  <2> QED BY <2>1, <2>2
<1> QED BY <1>2, <1>14, Zenon DEF t

-----------------------------------------------------------------------------
(* What sessions inherit.                                                   *)

Inherits(g, journals, forks, n) ==
  g = [s \in 1 .. n |-> IF s = 1 THEN <<>>
                        ELSE ProjectContext(ForkEvents(journals, forks, s), g[s - 1])]

\* Inherited is what its definition says.
LEMMA InheritedUnfolds ==
  ASSUME NEW journals, NEW forks, NEW s \in Sessions
  PROVE  Inherited(journals, forks)[s]
           = IF s = 1 THEN <<>>
             ELSE ProjectContext(ForkEvents(journals, forks, s), Inherited(journals, forks)[s - 1])
<1> DEFINE Body(g, t) == IF t = 1 THEN <<>>
                         ELSE ProjectContext(ForkEvents(journals, forks, t), g[t - 1])
           P == {n \in Nat : \E g : Inherits(g, journals, forks, n)}
<1>1. 0 \in P
  <2>1. Inherits([t \in 1 .. 0 |-> <<>>], journals, forks, 0)
    BY DEF Inherits
  <2> QED BY <2>1
<1>2. ASSUME NEW n \in Nat, n \in P PROVE n + 1 \in P
  <2>1. PICK g : Inherits(g, journals, forks, n)
    BY <1>2
  <2> DEFINE h == [t \in 1 .. n + 1 |-> Body(g, t)]
  <2>2. \A t \in 1 .. n + 1 : t # 1 => t - 1 \in 1 .. n /\ t - 1 \in 1 .. n + 1
    OBVIOUS
  <2>3. \A t \in 1 .. n : h[t] = g[t]
    <3>1. g = [t \in 1 .. n |-> Body(g, t)]
      BY <2>1, Zenon DEF Inherits
    <3> HIDE DEF Body
    <3>2. \A t \in 1 .. n : g[t] = Body(g, t)
      BY <3>1
    <3> QED BY <3>2
  <2>4. \A t \in 1 .. n + 1 : Body(g, t) = Body(h, t)
    <3> HIDE DEF h
    <3> QED BY <2>2, <2>3
  <2>5. h = [t \in 1 .. n + 1 |-> Body(h, t)]
    <3> HIDE DEF Body
    <3> QED BY <2>4
  <2>6. Inherits(h, journals, forks, n + 1)
    <3> HIDE DEF h
    <3> QED BY <2>5, Zenon DEF Inherits
  <2> QED BY <2>6
<1>3. Nat \subseteq P
  <2> HIDE DEF P
  <2> QED BY <1>1, <1>2, NatInduct
<1> DEFINE I == Inherited(journals, forks)
<1>4. Inherits(I, journals, forks, Depth)
  <2>1. \E g : Inherits(g, journals, forks, Depth)
    BY <1>3, ContextAssumption
  <2>2. I = CHOOSE g : Inherits(g, journals, forks, Depth)
    BY Zenon DEF Inherited, Inherits, Sessions
  <2> QED BY <2>1, <2>2, Zenon
<1>5. I = [t \in 1 .. Depth |-> Body(I, t)]
  BY <1>4, Zenon DEF Inherits
<1>6. I[s] = Body(I, s)
  <2> HIDE DEF Body, I
  <2> QED BY <1>5 DEF Sessions
<1> QED BY <1>6, Zenon

\* What begun sessions inherit are messages, of sessions that are begun.
LEMMA InheritedTypes ==
  ASSUME TypeOK
  PROVE  \A s \in Sessions : Begun(s) =>
           /\ Inherited(journal, fork)[s] \in Seq(Messages)
           /\ s # 1 => /\ s - 1 \in Sessions /\ Begun(s - 1)
                       /\ fork[s] \in Nat /\ fork[s] <= Len(journal[s - 1])
<1> DEFINE I == Inherited(journal, fork)
           P == {n \in Nat : n \in Sessions /\ Begun(n) => I[n] \in Seq(Messages)}
<1>1. ASSUME NEW s \in Sessions, Begun(s), s # 1
      PROVE  /\ s - 1 \in Sessions /\ Begun(s - 1)
             /\ fork[s] \in Nat /\ fork[s] <= Len(journal[s - 1])
             /\ journal[s - 1] \in Seq(EventsOf(Messages))
             /\ ForkEvents(journal, fork, s) \in Seq(EventsOf(Messages))
  <2> DEFINE Event == EventsOf(Messages)
             j == journal[s - 1]
  <2>1. s - 1 \in Sessions
    BY <1>1, ContextAssumption DEF Sessions
  <2>2. fork[s] \in DOMAIN j /\ j \in Seq(Event)
    BY <1>1, <2>1 DEF TypeOK, Begun
  <2> HIDE DEF Event, j
  <2>3. fork[s] \in Nat /\ fork[s] <= Len(j) /\ fork[s] \in 1 .. Len(j) /\ Len(j) \in Nat /\ j # <<>>
    BY <2>2
  <2>4. SubSeq(j, 1, fork[s]) \in Seq(Event)
    BY <2>2, <2>3
  <2> QED BY <2>1, <2>2, <2>3, <2>4 DEF j, Event, Begun, ForkEvents
<1> HIDE DEF I
<1>2. 0 \in P
  BY ContextAssumption DEF Sessions
<1>3. ASSUME NEW n \in Nat, n \in P PROVE n + 1 \in P
  <2> SUFFICES ASSUME n + 1 \in Sessions, Begun(n + 1) PROVE I[n + 1] \in Seq(Messages)
    OBVIOUS
  <2>1. I[n + 1] = IF n + 1 = 1 THEN <<>>
                   ELSE ProjectContext(ForkEvents(journal, fork, n + 1), I[(n + 1) - 1])
    BY InheritedUnfolds DEF I
  <2>2. CASE n = 0
    <3>1. <<>> \in Seq(Messages)
      OBVIOUS
    <3> QED BY <2>1, <2>2, <3>1
  <2>3. CASE n # 0
    <3>1. n + 1 # 1 /\ (n + 1) - 1 = n
      BY <2>3
    <3>2. n \in Sessions /\ Begun(n) /\ ForkEvents(journal, fork, n + 1) \in Seq(EventsOf(Messages))
      BY <1>1, <3>1
    <3>3. I[n] \in Seq(Messages)
      BY <1>3, <3>2
    <3>4. ProjectContext(ForkEvents(journal, fork, n + 1), I[n]) \in Seq(Messages)
      BY <3>2, <3>3, ProjectTypes
    <3> QED BY <2>1, <3>1, <3>4
  <2> QED BY <2>2, <2>3
<1>4. Nat \subseteq P
  <2> HIDE DEF P
  <2> QED BY <1>2, <1>3, NatInduct
<1>5. \A s \in Sessions : s \in Nat
  BY DEF Sessions
<1> QED BY <1>1, <1>4, <1>5 DEF I

\* What a step does to the sessions that are begun.
Grows(s) ==
  /\ fork'[s] = fork[s]
  /\ journal'[s] = journal[s]
     \/ \E e \in EventsOf(Messages) : journal'[s] = Append(journal[s], e)

\* A step appends at most one event to a begun session and never forks it again.
LEMMA StepGrows ==
  ASSUME TypeOK, [Next]_vars, NEW s \in Sessions, Begun(s)
  PROVE  Grows(s)
<1> DEFINE Event == EventsOf(Messages)
<1> HIDE DEF Event
<1>0. journal \in [Sessions -> Seq(Event)] /\ fork \in [Sessions -> Nat]
  BY DEF TypeOK, Event
<1>1. ASSUME NEW t \in Sessions, NEW e \in Event, Record(t, e), UNCHANGED fork PROVE Grows(s)
  BY <1>0, <1>1 DEF Record, Grows, Event
<1>2. ASSUME NEW t \in Sessions, Say(t) PROVE Grows(s)
  <2>1. PICK m \in Inputs : Record(t, Appended(m))
    BY <1>2 DEF Say
  <2>2. Appended(m) \in Event
    BY ContextAssumption, EventTypes DEF Messages, Event
  <2> QED BY <1>1, <1>2, <2>1, <2>2 DEF Say
<1>3. ASSUME NEW t \in Sessions, Answer(t) PROVE Grows(s)
  <2>1. PICK a \in Whole : Record(t, Appended(Normalized(a.provider, a.wire, a.options)))
    BY <1>3 DEF Answer
  <2>2. Appended(Normalized(a.provider, a.wire, a.options)) \in Event
    BY AnswerTypes, EventTypes DEF Event
  <2> QED BY <1>1, <1>3, <2>1, <2>2 DEF Answer
<1>4. ASSUME NEW t \in Sessions, Settle(t) PROVE Grows(s)
  <2>1. PICK id \in Calls(t), content \in {Pending, Settled} :
          Record(t, Appended(Message("tool", <<ToolResult(id, content)>>)))
    BY <1>4, Zenon DEF Settle
  <2>2. Appended(Message("tool", <<ToolResult(id, content)>>)) \in Event
    BY SettledTypes, EventTypes DEF Event
  <2> QED BY <1>1, <1>4, <2>1, <2>2 DEF Settle
<1>5. ASSUME NEW t \in Sessions, Compact(t) PROVE Grows(s)
  <2>1. PICK through \in DOMAIN journal[t], scope \in {"local", "including_inherited"} :
          Record(t, Compaction(through, Summary, scope))
    BY <1>5 DEF Compact
  <2>2. through \in Nat
    BY <1>0
  <2>3. Compaction(through, Summary, scope) \in Event
    BY <2>2, ContextAssumption, EventTypes DEF Messages, Event
  <2> QED BY <1>1, <1>5, <2>1, <2>3 DEF Compact
<1>6. ASSUME NEW t \in Sessions, Fork(t) PROVE Grows(s)
  <2>1. /\ journal[t] = <<>> /\ t # s /\ t - 1 \in Sessions
        /\ fork' = [fork EXCEPT ![t] = Len(journal[t - 1])]
        /\ journal' = [journal EXCEPT ![t] = <<Trace("session.started")>>,
                                      ![t - 1] = Append(@, Trace("child.started"))]
    BY <1>6, ContextAssumption DEF Fork, Begun, Sessions
  <2>2. Trace("child.started") \in Event
    BY EventTypes DEF Event
  <2>3. fork'[s] = fork[s]
    BY <1>0, <2>1
  <2>4. CASE s = t - 1
    <3>1. journal'[s] = Append(journal[s], Trace("child.started"))
      BY <1>0, <2>1, <2>4
    <3> QED BY <2>2, <2>3, <3>1 DEF Grows, Event
  <2>5. CASE s # t - 1
    <3>1. journal'[s] = journal[s]
      BY <1>0, <2>1, <2>5
    <3> QED BY <2>3, <3>1 DEF Grows
  <2> QED BY <2>4, <2>5
<1>7. CASE Open \/ Receive \/ Cut \/ EndOfBody \/ UNCHANGED vars
  BY <1>7 DEF Open, Receive, Cut, EndOfBody, vars, Grows
<1>8. CASE Complete
  <2>1. PICK m \in Messages : UNCHANGED fork /\ (Record(1, Appended(m)) \/ UNCHANGED journal)
    BY <1>8, CompleteTypes
  <2>2. CASE Record(1, Appended(m))
    <3>1. Appended(m) \in Event /\ 1 \in Sessions
      BY EventTypes, ContextAssumption DEF Event, Sessions
    <3> QED BY <1>1, <2>1, <2>2, <3>1
  <2>3. CASE UNCHANGED journal
    BY <2>1, <2>3 DEF Grows
  <2> QED BY <2>1, <2>2, <2>3
<1> QED BY <1>2, <1>3, <1>4, <1>5, <1>6, <1>7, <1>8 DEF Next

\* So what a begun session inherits stays.
LEMMA InheritedStays ==
  ASSUME TypeOK, [Next]_vars
  PROVE  \A s \in Sessions : Begun(s) => Inherited(journal', fork')[s] = Inherited(journal, fork)[s]
<1> DEFINE I == Inherited(journal, fork)
           J == Inherited(journal', fork')
           P == {n \in Nat : n \in Sessions /\ Begun(n) => J[n] = I[n]}
<1>1. 0 \in P
  BY ContextAssumption DEF Sessions
<1>2. ASSUME NEW n \in Nat, n \in P PROVE n + 1 \in P
  <2> DEFINE s == n + 1
  <2> SUFFICES ASSUME s \in Sessions, Begun(s) PROVE J[s] = I[s]
    OBVIOUS
  <2>1. /\ I[s] = IF s = 1 THEN <<>> ELSE ProjectContext(ForkEvents(journal, fork, s), I[s - 1])
        /\ J[s] = IF s = 1 THEN <<>> ELSE ProjectContext(ForkEvents(journal', fork', s), J[s - 1])
    <3> HIDE DEF s
    <3>1. I[s] = IF s = 1 THEN <<>> ELSE ProjectContext(ForkEvents(journal, fork, s), I[s - 1])
      BY InheritedUnfolds, Zenon
    <3>2. J[s] = IF s = 1 THEN <<>> ELSE ProjectContext(ForkEvents(journal', fork', s), J[s - 1])
      BY InheritedUnfolds, Zenon
    <3> QED BY <3>1, <3>2, Zenon
  <2> HIDE DEF I, J
  <2>2. CASE n = 0
    BY <2>1, <2>2
  <2>3. CASE n # 0
    <3>1. s # 1 /\ s - 1 = n
      BY <2>3
    <3>2. n \in Sessions /\ Begun(n) /\ fork[s] \in Nat /\ fork[s] <= Len(journal[n])
      BY <3>1, InheritedTypes
    <3>3. Grows(n) /\ Grows(s)
      BY <3>2, StepGrows
    <3>4. journal[n] \in Seq(EventsOf(Messages))
      BY <3>2 DEF TypeOK
    <3>5. SubSeq(journal'[n], 1, fork[s]) = SubSeq(journal[n], 1, fork[s])
      <4>1. CASE journal'[n] = journal[n]
        BY <4>1
      <4>2. ASSUME NEW e \in EventsOf(Messages), journal'[n] = Append(journal[n], e)
            PROVE  SubSeq(journal'[n], 1, fork[s]) = SubSeq(journal[n], 1, fork[s])
        BY <3>2, <3>4, <4>2, PrefixStays
      <4> QED BY <3>3, <4>1, <4>2 DEF Grows
    <3>6. ForkEvents(journal', fork', s) = ForkEvents(journal, fork, s)
      BY <3>1, <3>3, <3>5 DEF ForkEvents, Grows
    <3>7. J[n] = I[n]
      BY <1>2, <3>2
    <3> QED BY <2>1, <3>1, <3>6, <3>7
  <2> QED BY <2>2, <2>3
<1>3. Nat \subseteq P
  <2> HIDE DEF P
  <2> QED BY <1>1, <1>2, NatInduct
<1>4. \A s \in Sessions : s \in Nat
  BY DEF Sessions
<1> QED BY <1>3, <1>4

\* A session's context is changed by its own events only, and by a message only
\* at its end, except for the older result of the same call: whatever happens to
\* its parent or its children, and whatever compaction was ignored.
THEOREM ContextsAdvanceAlways == Spec => ContextsAdvance
<1> DEFINE A == \A s \in Sessions : Begun(s) =>
             LET before == Shown(s)
                 after == Project(journal', fork', s)
                 event == Last(journal'[s])
             IN  IF journal'[s] = journal[s] THEN after = before
                 ELSE event.type # "context.compacted" =>
                        after = SupersedeToolResults(
                          IF event.message = None THEN before ELSE Append(before, event.message))
<1>1. TypeOK /\ [Next]_vars => A
  <2> SUFFICES ASSUME TypeOK, [Next]_vars, NEW s \in Sessions, Begun(s)
               PROVE  IF journal'[s] = journal[s]
                      THEN Project(journal', fork', s) = Shown(s)
                      ELSE Last(journal'[s]).type # "context.compacted" =>
                             Project(journal', fork', s) = SupersedeToolResults(
                               IF Last(journal'[s]).message = None THEN Shown(s)
                               ELSE Append(Shown(s), Last(journal'[s]).message))
    BY Zenon
  <2> DEFINE I == Inherited(journal, fork)[s]
             j == journal[s]
  <2>1. /\ Shown(s) = ProjectContext(j, I)
        /\ Project(journal', fork', s) = ProjectContext(journal'[s], I)
    BY InheritedStays DEF Shown, Project
  <2>2. I \in Seq(Messages) /\ j \in Seq(EventsOf(Messages))
    BY InheritedTypes DEF TypeOK
  <2> HIDE DEF I, j
  <2>3. CASE journal'[s] = journal[s]
    BY <2>1, <2>3 DEF j
  <2>4. ASSUME NEW e \in EventsOf(Messages), journal'[s] = Append(journal[s], e)
        PROVE  /\ journal'[s] # journal[s] /\ Last(journal'[s]) = e
               /\ e.type # "context.compacted" =>
                    Project(journal', fork', s) = SupersedeToolResults(
                      IF e.message = None THEN Shown(s) ELSE Append(Shown(s), e.message))
    <3>1. Append(j, e) # j /\ Last(Append(j, e)) = e
      <4> DEFINE Event == EventsOf(Messages)
      <4>1. j \in Seq(Event) /\ e \in Event
        BY <2>2
      <4> HIDE DEF Event
      <4>2. Len(Append(j, e)) = Len(j) + 1 /\ Len(j) \in Nat /\ Append(j, e)[Len(j) + 1] = e
        BY <4>1
      <4>3. Len(j) + 1 # Len(j)
        BY <4>2
      <4> QED BY <4>2, <4>3, Zenon DEF Last
    <3>2. e.type # "context.compacted" =>
            ProjectContext(Append(j, e), I) = SupersedeToolResults(
              IF e.message = None THEN ProjectContext(j, I) ELSE Append(ProjectContext(j, I), e.message))
      BY <2>2, ProjectGrows
    <3>3. journal'[s] = Append(j, e)
      BY <2>4 DEF j
    <3> QED BY <2>1, <3>1, <3>2, <3>3, Zenon DEF j
  <2>5. Grows(s)
    BY StepGrows
  <2> QED BY <2>3, <2>4, <2>5 DEF Grows
<1>2. TypeOK /\ [Next]_vars => [A]_vars
  <2> HIDE DEF A
  <2> QED BY <1>1
<1>3. [][A]_vars <=> ContextsAdvance
  BY Zenon DEF ContextsAdvance
<1> HIDE DEF A
<1> QED BY <1>2, <1>3, TypeCorrect, PTL DEF Spec

-----------------------------------------------------------------------------
(* Calls and their results in messages.                                     *)

Has(messages, id) == \E i \in DOMAIN messages : Holds(messages[i], "tool_call", id)
Ordered(messages, id) ==
  \A i \in Places(messages, "tool_call", id), j \in Places(messages, "tool_result", id) : i < j
Newest(results) == IF results = <<>> THEN <<>> ELSE <<Last(results)>>

\* The blocks of a type, and the blocks with an id, of content.
OfType(type) == [b \in Blocks |-> IF b.type = type THEN <<b>> ELSE <<>>]
OfId(id) == [b \in Blocks |-> IF b.id = id THEN <<b>> ELSE <<>>]
ContentOf(type) == [m \in Messages |-> FlatMap(m.content, OfType(type))]

\* A test of blocks maps each to none or one.
LEMMA OfTypes ==
  /\ \A type : /\ OfType(type) \in ToSeqs(Blocks, Blocks)
               /\ \A b \in Blocks : OfType(type)[b] = IF b.type = type THEN <<b>> ELSE <<>>
  /\ \A id : /\ OfId(id) \in ToSeqs(Blocks, Blocks)
             /\ \A b \in Blocks : OfId(id)[b] = IF b.id = id THEN <<b>> ELSE <<>>
<1> DEFINE B == Blocks
<1> HIDE DEF B
<1>1. \A b \in B : <<b>> \in Seq(B) /\ <<>> \in Seq(B)
  OBVIOUS
<1>2. ASSUME NEW type
      PROVE  /\ [b \in B |-> IF b.type = type THEN <<b>> ELSE <<>>] \in [B -> Seq(B)]
             /\ [b \in B |-> IF b.id = type THEN <<b>> ELSE <<>>] \in [B -> Seq(B)]
  BY <1>1
<1> QED BY <1>2 DEF OfType, OfId, ToSeqs, B

\* The blocks of a type are those of the content of each message.
LEMMA BlocksInAs ==
  ASSUME NEW type
  PROVE  /\ ContentOf(type) \in ToSeqs(Messages, Blocks)
         /\ \A X \in Seq(Messages) :
              /\ BlocksIn(X, type) = FlatMap(X, ContentOf(type))
              /\ BlocksIn(X, type) \in Seq(Blocks)
<1> DEFINE M == Messages
           B == Blocks
           F == OfType(type)
<1>1. \A m \in M : m.content \in Seq(B)
  BY ContentTypes
<1>2. F \in ToSeqs(B, B) /\ \A b \in B : F[b] = IF b.type = type THEN <<b>> ELSE <<>>
  BY OfTypes
<1> HIDE DEF M, B, F
<1>3. \A c \in Seq(B) : FlatMap(c, F) \in Seq(B)
  BY <1>2, FlatMapUnfolds
<1>4. \A m \in M : FlatMap(m.content, F) \in Seq(B)
  BY <1>1, <1>3
<1>5. [m \in M |-> FlatMap(m.content, F)] \in [M -> Seq(B)]
  BY <1>4
<1>6. ContentOf(type) \in ToSeqs(M, B) /\ \A m \in M : ContentOf(type)[m] = FlatMap(m.content, F)
  BY <1>5 DEF ContentOf, ToSeqs, M, F
<1>7. ASSUME NEW c \in Seq(B) PROVE Filter(c, LAMBDA b : b.type = type) = FlatMap(c, F)
  <2>1. \A i \in DOMAIN c : c[i] \in B
    OBVIOUS
  <2>2. [i \in DOMAIN c |-> IF c[i].type = type THEN <<c[i]>> ELSE <<>>] = [i \in DOMAIN c |-> F[c[i]]]
    BY <1>2, <2>1
  <2> QED BY <2>2, Zenon DEF Filter, Each, FlatMap
<1>8. ASSUME NEW X \in Seq(M) PROVE BlocksIn(X, type) = FlatMap(X, ContentOf(type))
  <2>1. \A i \in DOMAIN X : X[i] \in M
    OBVIOUS
  <2>2. \A i \in DOMAIN X : Filter(X[i].content, LAMBDA b : b.type = type) = ContentOf(type)[X[i]]
    BY <1>1, <1>6, <1>7, <2>1, Zenon
  <2>3. [i \in DOMAIN X |-> Filter(X[i].content, LAMBDA b : b.type = type)]
          = [i \in DOMAIN X |-> ContentOf(type)[X[i]]]
    BY <2>2, Zenon
  <2> QED BY <2>3, Zenon DEF BlocksIn, Each, FlatMap
<1>9. \A X \in Seq(M) : FlatMap(X, ContentOf(type)) \in Seq(B)
  BY <1>6, FlatMapUnfolds
<1> QED BY <1>6, <1>8, <1>9 DEF M, B

\* Only a tool's message holds results, one each, and only an answer calls.
LEMMA MessageKinds ==
  ASSUME NEW m \in Messages, NEW id
  PROVE  /\ Holds(m, "tool_result", id) <=> Dropped(m, {id})
         /\ Holds(m, "tool_call", id) => m.role # "tool"
         /\ m \in PlainMessages => ~Holds(m, "tool_call", id) /\ m.role # "tool"
<1>1. CASE m.role = "tool"
  <2>1. /\ m.content \in Seq(ResultBlocks) /\ Len(m.content) = 1
        /\ m.content[1] \in ResultBlocks /\ m.content[1].type = "tool_result"
    BY <1>1, ToolTypes
  <2>2. DOMAIN m.content = {1}
    BY <2>1
  <2>3. m \notin PlainMessages
    BY <1>1 DEF PlainMessages
  <2> QED BY <1>1, <2>1, <2>2, <2>3 DEF Holds, Dropped
<1>2. CASE m.role # "tool"
  <2>1. m \notin ResultMessages
    BY <1>2 DEF ResultMessages
  <2>2. m.content \in Seq(AnswerBlocks) /\ (m \in PlainMessages => m.content \in Seq(PlainBlocks))
    <3>1. m.content \in Seq(PlainBlocks) \/ m.content \in Seq(AnswerBlocks)
      BY <2>1 DEF Messages, PlainMessages, AnswerMessages
    <3>2. PlainBlocks \subseteq AnswerBlocks
      BY DEF AnswerBlocks
    <3>3. m \in PlainMessages => m.content \in Seq(PlainBlocks)
      BY DEF PlainMessages
    <3> QED BY <3>1, <3>2, <3>3
  <2>3. \A b \in AnswerBlocks : b.type # "tool_result"
    BY DEF AnswerBlocks, PlainBlocks
  <2>4. \A b \in PlainBlocks : b.type # "tool_call"
    BY DEF PlainBlocks
  <2> DEFINE c == m.content
             A == AnswerBlocks
             Q == PlainBlocks
  <2> HIDE DEF A, Q, c
  <2>5. c \in Seq(A) => \A i \in DOMAIN c : c[i] \in A
    OBVIOUS
  <2>6. c \in Seq(Q) => \A i \in DOMAIN c : c[i] \in Q
    OBVIOUS
  <2> QED BY <1>2, <2>2, <2>3, <2>4, <2>5, <2>6 DEF Holds, Dropped, A, Q, c
<1> QED BY <1>1, <1>2

\* The blocks of a type that messages hold.
LEMMA BlocksHeld ==
  ASSUME NEW X \in Seq(Messages), NEW type, NEW id
  PROVE  (\E i \in DOMAIN BlocksIn(X, type) : BlocksIn(X, type)[i].id = id)
           <=> \E i \in DOMAIN X : Holds(X[i], type, id)
<1> DEFINE B == Blocks
           M == Messages
           F == OfType(type)
           C == ContentOf(type)
<1>1. F \in ToSeqs(B, B) /\ \A b \in B : F[b] = IF b.type = type THEN <<b>> ELSE <<>>
  BY OfTypes
<1>2. C \in ToSeqs(M, B) /\ BlocksIn(X, type) = FlatMap(X, C) /\ FlatMap(X, C) \in Seq(B)
      /\ \A m \in M : C[m] = FlatMap(m.content, F)
  BY BlocksInAs DEF ContentOf
<1>3. X \in Seq(M) /\ \A m \in M : m.content \in Seq(B)
  BY ContentTypes
<1> HIDE DEF B, M, F, C
<1>4. ASSUME NEW m \in M, NEW y
      PROVE  Lists(C[m], y)
               <=> \E k \in 1 .. Len(m.content) : m.content[k] = y /\ y.type = type
  <2> DEFINE c == m.content
  <2>1. c \in Seq(B) /\ C[m] = FlatMap(c, F)
    BY <1>2, <1>3
  <2> HIDE DEF c
  <2>2. Lists(FlatMap(c, F), y) <=> \E i \in 1 .. Len(c) : Lists(F[c[i]], y)
    BY <1>1, <2>1, FlatMapElements
  <2>3. ASSUME NEW i \in 1 .. Len(c)
        PROVE  Lists(F[c[i]], y) <=> c[i] = y /\ y.type = type
    <3>1. c[i] \in B
      BY <2>1
    <3>2. F[c[i]] = IF c[i].type = type THEN <<c[i]>> ELSE <<>>
      BY <1>1, <3>1
    <3>3. CASE c[i].type = type
      <4>1. \A z : Lists(<<z>>, y) <=> z = y
        BY DEF Lists
      <4> QED BY <3>2, <3>3, <4>1, Zenon
    <3>4. CASE c[i].type # type
      <4>1. ~Lists(<<>>, y)
        BY DEF Lists
      <4> QED BY <3>2, <3>4, <4>1, Zenon
    <3> QED BY <3>3, <3>4
  <2> QED BY <2>1, <2>2, <2>3, Zenon DEF c
<1>5. \A y : Lists(FlatMap(X, C), y) <=> \E i \in 1 .. Len(X) : Lists(C[X[i]], y)
  BY <1>2, <1>3, FlatMapElements
<1>6. DOMAIN X = 1 .. Len(X) /\ (\A i \in 1 .. Len(X) : X[i] \in M)
      /\ DOMAIN FlatMap(X, C) = 1 .. Len(FlatMap(X, C))
      /\ \A m \in M : DOMAIN m.content = 1 .. Len(m.content)
  BY <1>2, <1>3
<1>7. ASSUME NEW i \in DOMAIN FlatMap(X, C), FlatMap(X, C)[i].id = id
      PROVE  \E k \in DOMAIN X : Holds(X[k], type, id)
  <2> DEFINE y == FlatMap(X, C)[i]
  <2>1. y.id = id /\ Lists(FlatMap(X, C), y)
    BY <1>6, <1>7 DEF Lists
  <2> HIDE DEF y
  <2>2. PICK k \in 1 .. Len(X) : Lists(C[X[k]], y)
    BY <1>5, <2>1
  <2>3. X[k] \in M
    BY <1>6
  <2>4. \E j \in 1 .. Len(X[k].content) : X[k].content[j] = y /\ y.type = type
    BY <1>4, <2>2, <2>3
  <2> QED BY <1>6, <2>1, <2>3, <2>4 DEF Holds
<1>8. ASSUME NEW k \in DOMAIN X, Holds(X[k], type, id)
      PROVE  \E i \in DOMAIN FlatMap(X, C) : FlatMap(X, C)[i].id = id
  <2>1. X[k] \in M /\ k \in 1 .. Len(X)
    BY <1>6
  <2>2. PICK j \in DOMAIN X[k].content : X[k].content[j].type = type /\ X[k].content[j].id = id
    BY <1>8 DEF Holds
  <2> DEFINE y == X[k].content[j]
  <2>3. y.type = type /\ y.id = id /\ \E l \in 1 .. Len(X[k].content) : X[k].content[l] = y
    BY <1>6, <2>1, <2>2
  <2> HIDE DEF y
  <2>4. Lists(C[X[k]], y)
    BY <1>4, <2>1, <2>3
  <2>5. Lists(FlatMap(X, C), y)
    BY <1>5, <2>1, <2>4
  <2> QED BY <1>6, <2>3, <2>5 DEF Lists
<1>9. (\E i \in DOMAIN FlatMap(X, C) : FlatMap(X, C)[i].id = id)
        <=> \E i \in DOMAIN X : Holds(X[i], type, id)
  BY <1>7, <1>8, Zenon
<1> QED BY <1>2, <1>9, Zenon

\* The calls among the blocks of messages are the calls they hold.
LEMMA CallsHeld ==
  ASSUME NEW X \in Seq(Messages), NEW id
  PROVE  id \in IdsOf(BlocksIn(X, "tool_call")) <=> Has(X, id)
<1>1. (\E i \in DOMAIN BlocksIn(X, "tool_call") : BlocksIn(X, "tool_call")[i].id = id) <=> Has(X, id)
  BY BlocksHeld DEF Has
<1> QED BY <1>1, Zenon DEF IdsOf

\* The result of a call in a message.
Giving(id) == [m \in Messages |-> IF Dropped(m, {id}) THEN <<m.content[1]>> ELSE <<>>]

\* The results of a call in the content of one message.
LEMMA GivingTypes ==
  ASSUME NEW id
  PROVE  /\ Giving(id) \in ToSeqs(Messages, Blocks)
         /\ \A m \in Messages :
              /\ Giving(id)[m] = IF Dropped(m, {id}) THEN <<m.content[1]>> ELSE <<>>
              /\ FlatMap(ContentOf("tool_result")[m], OfId(id)) = Giving(id)[m]
<1> DEFINE M == Messages
           B == Blocks
           F == OfType("tool_result")
           G == OfId(id)
<1>1. \A m \in M : m.role = "tool" => m.content[1] \in B
  BY ToolTypes DEF Blocks
<1>2. /\ F \in ToSeqs(B, B) /\ \A b \in B : F[b] = IF b.type = "tool_result" THEN <<b>> ELSE <<>>
      /\ G \in ToSeqs(B, B) /\ \A b \in B : G[b] = IF b.id = id THEN <<b>> ELSE <<>>
  BY OfTypes
<1>3. \A m \in M : m.content \in Seq(B)
  BY ContentTypes
<1>4. \A m \in M : m.role = "tool" =>
        /\ Len(m.content) = 1 /\ m.content[1].type = "tool_result" /\ m.content[1] \in B
        /\ m.content \in Seq(B)
  BY <1>1, <1>3, ToolTypes
<1>5. \A m \in M : ContentOf("tool_result")[m] = FlatMap(m.content, F)
  BY DEF ContentOf
<1>6. \A m \in M : \A y : m.role # "tool" => ~Holds(m, "tool_result", y)
  BY MessageKinds DEF Dropped
<1> HIDE DEF M, B, F, G
<1>7. \A m \in M : Dropped(m, {id}) => m.content[1] \in B
  BY <1>1 DEF Dropped
<1>8. [m \in M |-> IF Dropped(m, {id}) THEN <<m.content[1]>> ELSE <<>>] \in [M -> Seq(B)]
  BY <1>7
<1>9. Giving(id) \in ToSeqs(M, B)
      /\ \A m \in M : Giving(id)[m] = IF Dropped(m, {id}) THEN <<m.content[1]>> ELSE <<>>
  BY <1>8 DEF Giving, ToSeqs, M, B
<1>10. FlatMap(<<>>, F) = <<>> /\ FlatMap(<<>>, G) = <<>>
  <2>1. <<>> \in Seq(B)
    OBVIOUS
  <2> QED BY <1>2, <2>1, FlatMapUnfolds
<1>11. ASSUME NEW m \in M PROVE FlatMap(FlatMap(m.content, F), G) = Giving(id)[m]
  <2> DEFINE b == m.content[1]
             c == m.content
  <2>1. CASE m.role = "tool"
    <3>1. c = <<b>> /\ b \in B /\ b.type = "tool_result"
      <4>1. b \in B /\ b.type = "tool_result" /\ c \in Seq(B) /\ Len(c) = 1
        BY <1>4, <2>1
      <4>2. c = <<c[1]>>
        <5> HIDE DEF c
        <5> QED BY <4>1
      <4> QED BY <4>1, <4>2
    <3> HIDE DEF b, c
    <3>2. FlatMap(<<b>>, F) = F[b] /\ FlatMap(<<b>>, G) = G[b]
      BY <1>2, <3>1, FlatMapOfOne
    <3>3. F[b] = <<b>> /\ G[b] = IF b.id = id THEN <<b>> ELSE <<>>
      BY <1>2, <3>1
    <3>4. Dropped(m, {id}) <=> b.id = id
      BY <2>1 DEF Dropped, b
    <3> QED BY <1>9, <3>1, <3>2, <3>3, <3>4, Zenon DEF b, c
  <2>2. CASE m.role # "tool"
    <3>1. c \in Seq(B) /\ \A i \in 1 .. Len(c) : c[i] \in B /\ c[i].type # "tool_result"
      <4>1. c \in Seq(B)
        BY <1>3
      <4>2. \A i \in DOMAIN c : c[i].type # "tool_result"
        BY <1>6, <2>2 DEF Holds
      <4> HIDE DEF c
      <4> QED BY <4>1, <4>2
    <3> HIDE DEF c
    <3>2. \A i \in 1 .. Len(c) : F[c[i]] = <<>>
      BY <1>2, <3>1
    <3>3. \A y : ~Lists(FlatMap(c, F), y)
      <4>1. \A y : Lists(FlatMap(c, F), y) <=> \E i \in 1 .. Len(c) : Lists(F[c[i]], y)
        BY <1>2, <3>1, FlatMapElements
      <4>2. \A y : ~Lists(<<>>, y)
        BY DEF Lists
      <4> QED BY <3>2, <4>1, <4>2, Zenon
    <3>4. FlatMap(c, F) = <<>>
      <4> DEFINE u == FlatMap(c, F)
      <4>1. u \in Seq(B)
        BY <1>2, <3>1, FlatMapUnfolds
      <4> HIDE DEF u
      <4>2. ~\E p \in 1 .. Len(u) : TRUE
        BY <3>3 DEF Lists, u
      <4>3. u = <<>>
        BY <4>1, <4>2
      <4> QED BY <4>3 DEF u
    <3>5. ~Dropped(m, {id})
      BY <2>2 DEF Dropped
    <3> QED BY <1>9, <1>10, <3>4, <3>5, Zenon DEF c
  <2> QED BY <2>1, <2>2
<1> QED BY <1>5, <1>9, <1>11, Zenon DEF M, B, F, G

\* The results of a call are those of each message.
LEMMA ResultsAs ==
  ASSUME NEW X \in Seq(Messages), NEW id
  PROVE  ResultsIn(X, id) = FlatMap(X, Giving(id))
<1> DEFINE M == Messages
           B == Blocks
           C == ContentOf("tool_result")
           G == OfId(id)
           s == [i \in DOMAIN X |-> C[X[i]]]
<1>1. C \in ToSeqs(M, B) /\ BlocksIn(X, "tool_result") = FlatMap(X, C) /\ FlatMap(X, C) \in Seq(B)
  BY BlocksInAs
<1>2. G \in ToSeqs(B, B) /\ \A b \in B : G[b] = IF b.id = id THEN <<b>> ELSE <<>>
  BY OfTypes
<1>3. \A m \in M : FlatMap(C[m], G) = Giving(id)[m]
  BY GivingTypes
<1>4. X \in Seq(M)
  OBVIOUS
<1> HIDE DEF M, B, C, G
<1>5. \A u \in Seq(B) : Filter(u, LAMBDA b : b.id = id) = FlatMap(u, G)
  <2> SUFFICES ASSUME NEW u \in Seq(B) PROVE Filter(u, LAMBDA b : b.id = id) = FlatMap(u, G)
    OBVIOUS
  <2>1. \A i \in DOMAIN u : u[i] \in B
    OBVIOUS
  <2>2. [i \in DOMAIN u |-> IF u[i].id = id THEN <<u[i]>> ELSE <<>>] = [i \in DOMAIN u |-> G[u[i]]]
    BY <1>2, <2>1
  <2> QED BY <2>2, Zenon DEF Filter, Each, FlatMap
<1>6. s \in Seq(Seq(B))
  <2> DEFINE W == Seq(B)
  <2>1. \A i \in DOMAIN X : C[X[i]] \in W
    BY <1>1, <1>4 DEF ToSeqs
  <2> HIDE DEF W
  <2>2. [i \in DOMAIN X |-> C[X[i]]] \in Seq(W)
    BY <1>4, <2>1
  <2> QED BY <2>2 DEF W
<1>7. FlattenSeq([i \in DOMAIN s |-> FlatMap(s[i], G)]) = FlatMap(FlattenSeq(s), G)
  <2> HIDE DEF s
  <2> QED BY <1>2, <1>6, FlatMapFlatten
<1>8. [i \in DOMAIN s |-> FlatMap(s[i], G)] = [i \in DOMAIN X |-> Giving(id)[X[i]]]
  <2>1. \A i \in DOMAIN X : X[i] \in M
    BY <1>4
  <2>2. DOMAIN s = DOMAIN X /\ \A i \in DOMAIN X : FlatMap(s[i], G) = Giving(id)[X[i]]
    BY <1>3, <2>1
  <2> HIDE DEF s
  <2> QED BY <2>2, Zenon
<1>9. FlatMap(X, C) = FlattenSeq(s)
  BY Zenon DEF FlatMap
<1>10. ResultsIn(X, id) = FlatMap(FlatMap(X, C), G)
  BY <1>1, <1>5, Zenon DEF ResultsIn
<1> HIDE DEF s
<1> QED BY <1>7, <1>8, <1>9, <1>10, Zenon DEF FlatMap

\* Results, calls and their order in messages joined.
LEMMA JoinedMessages ==
  ASSUME NEW X \in Seq(Messages), NEW Y \in Seq(Messages), NEW id
  PROVE  /\ X \o Y \in Seq(Messages)
         /\ ResultsIn(X, id) \in Seq(Blocks)
         /\ ResultsIn(X \o Y, id) = ResultsIn(X, id) \o ResultsIn(Y, id)
         /\ Has(X \o Y, id) <=> Has(X, id) \/ Has(Y, id)
         /\ ResultsIn(X, id) # <<>> <=> \E i \in DOMAIN X : Holds(X[i], "tool_result", id)
         /\ Ordered(X \o Y, id) =>
              /\ Ordered(X, id) /\ Ordered(Y, id)
              /\ Has(Y, id) => ResultsIn(X, id) = <<>>
<1> DEFINE M == Messages
           B == Blocks
           F == Giving(id)
           Z == X \o Y
           m == Len(X)
           n == Len(Y)
<1>1. F \in ToSeqs(M, B)
      /\ \A x \in M : F[x] = IF Dropped(x, {id}) THEN <<x.content[1]>> ELSE <<>>
  BY GivingTypes
<1>2. /\ X \in Seq(M) /\ Y \in Seq(M)
      /\ \A u \in Seq(M) : ResultsIn(u, id) = FlatMap(u, F)
  BY ResultsAs
<1>3. \A x \in M : Holds(x, "tool_result", id) <=> Dropped(x, {id})
  BY MessageKinds
<1> HIDE DEF M, B, F
<1>4. /\ Z \in Seq(M) /\ m \in Nat /\ n \in Nat /\ DOMAIN X = 1 .. m /\ DOMAIN Y = 1 .. n
      /\ DOMAIN Z = 1 .. m + n
      /\ \A i \in 1 .. m : Z[i] = X[i]
      /\ \A i \in 1 .. n : Z[m + i] = Y[i]
      /\ \A i \in 1 .. m : X[i] \in M
  BY <1>2
<1>5. ResultsIn(X, id) \in Seq(B) /\ ResultsIn(Z, id) = ResultsIn(X, id) \o ResultsIn(Y, id)
  <2>1. FlatMap(X, F) \in Seq(B) /\ FlatMap(Z, F) = FlatMap(X, F) \o FlatMap(Y, F)
    <3>1. FlatMap(X, F) \in Seq(B)
      BY <1>1, <1>2, FlatMapUnfolds
    <3>2. FlatMap(Z, F) = FlatMap(X, F) \o FlatMap(Y, F)
      BY <1>1, <1>2, FlatMapConcat
    <3> QED BY <3>1, <3>2
  <2> HIDE DEF Z
  <2> QED BY <1>2, <1>4, <2>1
<1> HIDE DEF Z, m, n
<1>6. ResultsIn(X, id) # <<>> <=> \E i \in DOMAIN X : Holds(X[i], "tool_result", id)
  <2>1. \A y : Lists(FlatMap(X, F), y) <=> \E i \in 1 .. Len(X) : Lists(F[X[i]], y)
    BY <1>1, <1>2, FlatMapElements
  <2>2. ResultsIn(X, id) # <<>> <=> \E y : Lists(FlatMap(X, F), y)
    <3> DEFINE u == FlatMap(X, F)
    <3>1. u \in Seq(B) /\ ResultsIn(X, id) = u
      BY <1>2, <1>5
    <3> HIDE DEF u
    <3>2. u # <<>> <=> \E p \in 1 .. Len(u) : TRUE
      BY <3>1
    <3>3. (\E y : Lists(u, y)) <=> \E p \in 1 .. Len(u) : TRUE
      BY DEF Lists
    <3> QED BY <3>1, <3>2, <3>3 DEF u
  <2>3. \A x \in M : (\E y : Lists(F[x], y)) <=> Dropped(x, {id})
    <3>1. \A z : Lists(<<z>>, z)
      BY DEF Lists
    <3>2. \A y : ~Lists(<<>>, y)
      BY DEF Lists
    <3> QED BY <1>1, <3>1, <3>2, Zenon
  <2>4. \A i \in 1 .. Len(X) : (\E y : Lists(F[X[i]], y)) <=> Holds(X[i], "tool_result", id)
    BY <1>3, <1>4, <2>3 DEF m
  <2> QED BY <1>4, <2>1, <2>2, <2>4, Zenon DEF m
<1>7. Has(Z, id) <=> Has(X, id) \/ Has(Y, id)
  <2>1. ASSUME NEW i \in DOMAIN Z, Holds(Z[i], "tool_call", id) PROVE Has(X, id) \/ Has(Y, id)
    <3>1. CASE i <= m
      BY <1>4, <2>1, <3>1 DEF Has
    <3>2. CASE i > m
      <4>1. i - m \in 1 .. n /\ i = m + (i - m)
        BY <1>4, <3>2
      <4> QED BY <1>4, <2>1, <4>1 DEF Has
    <3> QED BY <1>4, <3>1, <3>2
  <2>2. ASSUME NEW i \in DOMAIN X, Holds(X[i], "tool_call", id) PROVE Has(Z, id)
    BY <1>4, <2>2 DEF Has
  <2>3. ASSUME NEW i \in DOMAIN Y, Holds(Y[i], "tool_call", id) PROVE Has(Z, id)
    <3>1. m + i \in DOMAIN Z
      BY <1>4
    <3> QED BY <1>4, <2>3, <3>1 DEF Has
  <2> QED BY <2>1, <2>2, <2>3 DEF Has
<1>8. ASSUME Ordered(Z, id)
      PROVE  /\ Ordered(X, id) /\ Ordered(Y, id)
             /\ Has(Y, id) => ResultsIn(X, id) = <<>>
  <2>1. \A i, j \in DOMAIN Z :
          Holds(Z[i], "tool_call", id) /\ Holds(Z[j], "tool_result", id) => i < j
    BY <1>8 DEF Ordered, Places
  <2>2. Ordered(X, id)
    <3> SUFFICES ASSUME NEW i \in DOMAIN X, NEW j \in DOMAIN X,
                        Holds(X[i], "tool_call", id), Holds(X[j], "tool_result", id)
                 PROVE  i < j
      BY DEF Ordered, Places
    <3> QED BY <1>4, <2>1
  <2>3. Ordered(Y, id)
    <3> SUFFICES ASSUME NEW i \in DOMAIN Y, NEW j \in DOMAIN Y,
                        Holds(Y[i], "tool_call", id), Holds(Y[j], "tool_result", id)
                 PROVE  i < j
      BY DEF Ordered, Places
    <3>1. m + i \in DOMAIN Z /\ m + j \in DOMAIN Z
      BY <1>4
    <3>2. Z[m + i] = Y[i] /\ Z[m + j] = Y[j]
      BY <1>4
    <3>3. m + i < m + j
      BY <2>1, <3>1, <3>2
    <3> QED BY <1>4, <3>3
  <2>4. ASSUME Has(Y, id), ResultsIn(X, id) # <<>> PROVE FALSE
    <3>1. PICK i \in DOMAIN Y : Holds(Y[i], "tool_call", id)
      BY <2>4 DEF Has
    <3>2. PICK j \in DOMAIN X : Holds(X[j], "tool_result", id)
      BY <1>6, <2>4
    <3>3. m + i \in DOMAIN Z /\ j \in DOMAIN Z /\ Z[m + i] = Y[i] /\ Z[j] = X[j]
      BY <1>4
    <3>4. m + i < j
      BY <2>1, <3>1, <3>2, <3>3
    <3> QED BY <1>4, <3>4
  <2> QED BY <2>2, <2>3, <2>4
<1> QED BY <1>4, <1>5, <1>6, <1>7, <1>8 DEF Z, M, B

\* And with one more message.
LEMMA OneMoreMessage ==
  ASSUME NEW X \in Seq(Messages), NEW m \in Messages, NEW id
  PROVE  /\ Append(X, m) \in Seq(Messages)
         /\ ResultsIn(Append(X, m), id)
              = IF Dropped(m, {id}) THEN Append(ResultsIn(X, id), m.content[1]) ELSE ResultsIn(X, id)
         /\ Has(Append(X, m), id) <=> Has(X, id) \/ Holds(m, "tool_call", id)
         /\ Ordered(Append(X, m), id) <=>
              /\ Ordered(X, id)
              /\ Holds(m, "tool_call", id) => ResultsIn(X, id) = <<>>
<1> DEFINE M == Messages
           B == Blocks
           F == Giving(id)
           Z == Append(X, m)
           n == Len(X)
<1>1. F \in ToSeqs(M, B)
      /\ \A x \in M : F[x] = IF Dropped(x, {id}) THEN <<x.content[1]>> ELSE <<>>
  BY GivingTypes
<1>2. X \in Seq(M) /\ m \in M /\ \A u \in Seq(M) : ResultsIn(u, id) = FlatMap(u, F)
  BY ResultsAs
<1>3. /\ Holds(m, "tool_result", id) <=> Dropped(m, {id})
      /\ Holds(m, "tool_call", id) => ~Dropped(m, {id})
  BY MessageKinds DEF Dropped
<1>4. ResultsIn(X, id) \in Seq(B)
      /\ (ResultsIn(X, id) # <<>> <=> \E i \in DOMAIN X : Holds(X[i], "tool_result", id))
  BY JoinedMessages
<1> HIDE DEF M, B, F
<1>5. /\ Z \in Seq(M) /\ n \in Nat /\ DOMAIN X = 1 .. n /\ DOMAIN Z = 1 .. n + 1
      /\ Z[n + 1] = m /\ \A i \in 1 .. n : Z[i] = X[i]
  BY <1>2
<1>6. ResultsIn(Z, id) = IF Dropped(m, {id}) THEN Append(ResultsIn(X, id), m.content[1])
                         ELSE ResultsIn(X, id)
  <2>1. \A x \in M : FlatMap(Append(X, x), F) = FlatMap(X, F) \o F[x]
    BY <1>1, <1>2, FlatMapUnfolds
  <2>2. ResultsIn(Z, id) = ResultsIn(X, id) \o F[m]
    BY <1>2, <1>5, <2>1, Zenon
  <2>3. \A u \in Seq(B) : u \o <<>> = u /\ \A y : u \o <<y>> = Append(u, y)
    OBVIOUS
  <2> QED BY <1>1, <1>2, <1>4, <2>2, <2>3, Zenon
<1> HIDE DEF Z, n
<1>7. Has(Z, id) <=> Has(X, id) \/ Holds(m, "tool_call", id)
  <2>1. ASSUME NEW i \in DOMAIN Z, Holds(Z[i], "tool_call", id)
        PROVE  Has(X, id) \/ Holds(m, "tool_call", id)
    <3>1. i \in 1 .. n \/ i = n + 1
      BY <1>5
    <3> QED BY <1>5, <2>1, <3>1 DEF Has
  <2>2. n + 1 \in DOMAIN Z /\ \A i \in DOMAIN X : i \in DOMAIN Z
    BY <1>5
  <2> QED BY <1>5, <2>1, <2>2 DEF Has
<1>8. Ordered(Z, id) <=> Ordered(X, id) /\ (Holds(m, "tool_call", id) => ResultsIn(X, id) = <<>>)
  <2>1. ASSUME Ordered(Z, id)
        PROVE  Ordered(X, id) /\ (Holds(m, "tool_call", id) => ResultsIn(X, id) = <<>>)
    <3>1. \A i, j \in DOMAIN Z :
            Holds(Z[i], "tool_call", id) /\ Holds(Z[j], "tool_result", id) => i < j
      BY <2>1 DEF Ordered, Places
    <3>2. Ordered(X, id)
      <4> SUFFICES ASSUME NEW i \in DOMAIN X, NEW j \in DOMAIN X,
                          Holds(X[i], "tool_call", id), Holds(X[j], "tool_result", id)
                   PROVE  i < j
        BY DEF Ordered, Places
      <4> QED BY <1>5, <3>1
    <3>3. ASSUME Holds(m, "tool_call", id), NEW j \in DOMAIN X, Holds(X[j], "tool_result", id)
          PROVE  FALSE
      <4>1. n + 1 \in DOMAIN Z /\ j \in DOMAIN Z /\ Z[j] = X[j] /\ Z[n + 1] = m
        BY <1>5
      <4>2. n + 1 < j
        BY <3>1, <3>3, <4>1
      <4> QED BY <1>5, <4>2
    <3> QED BY <1>4, <3>2, <3>3
  <2>2. ASSUME Ordered(X, id), Holds(m, "tool_call", id) => ResultsIn(X, id) = <<>>
        PROVE  Ordered(Z, id)
    <3> SUFFICES ASSUME NEW i \in DOMAIN Z, NEW j \in DOMAIN Z,
                        Holds(Z[i], "tool_call", id), Holds(Z[j], "tool_result", id)
                 PROVE  i < j
      BY DEF Ordered, Places
    <3>1. \A k, l \in DOMAIN X :
            Holds(X[k], "tool_call", id) /\ Holds(X[l], "tool_result", id) => k < l
      BY <2>2 DEF Ordered, Places
    <3>2. i \in 1 .. n \/ i = n + 1
      BY <1>5
    <3>3. j \in 1 .. n \/ j = n + 1
      BY <1>5
    <3>4. i = n + 1 => j \notin 1 .. n
      <4> SUFFICES ASSUME i = n + 1, j \in 1 .. n PROVE FALSE
        OBVIOUS
      <4>1. Holds(m, "tool_call", id) /\ Holds(X[j], "tool_result", id) /\ j \in DOMAIN X
        BY <1>5
      <4> QED BY <1>4, <2>2, <4>1
    <3>5. i = n + 1 => j # n + 1
      BY <1>3, <1>5
    <3>6. CASE i \in 1 .. n /\ j \in 1 .. n
      BY <1>5, <3>1, <3>6
    <3>7. CASE i \in 1 .. n /\ j = n + 1
      BY <1>5, <3>7
    <3> QED BY <3>2, <3>3, <3>4, <3>5, <3>6, <3>7
  <2> QED BY <2>1, <2>2
<1> QED BY <1>5, <1>6, <1>7, <1>8 DEF Z, M

\* Dropping results of other calls keeps a call's results, and all calls.
LEMMA DropKeeps ==
  ASSUME NEW R, NEW id, NEW X \in Seq(Messages)
  PROVE  /\ ResultsIn(Drop(X, R), id) = IF id \in R THEN <<>> ELSE ResultsIn(X, id)
         /\ Has(Drop(X, R), id) <=> Has(X, id)
         /\ Ordered(X, id) => Ordered(Drop(X, R), id)
<1> DEFINE M == Messages
           Q(s) == /\ ResultsIn(Drop(s, R), id) = IF id \in R THEN <<>> ELSE ResultsIn(s, id)
                   /\ Has(Drop(s, R), id) <=> Has(s, id)
                   /\ Ordered(s, id) => Ordered(Drop(s, R), id)
           P == {s \in Seq(M) : Q(s)}
<1>1. <<>> \in P
  <2>1. <<>> \in Seq(M)
    OBVIOUS
  <2>2. Drop(<<>>, R) = <<>>
    BY <2>1, DropUnfolds
  <2>3. ResultsIn(<<>>, id) = <<>>
    <3>1. ~\E i \in DOMAIN <<>> : Holds(<<>>[i], "tool_result", id)
      OBVIOUS
    <3> QED BY <2>1, <3>1, JoinedMessages
  <2> QED BY <2>1, <2>2, <2>3
<1>2. ASSUME NEW s \in Seq(M), NEW m \in M, s \in P PROVE Append(s, m) \in P
  <2> DEFINE d == Drop(s, R)
             t == Append(s, m)
  <2>1. /\ d \in Seq(M) /\ Q(s) /\ Drop(t, R) = IF Dropped(m, R) THEN d ELSE Append(d, m)
    BY <1>2, DropUnfolds
  <2>2. /\ t \in Seq(M)
        /\ ResultsIn(t, id) = IF Dropped(m, {id}) THEN Append(ResultsIn(s, id), m.content[1])
                              ELSE ResultsIn(s, id)
        /\ Has(t, id) <=> Has(s, id) \/ Holds(m, "tool_call", id)
        /\ Ordered(t, id) <=>
              Ordered(s, id) /\ (Holds(m, "tool_call", id) => ResultsIn(s, id) = <<>>)
    BY OneMoreMessage
  <2>3. /\ ResultsIn(Append(d, m), id)
             = IF Dropped(m, {id}) THEN Append(ResultsIn(d, id), m.content[1]) ELSE ResultsIn(d, id)
        /\ Has(Append(d, m), id) <=> Has(d, id) \/ Holds(m, "tool_call", id)
        /\ Ordered(Append(d, m), id) <=>
              Ordered(d, id) /\ (Holds(m, "tool_call", id) => ResultsIn(d, id) = <<>>)
    BY <2>1, OneMoreMessage
  <2>4. Holds(m, "tool_call", id) => ~Dropped(m, R)
    BY MessageKinds DEF Dropped
  <2>5. /\ Dropped(m, R) /\ Dropped(m, {id}) => id \in R
        /\ ~Dropped(m, R) /\ Dropped(m, {id}) => id \notin R
    BY DEF Dropped
  <2> HIDE DEF d, t
  <2>6. Q(t)
    <3>1. CASE Dropped(m, R)
      BY <2>1, <2>2, <2>4, <2>5, <3>1 DEF d
    <3>2. CASE ~Dropped(m, R)
      BY <2>1, <2>2, <2>3, <2>5, <3>2 DEF d
    <3> QED BY <3>1, <3>2
  <2> QED BY <2>2, <2>6 DEF t
<1>3. Seq(M) \subseteq P
  <2> HIDE DEF P, M
  <2> QED BY <1>1, <1>2, SnocInduct
<1> QED BY <1>3

\* Of the results of a call the last is left, behind the call.
LEMMA SupersedeKeeps ==
  ASSUME NEW X \in Seq(Messages), NEW id
  PROVE  /\ ResultsIn(SupersedeToolResults(X), id) = Newest(ResultsIn(X, id))
         /\ Has(SupersedeToolResults(X), id) <=> Has(X, id)
         /\ Ordered(X, id) => Ordered(SupersedeToolResults(X), id)
<1> DEFINE M == Messages
           S(s) == SupersedeToolResults(s)
           Q(s) == /\ ResultsIn(S(s), id) = Newest(ResultsIn(s, id))
                   /\ Has(S(s), id) <=> Has(s, id)
                   /\ Ordered(s, id) => Ordered(S(s), id)
           P == {s \in Seq(M) : Q(s)}
<1>1. <<>> \in P
  <2>1. <<>> \in Seq(M)
    OBVIOUS
  <2>2. S(<<>>) = <<>>
    BY <2>1, SupersedeUnfolds
  <2>3. ResultsIn(<<>>, id) = <<>>
    <3>1. ~\E i \in DOMAIN <<>> : Holds(<<>>[i], "tool_result", id)
      OBVIOUS
    <3> QED BY <2>1, <3>1, JoinedMessages
  <2> HIDE DEF S
  <2> QED BY <2>1, <2>2, <2>3 DEF Newest
<1>2. ASSUME NEW s \in Seq(M), NEW m \in M, s \in P PROVE Append(s, m) \in P
  <2> DEFINE I == IdsGiven(m)
             d == Drop(S(s), I)
             t == Append(s, m)
  <2>1. S(s) \in Seq(M) /\ Q(s) /\ S(t) = Append(d, m)
    BY <1>2, SupersedeUnfolds
  <2>2. d \in Seq(M)
    BY <2>1, DropUnfolds
  <2>3. /\ ResultsIn(d, id) = IF id \in I THEN <<>> ELSE ResultsIn(S(s), id)
        /\ Has(d, id) <=> Has(S(s), id)
        /\ Ordered(S(s), id) => Ordered(d, id)
    BY <2>1, DropKeeps
  <2>4. /\ t \in Seq(M)
        /\ ResultsIn(t, id) = IF Dropped(m, {id}) THEN Append(ResultsIn(s, id), m.content[1])
                              ELSE ResultsIn(s, id)
        /\ Has(t, id) <=> Has(s, id) \/ Holds(m, "tool_call", id)
        /\ Ordered(t, id) <=>
              Ordered(s, id) /\ (Holds(m, "tool_call", id) => ResultsIn(s, id) = <<>>)
        /\ ResultsIn(s, id) \in Seq(Blocks)
    BY OneMoreMessage, JoinedMessages
  <2>5. /\ ResultsIn(Append(d, m), id)
             = IF Dropped(m, {id}) THEN Append(ResultsIn(d, id), m.content[1]) ELSE ResultsIn(d, id)
        /\ Has(Append(d, m), id) <=> Has(d, id) \/ Holds(m, "tool_call", id)
        /\ Ordered(Append(d, m), id) <=>
              Ordered(d, id) /\ (Holds(m, "tool_call", id) => ResultsIn(d, id) = <<>>)
    BY <2>2, OneMoreMessage
  <2>6. /\ id \in I <=> Dropped(m, {id})
        /\ Dropped(m, {id}) => m.content[1] \in Blocks
        /\ Holds(m, "tool_call", id) => ~Dropped(m, {id})
    BY MessageKinds, ToolTypes DEF IdsGiven, Dropped, Blocks
  <2> HIDE DEF I, d, t, S
  <2>7. ASSUME NEW u \in Seq(Blocks), NEW b \in Blocks
        PROVE  Append(<<>>, b) = Newest(Append(u, b))
    <3>1. Append(u, b) # <<>> /\ Last(Append(u, b)) = b /\ Append(<<>>, b) = <<b>>
      <4>1. /\ Len(Append(u, b)) = Len(u) + 1 /\ Len(u) \in Nat /\ Append(u, b)[Len(u) + 1] = b
            /\ Append(<<>>, b) = <<b>> /\ Append(u, b) \in Seq(Blocks)
        OBVIOUS
      <4>2. Append(u, b) # <<>>
        BY <4>1
      <4> QED BY <4>1, <4>2 DEF Last
    <3> QED BY <3>1 DEF Newest
  <2>8. Newest(<<>>) = <<>>
    BY DEF Newest
  <2>9. ResultsIn(S(t), id) = Newest(ResultsIn(t, id))
    <3>1. CASE Dropped(m, {id})
      <4>1. ResultsIn(S(t), id) = Append(<<>>, m.content[1])
        BY <2>1, <2>3, <2>5, <2>6, <3>1
      <4>2. ResultsIn(t, id) = Append(ResultsIn(s, id), m.content[1])
        BY <2>4, <3>1
      <4> QED BY <2>4, <2>6, <2>7, <3>1, <4>1, <4>2
    <3>2. CASE ~Dropped(m, {id})
      BY <2>1, <2>3, <2>4, <2>5, <2>6, <3>2
    <3> QED BY <3>1, <3>2
  <2>10. Has(S(t), id) <=> Has(t, id)
    BY <2>1, <2>3, <2>4, <2>5
  <2>11. Ordered(t, id) => Ordered(S(t), id)
    <3> SUFFICES ASSUME Ordered(t, id) PROVE Ordered(Append(d, m), id)
      BY <2>1
    <3>1. Ordered(d, id)
      BY <2>1, <2>3, <2>4
    <3>2. Holds(m, "tool_call", id) => ResultsIn(d, id) = <<>>
      BY <2>1, <2>3, <2>4, <2>8
    <3> QED BY <2>5, <3>1, <3>2
  <2> QED BY <2>4, <2>9, <2>10, <2>11 DEF t
<1>3. Seq(M) \subseteq P
  <2> HIDE DEF P, M
  <2> QED BY <1>1, <1>2, SnocInduct
<1> QED BY <1>3

-----------------------------------------------------------------------------
(* The calls that a boundary would separate from their results.             *)

Pair(open, block) ==
  CASE block.type = "tool_call"   -> open \cup {block.id}
    [] block.type = "tool_result" -> open \ {block.id}
    [] OTHER                      -> open

OpenSets(g, base, s, n) ==
  g = [S \in SUBSET (1 .. n) |-> IF S = {} THEN base ELSE Pair(g[S \ {Max(S)}], s[Max(S)])]

\* The recursive function behind the fold over calls and results exists.
LEMMA OpenExists ==
  ASSUME NEW base, NEW s, NEW n \in Nat
  PROVE  \E g : OpenSets(g, base, s, n)
<1> DEFINE Body(g, S) == IF S = {} THEN base ELSE Pair(g[S \ {Max(S)}], s[Max(S)])
           P == {m \in Nat : \E g : g = [S \in SUBSET (1 .. m) |-> Body(g, S)]}
<1>1. 0 \in P
  <2>1. SUBSET (1 .. 0) = {{}}
    OBVIOUS
  <2>2. [S \in {{}} |-> base] = [S \in {{}} |-> Body([R \in {{}} |-> base], S)]
    OBVIOUS
  <2> HIDE DEF Body
  <2>3. \E g : g = [S \in SUBSET (1 .. 0) |-> Body(g, S)]
    BY <2>1, <2>2
  <2> QED BY <2>3
<1>2. ASSUME NEW m \in Nat, m \in P PROVE m + 1 \in P
  <2>1. PICK g : g = [S \in SUBSET (1 .. m) |-> Body(g, S)]
    <3> HIDE DEF Body
    <3> QED BY <1>2
  <2> DEFINE h == [S \in SUBSET (1 .. m + 1) |-> Body(g, S)]
  <2>2. \A S \in SUBSET (1 .. m) : S \in SUBSET (1 .. m + 1)
    OBVIOUS
  <2>3. \A S \in SUBSET (1 .. m) : h[S] = g[S]
    <3> HIDE DEF Body
    <3>1. \A S \in SUBSET (1 .. m) : g[S] = Body(g, S)
      BY <2>1
    <3> QED BY <2>2, <3>1
  <2>4. ASSUME NEW S \in SUBSET (1 .. m + 1) PROVE Body(g, S) = Body(h, S)
    <3>1. CASE S = {}
      BY <3>1
    <3>2. CASE S # {}
      <4>1. S \ {Max(S)} \in SUBSET (1 .. m)
        BY <3>2, WithoutMax
      <4>2. h[S \ {Max(S)}] = g[S \ {Max(S)}]
        <5> HIDE DEF h
        <5> QED BY <2>3, <4>1
      <4> HIDE DEF h
      <4> QED BY <3>2, <4>2
    <3> QED BY <3>1, <3>2
  <2>5. h = [S \in SUBSET (1 .. m + 1) |-> Body(h, S)]
    <3> HIDE DEF Body
    <3> QED BY <2>4
  <2> HIDE DEF Body, h
  <2> QED BY <2>5
<1>3. Nat \subseteq P
  <2> HIDE DEF P
  <2> QED BY <1>1, <1>2, NatInduct
<1>4. \E g : g = [S \in SUBSET (1 .. n) |-> Body(g, S)]
  <2> HIDE DEF Body
  <2> QED BY <1>3
<1> QED BY <1>4, Zenon DEF OpenSets

StillOpen(base, s) == FoldLeft(Pair, base, s)

OpenedBy(h, base, s) ==
  /\ h[0] = base /\ h[Len(s)] = StillOpen(base, s)
  /\ \A k \in 1 .. Len(s) : h[k] = Pair(h[k - 1], s[k])

\* Calls, opened and closed one after the other.
LEMMA OpenFolds ==
  ASSUME NEW base, NEW B, NEW s \in Seq(B)
  PROVE  \E h : OpenedBy(h, base, s)
<1> DEFINE n == Len(s)
           g == CHOOSE g : OpenSets(g, base, s, n)
           h == [k \in 0 .. n |-> g[1 .. k]]
<1>1. n \in Nat /\ DOMAIN s = 1 .. n
  OBVIOUS
<1>2. OpenSets(g, base, s, n)
  <2> HIDE DEF n
  <2> QED BY <1>1, OpenExists
<1>3. StillOpen(base, s) = g[1 .. n]
  <2>1. StillOpen(base, s) = (CHOOSE f : f = [S \in SUBSET DOMAIN s |->
          IF S = {} THEN base ELSE Pair(f[S \ {Max(S)}], s[Max(S)])])[DOMAIN s]
    BY Zenon DEF StillOpen, FoldLeft, MapThenFoldSet
  <2>2. g = CHOOSE f : f = [S \in SUBSET (1 .. n) |->
          IF S = {} THEN base ELSE Pair(f[S \ {Max(S)}], s[Max(S)])]
    BY Zenon DEF OpenSets
  <2> HIDE DEF n, g
  <2> QED BY <1>1, <2>1, <2>2, Zenon
<1> HIDE DEF n, g
<1>4. g[1 .. 0] = base
  <2>1. 1 .. 0 = {} /\ {} \in SUBSET (1 .. n)
    OBVIOUS
  <2> QED BY <1>2, <2>1 DEF OpenSets
<1>5. ASSUME NEW k \in 1 .. n PROVE g[1 .. k] = Pair(g[1 .. k - 1], s[k])
  <2>1. 1 .. k \in SUBSET (1 .. n) /\ 1 .. k # {} /\ k \in Nat /\ 1 .. k \in SUBSET (1 .. n + 1)
    BY <1>1
  <2>2. Max(1 .. k) = k /\ (1 .. k) \ {Max(1 .. k)} = 1 .. k - 1
    BY <1>1, <2>1, WithoutMax
  <2>3. g[1 .. k] = Pair(g[(1 .. k) \ {Max(1 .. k)}], s[Max(1 .. k)])
    BY <1>2, <2>1, Zenon DEF OpenSets
  <2> QED BY <2>2, <2>3, Zenon
<1>6. /\ h[0] = g[1 .. 0] /\ h[n] = g[1 .. n]
      /\ \A k \in 1 .. n : h[k] = g[1 .. k] /\ h[k - 1] = g[1 .. k - 1]
  BY <1>1
<1> HIDE DEF h
<1>7. \A k \in 1 .. n : h[k] = Pair(h[k - 1], s[k])
  BY <1>5, <1>6, Zenon
<1>8. OpenedBy(h, base, s)
  BY <1>3, <1>4, <1>6, <1>7, Zenon DEF n, OpenedBy
<1> QED BY <1>8

\* What is called before a boundary that separates nothing has a result there.
LEMMA UnpairedKeeps ==
  ASSUME NEW s \in Seq(EventsOf(Messages)), NEW k \in Nat, k <= Len(s),
         UnpairedToolCalls(s, k) = {}, NEW id, Has(Visible(SubSeq(s, 1, k)), id)
  PROVE  ResultsIn(Visible(SubSeq(s, 1, k)), id) # <<>>
<1> DEFINE E == EventsOf(Messages)
           M == Messages
           B == Blocks
           V == Visible(SubSeq(s, 1, k))
           F == [m \in M |-> m.content]
           blocks == FlatMap(V, F)
           n == Len(blocks)
<1>0. s \in Seq(E) /\ \A m \in M : m.content \in Seq(B)
  BY ContentTypes
<1>1. V \in Seq(M)
  <2> HIDE DEF E
  <2>1. SubSeq(s, 1, k) \in Seq(E)
    BY <1>0
  <2> QED BY <2>1, VisibleTypes DEF E
<1>2. F \in ToSeqs(M, B) /\ \A m \in M : F[m] = m.content
  <2> HIDE DEF M, B
  <2>1. [m \in M |-> m.content] \in [M -> Seq(B)]
    BY <1>0
  <2> QED BY <2>1 DEF ToSeqs
<1>3. (\E i \in DOMAIN V : Holds(V[i], "tool_result", id)) => ResultsIn(V, id) # <<>>
  BY <1>1, JoinedMessages
<1>4. \E i \in DOMAIN V : Holds(V[i], "tool_call", id)
  BY DEF Has
<1>5. StillOpen({}, blocks) = {}
  <2>1. \A i \in DOMAIN V : V[i] \in M
    <3> HIDE DEF V, M
    <3> QED BY <1>1
  <2>2. [i \in DOMAIN V |-> V[i].content] = [i \in DOMAIN V |-> F[V[i]]]
    BY <1>2, <2>1
  <2>3. Each(V, LAMBDA m : m.content) = blocks
    <3> HIDE DEF V, F
    <3> QED BY <2>2, Zenon DEF Each, FlatMap
  <2>4. UnpairedToolCalls(s, k) = StillOpen({}, Each(V, LAMBDA m : m.content))
    BY Zenon DEF UnpairedToolCalls, StillOpen, Pair
  <2> QED BY <2>3, <2>4
<1> HIDE DEF V, F, M, B
<1>6. blocks \in Seq(B) /\ \A y : Lists(blocks, y) <=> \E i \in 1 .. Len(V) : Lists(F[V[i]], y)
  <2>1. blocks \in Seq(B)
    BY <1>1, <1>2, FlatMapUnfolds
  <2>2. \A y : Lists(FlatMap(V, F), y) <=> \E i \in 1 .. Len(V) : Lists(F[V[i]], y)
    BY <1>1, <1>2, FlatMapElements
  <2> QED BY <2>1, <2>2
<1> HIDE DEF blocks
<1>7. PICK h : OpenedBy(h, {}, blocks)
  BY <1>6, OpenFolds
<1>8. /\ h[0] = {} /\ h[n] = StillOpen({}, blocks)
      /\ \A j \in 1 .. n : h[j] = Pair(h[j - 1], blocks[j])
  BY <1>7, Zenon DEF OpenedBy
<1> DEFINE Of(type, j) == \E i \in 1 .. j : blocks[i].type = type /\ blocks[i].id = id
<1>9. n \in Nat
  BY <1>6
<1> HIDE DEF n
<1> DEFINE P == {j \in Nat : j <= n /\ Of("tool_call", j) => id \in h[j] \/ Of("tool_result", j)}
<1>10. 0 \in P
  OBVIOUS
<1>11. ASSUME NEW j \in Nat, j \in P PROVE j + 1 \in P
  <2> SUFFICES ASSUME j + 1 <= n, Of("tool_call", j + 1), ~Of("tool_result", j + 1)
               PROVE  id \in h[j + 1]
    OBVIOUS
  <2>1. h[j + 1] = Pair(h[j], blocks[j + 1])
    <3>1. j + 1 \in 1 .. n /\ (j + 1) - 1 = j
      BY <1>9
    <3> QED BY <1>8, <3>1
  <2>2. ~(blocks[j + 1].type = "tool_result" /\ blocks[j + 1].id = id) /\ ~Of("tool_result", j)
    BY <1>9
  <2>3. CASE blocks[j + 1].type = "tool_call" /\ blocks[j + 1].id = id
    BY <2>1, <2>3 DEF Pair
  <2>4. CASE ~(blocks[j + 1].type = "tool_call" /\ blocks[j + 1].id = id)
    <3>1. Of("tool_call", j)
      BY <1>9, <2>4
    <3>2. id \in h[j]
      BY <1>9, <1>11, <2>2, <3>1
    <3> QED BY <2>1, <2>2, <3>2 DEF Pair
  <2> QED BY <2>3, <2>4
<1>12. Nat \subseteq P
  <2> HIDE DEF P
  <2> QED BY <1>10, <1>11, NatInduct
<1>13. DOMAIN V = 1 .. Len(V) /\ \A i \in 1 .. Len(V) : V[i] \in M
  BY <1>1
<1>14. \A m \in M : DOMAIN m.content = 1 .. Len(m.content)
  BY <1>0 DEF M, B
<1>15. Of("tool_call", n)
  <2>1. PICK i \in 1 .. Len(V) : Holds(V[i], "tool_call", id)
    BY <1>4, <1>13
  <2>2. PICK l \in DOMAIN V[i].content :
          V[i].content[l].type = "tool_call" /\ V[i].content[l].id = id
    BY <2>1 DEF Holds
  <2> DEFINE y == V[i].content[l]
  <2>3. F[V[i]] = V[i].content /\ l \in 1 .. Len(V[i].content)
    BY <1>2, <1>13, <1>14, <2>2
  <2>4. Lists(F[V[i]], y)
    BY <2>3 DEF Lists
  <2>5. Lists(blocks, y)
    <3> HIDE DEF y
    <3> QED BY <1>6, <2>4
  <2>6. PICK p \in 1 .. n : blocks[p] = y
    <3> HIDE DEF y
    <3> QED BY <2>5 DEF Lists, n
  <2> QED BY <2>2, <2>6
<1>16. Of("tool_result", n)
  <2>1. id \in h[n] \/ Of("tool_result", n)
    BY <1>9, <1>12, <1>15
  <2> QED BY <1>5, <1>8, <2>1
<1>17. \E i \in DOMAIN V : Holds(V[i], "tool_result", id)
  <2>1. PICK p \in 1 .. n : blocks[p].type = "tool_result" /\ blocks[p].id = id
    BY <1>16
  <2> DEFINE y == blocks[p]
  <2>2. Lists(blocks, y) /\ y.type = "tool_result" /\ y.id = id
    BY <2>1 DEF Lists, n
  <2> HIDE DEF y
  <2>3. PICK i \in 1 .. Len(V) : Lists(F[V[i]], y)
    BY <1>6, <2>2
  <2>4. F[V[i]] = V[i].content /\ DOMAIN V[i].content = 1 .. Len(V[i].content)
    BY <1>2, <1>13, <1>14
  <2>5. PICK l \in 1 .. Len(V[i].content) : V[i].content[l] = y
    BY <2>3, <2>4 DEF Lists
  <2>6. Holds(V[i], "tool_result", id)
    BY <2>2, <2>4, <2>5 DEF Holds
  <2> QED BY <1>13, <2>6
<1> QED BY <1>3, <1>17 DEF V

-----------------------------------------------------------------------------
(* What sessions inherited and recorded, whatever was compacted.            *)

\* A journal's results follow their calls.
Paired(messages, id) ==
  Ordered(messages, id) /\ (ResultsIn(messages, id) # <<>> => Has(messages, id))

\* What is shown keeps the calls and results of what was recorded.
Keeps(shown, history, id) ==
  /\ Has(shown, id) =>
       /\ Has(history, id)
       /\ ResultsIn(shown, id) = Newest(ResultsIn(history, id))
       /\ Ordered(shown, id)
  /\ ResultsIn(shown, id) # <<>> => ResultsIn(history, id) # <<>>
  /\ Len(ResultsIn(shown, id)) <= 1
  /\ ~Has(shown, id) /\ ResultsIn(shown, id) # <<>> => Len(ResultsIn(history, id)) > 1

\* One result at most is the newest.
LEMMA NewestTypes ==
  ASSUME NEW B, NEW u \in Seq(B)
  PROVE  /\ Len(Newest(u)) <= 1 /\ Len(Newest(u)) \in Nat
         /\ Newest(u) = <<>> <=> u = <<>>
         /\ Len(u) <= 1 => Newest(u) = u
<1>1. CASE u = <<>>
  BY <1>1 DEF Newest
<1>2. CASE u # <<>>
  <2>1. Newest(u) = <<Last(u)>> /\ Len(<<Last(u)>>) = 1 /\ <<Last(u)>> # <<>>
    BY <1>2 DEF Newest
  <2>2. ASSUME Len(u) <= 1 PROVE u = <<Last(u)>>
    <3>1. u = <<u[1]>>
      <4>1. Len(u) \in Nat /\ Len(u) # 0
        BY <1>2
      <4>2. Len(u) = 1
        BY <2>2, <4>1
      <4>3. \A w \in Seq(B) : Len(w) = 1 => w = <<w[1]>>
        OBVIOUS
      <4> QED BY <4>2, <4>3
    <3>2. Last(u) = u[1]
      <4>1. Len(<<u[1]>>) = 1
        OBVIOUS
      <4>2. Len(u) = 1
        BY <3>1, <4>1, Zenon
      <4> QED BY <4>2, Zenon DEF Last
    <3> QED BY <3>1, <3>2, Zenon
  <2> QED BY <1>2, <2>1, <2>2
<1> QED BY <1>1, <1>2

\* A plain message holds neither calls nor results.
LEMMA PlainHolds ==
  ASSUME NEW m \in PlainMessages, NEW id, NEW X \in Seq(Messages)
  PROVE  /\ m \in Messages /\ ~Has(<<m>>, id) /\ ResultsIn(<<m>>, id) = <<>>
         /\ Append(X, m) \in Seq(Messages) /\ <<m>> \in Seq(Messages)
         /\ ResultsIn(Append(X, m), id) = ResultsIn(X, id)
         /\ Has(Append(X, m), id) <=> Has(X, id)
         /\ Ordered(X, id) => Ordered(Append(X, m), id)
<1>1. m \in Messages
  BY DEF Messages
<1>2. ~Holds(m, "tool_call", id) /\ ~Dropped(m, {id}) /\ ~Holds(m, "tool_result", id)
  BY <1>1, MessageKinds DEF Dropped
<1>3. /\ Append(X, m) \in Seq(Messages)
      /\ ResultsIn(Append(X, m), id)
              = IF Dropped(m, {id}) THEN Append(ResultsIn(X, id), m.content[1]) ELSE ResultsIn(X, id)
      /\ Has(Append(X, m), id) <=> Has(X, id) \/ Holds(m, "tool_call", id)
      /\ Ordered(Append(X, m), id) <=>
              /\ Ordered(X, id)
              /\ Holds(m, "tool_call", id) => ResultsIn(X, id) = <<>>
  BY <1>1, OneMoreMessage
<1>4. DOMAIN <<m>> = {1} /\ <<m>>[1] = m
  OBVIOUS
<1>5. <<m>> \in Seq(Messages)
  <2> DEFINE M == Messages
  <2>1. m \in M
    BY <1>1
  <2> HIDE DEF M
  <2>2. <<m>> \in Seq(M)
    BY <2>1
  <2> QED BY <2>2 DEF M
<1>6. ~Has(<<m>>, id)
  BY <1>2, <1>4 DEF Has
<1>7. ResultsIn(<<m>>, id) # <<>> <=> \E i \in DOMAIN <<m>> : Holds(<<m>>[i], "tool_result", id)
  BY <1>5, JoinedMessages
<1>8. ResultsIn(<<m>>, id) = <<>>
  BY <1>2, <1>4, <1>7
<1> QED BY <1>1, <1>2, <1>3, <1>5, <1>6, <1>8

\* The events of a journal in two parts.
LEMMA VisibleParts ==
  ASSUME NEW M, NEW s \in Seq(EventsOf(M)), NEW k \in Nat, k <= Len(s)
  PROVE  /\ Visible(SubSeq(s, 1, k)) \in Seq(M)
         /\ Visible(SubSeq(s, k + 1, Len(s))) \in Seq(M)
         /\ Visible(s) = Visible(SubSeq(s, 1, k)) \o Visible(SubSeq(s, k + 1, Len(s)))
<1> DEFINE E == EventsOf(M)
           F == [x \in E |-> IF x.message = None THEN <<>> ELSE <<x.message>>]
           u == SubSeq(s, 1, k)
           v == SubSeq(s, k + 1, Len(s))
<1>1. \A x \in E : x.message = None \/ x.message \in M
  BY DEF EventsOf
<1> HIDE DEF E
<1>2. s \in Seq(E)
  BY DEF E
<1>3. F \in ToSeqs(E, M)
  BY <1>1 DEF ToSeqs
<1>4. \A q \in Seq(E) : Visible(q) = FlatMap(q, F)
  <2> SUFFICES ASSUME NEW q \in Seq(E) PROVE Visible(q) = FlatMap(q, F)
    OBVIOUS
  <2>1. \A i \in DOMAIN q : q[i] \in E
    OBVIOUS
  <2>2. [i \in DOMAIN q |-> IF q[i].message = None THEN <<>> ELSE <<q[i].message>>]
          = [i \in DOMAIN q |-> F[q[i]]]
    BY <2>1
  <2> HIDE DEF F
  <2> QED BY <2>2, Zenon DEF Visible, Each, FlatMap
<1> HIDE DEF F
<1>5. u \in Seq(E) /\ v \in Seq(E) /\ s = u \o v
  <2> DEFINE n == Len(s)
  <2>1. n \in Nat /\ k <= n /\ DOMAIN s = 1 .. n
    BY <1>2
  <2>2. u \in Seq(E) /\ Len(u) = k /\ \A i \in 1 .. k : u[i] = s[i]
    BY <1>2, <2>1
  <2>3. v \in Seq(E) /\ Len(v) = n - k /\ \A i \in 1 .. n - k : v[i] = s[k + i]
    BY <1>2, <2>1
  <2> HIDE DEF u, v, n
  <2>4. /\ u \o v \in Seq(E) /\ Len(u \o v) = k + (n - k)
        /\ \A i \in 1 .. k : (u \o v)[i] = u[i]
        /\ \A i \in 1 .. n - k : (u \o v)[k + i] = v[i]
    <3>2. u \in Seq(E) /\ v \in Seq(E) /\ Len(u) = k /\ Len(v) = n - k
      BY <2>2, <2>3
    <3>3. \A i \in 1 .. Len(u) : (u \o v)[i] = u[i]
      BY <3>2
    <3>4. \A i \in 1 .. Len(v) : (u \o v)[Len(u) + i] = v[i]
      BY <3>2
    <3>5. u \o v \in Seq(E) /\ Len(u \o v) = Len(u) + Len(v)
      BY <3>2
    <3> QED BY <3>2, <3>3, <3>4, <3>5, Zenon
  <2>5. Len(u \o v) = n
    BY <2>1, <2>4
  <2>6. ASSUME NEW i \in 1 .. n PROVE s[i] = (u \o v)[i]
    <3>1. CASE i <= k
      <4>1. i \in 1 .. k
        BY <3>1
      <4> QED BY <2>2, <2>4, <4>1
    <3>2. CASE i > k
      <4>1. i - k \in 1 .. n - k /\ k + (i - k) = i
        BY <2>1, <3>2
      <4> QED BY <2>3, <2>4, <4>1
    <3>3. i <= k \/ i > k
      BY <2>1
    <3> QED BY <3>1, <3>2, <3>3
  <2> QED BY <1>2, <2>2, <2>3, <2>4, <2>5, <2>6, SeqEqual DEF n
<1> HIDE DEF u, v
<1>6. FlatMap(u, F) \in Seq(M) /\ FlatMap(v, F) \in Seq(M)
  BY <1>3, <1>5, FlatMapUnfolds
<1>7. FlatMap(u \o v, F) = FlatMap(u, F) \o FlatMap(v, F)
  BY <1>3, <1>5, FlatMapConcat
<1> QED BY <1>2, <1>4, <1>5, <1>6, <1>7, Zenon DEF u, v

\* What is behind other messages is in order, if their results are not of its calls.
LEMMA OrderedJoins ==
  ASSUME NEW X \in Seq(Messages), NEW Y \in Seq(Messages), NEW id,
         Ordered(X, id), Ordered(Y, id), Has(Y, id) => ResultsIn(X, id) = <<>>
  PROVE  Ordered(X \o Y, id)
<1> DEFINE M == Messages
           Z == X \o Y
           m == Len(X)
           n == Len(Y)
<1>1. ResultsIn(X, id) # <<>> <=> \E i \in DOMAIN X : Holds(X[i], "tool_result", id)
  BY JoinedMessages
<1>2. X \in Seq(M) /\ Y \in Seq(M)
  OBVIOUS
<1> HIDE DEF M
<1>3. /\ m \in Nat /\ n \in Nat /\ DOMAIN X = 1 .. m /\ DOMAIN Y = 1 .. n
      /\ DOMAIN Z = 1 .. m + n
      /\ \A i \in 1 .. m : Z[i] = X[i]
      /\ \A i \in 1 .. n : Z[m + i] = Y[i]
  BY <1>2
<1> HIDE DEF m, n, Z
<1>4. \A i, j \in DOMAIN X : Holds(X[i], "tool_call", id) /\ Holds(X[j], "tool_result", id) => i < j
  BY DEF Ordered, Places
<1>5. \A i, j \in DOMAIN Y : Holds(Y[i], "tool_call", id) /\ Holds(Y[j], "tool_result", id) => i < j
  BY DEF Ordered, Places
<1>6. SUFFICES ASSUME NEW i \in DOMAIN Z, NEW j \in DOMAIN Z,
                      Holds(Z[i], "tool_call", id), Holds(Z[j], "tool_result", id)
               PROVE  i < j
  BY DEF Ordered, Places, Z
<1>7. CASE i <= m /\ j <= m
  BY <1>3, <1>4, <1>6, <1>7
<1>8. CASE i <= m /\ j > m
  BY <1>3, <1>8
<1>9. CASE i > m
  <2>1. i - m \in 1 .. n /\ i = m + (i - m)
    BY <1>3, <1>9
  <2>2. Holds(Y[i - m], "tool_call", id)
    BY <1>3, <1>6, <2>1
  <2>3. \A k \in DOMAIN X : ~Holds(X[k], "tool_result", id)
    BY <1>1, <1>3, <2>1, <2>2 DEF Has
  <2>4. j > m
    BY <1>3, <1>6, <2>3
  <2>5. j - m \in 1 .. n /\ j = m + (j - m)
    BY <1>3, <2>4
  <2>6. i - m < j - m
    BY <1>3, <1>5, <1>6, <2>1, <2>2, <2>5
  <2> QED BY <1>3, <2>6
<1> QED BY <1>3, <1>7, <1>8, <1>9

\* A compaction that is heeded separates no call from its result.
LEMMA LatestPairs ==
  ASSUME NEW M, NEW s \in Seq(EventsOf(M)), LatestCompaction(s) # 0
  PROVE  UnpairedToolCalls(s, s[LatestCompaction(s)].through) = {}
<1> DEFINE S == {i \in DOMAIN s :
                   /\ s[i].type = "context.compacted"
                   /\ s[i].through \in 1 .. i - 1
                   /\ UnpairedToolCalls(s, s[i].through) = {}}
<1>1. Len(s) \in Nat /\ DOMAIN s = 1 .. Len(s)
  OBVIOUS
<1>2. LatestCompaction(s) = Max(S \cup {0})
  BY DEF LatestCompaction, Greatest
<1>3. S \cup {0} \in SUBSET (0 .. Len(s)) /\ S \cup {0} # {}
  BY <1>1
<1>4. \A i \in S : UnpairedToolCalls(s, s[i].through) = {}
  OBVIOUS
<1> HIDE DEF S
<1>5. Max(S \cup {0}) \in S \cup {0}
  BY <1>1, <1>3, MaxIsGreatest
<1> QED BY <1>2, <1>4, <1>5

\* The summaries of a journal are plain messages.
Summarized(events) ==
  \A i \in DOMAIN events : events[i].type = "context.compacted" => events[i].summary \in PlainMessages

\* What was inherited stays before the rest, or gives way to a summary.
LEMMA BeforeKeeps ==
  ASSUME NEW s \in Seq(EventsOf(Messages)), Summarized(s),
         NEW inherited \in Seq(Messages), NEW id
  PROVE  LET b == Before(s, inherited)
         IN  \/ /\ Has(b, id) <=> Has(inherited, id)
                /\ ResultsIn(b, id) = ResultsIn(inherited, id)
                /\ Ordered(inherited, id) => Ordered(b, id)
             \/ ~Has(b, id) /\ ResultsIn(b, id) = <<>> /\ Ordered(b, id)
<1> DEFINE latest == LatestCompaction(s)
           m == s[latest].summary
<1>1. CASE latest = 0
  BY <1>1 DEF Before
<1>2. CASE latest # 0
  <2>1. m \in PlainMessages
    <3>1. latest \in 0 .. Len(s) /\ s[latest].type = "context.compacted"
      BY <1>2, LatestTypes
    <3>2. Len(s) \in Nat /\ DOMAIN s = 1 .. Len(s)
      OBVIOUS
    <3> HIDE DEF latest
    <3>3. latest \in DOMAIN s
      BY <1>2, <3>1, <3>2
    <3> QED BY <3>1, <3>3 DEF Summarized
  <2>2. /\ ~Has(<<m>>, id) /\ ResultsIn(<<m>>, id) = <<>>
        /\ ResultsIn(Append(inherited, m), id) = ResultsIn(inherited, id)
        /\ Has(Append(inherited, m), id) <=> Has(inherited, id)
        /\ Ordered(inherited, id) => Ordered(Append(inherited, m), id)
    BY <2>1, PlainHolds
  <2>3. Ordered(<<m>>, id)
    BY <2>2 DEF Ordered, Places, Has
  <2>4. Before(s, inherited) = <<m>> \/ Before(s, inherited) = Append(inherited, m)
    BY <1>2, Zenon DEF Before
  <2> HIDE DEF m, latest
  <2> QED BY <2>2, <2>3, <2>4
<1> QED BY <1>1, <1>2

\* A projection keeps what it ought to.
LEMMA ProjectKeeps ==
  ASSUME NEW s \in Seq(EventsOf(Messages)), Summarized(s),
         NEW inherited \in Seq(Messages), NEW history \in Seq(Messages), NEW id,
         Paired(Visible(s), id), Keeps(inherited, history, id),
         Has(Visible(s), id) => ~Has(history, id) /\ ResultsIn(history, id) = <<>>
  PROVE  Keeps(ProjectContext(s, inherited), history \o Visible(s), id)
<1> DEFINE V == Visible(s)
           k == Start(s) - 1
           p == Visible(SubSeq(s, 1, k))
           r == Visible(SubSeq(s, Start(s), Len(s)))
           b == Before(s, inherited)
           X == b \o r
           shown == ProjectContext(s, inherited)
<1>1. /\ b \in Seq(Messages) /\ r \in Seq(Messages)
      /\ Start(s) \in Nat \ {0} /\ Start(s) <= Len(s) + 1
      /\ shown = SupersedeToolResults(X)
  BY ProjectTypes
<1>2. k \in Nat /\ k <= Len(s) /\ k + 1 = Start(s)
  <2>1. Len(s) \in Nat
    OBVIOUS
  <2> QED BY <1>1, <2>1
<1>3. p \in Seq(Messages) /\ V = p \o r
  <2>1. /\ Visible(SubSeq(s, 1, k)) \in Seq(Messages)
        /\ Visible(s) = Visible(SubSeq(s, 1, k)) \o Visible(SubSeq(s, k + 1, Len(s)))
    <3> HIDE DEF k
    <3> QED BY <1>2, VisibleParts
  <2> HIDE DEF k
  <2> QED BY <1>2, <2>1, Zenon
<1>4. V \in Seq(Messages)
  BY <1>1, <1>3, JoinedMessages
<1>5. Has(p, id) => ResultsIn(p, id) # <<>>
  <2> SUFFICES ASSUME Has(p, id) PROVE ResultsIn(p, id) # <<>>
    OBVIOUS
  <2>1. CASE LatestCompaction(s) = 0
    <3>1. k = 0
      BY <2>1 DEF Start
    <3>2. SubSeq(s, 1, 0) = <<>>
      OBVIOUS
    <3>3. Visible(<<>>) = <<>>
      <4>1. Trace("session.started") \in EventsOf(Messages)
        BY EventTypes
      <4> QED BY <4>1, VisibleUnfolds, Zenon
    <3>4. p = <<>>
      BY <3>1, <3>2, <3>3, Zenon
    <3>5. DOMAIN <<>> = {}
      OBVIOUS
    <3> QED BY <3>4, <3>5 DEF Has
  <2>2. CASE LatestCompaction(s) # 0
    <3>1. UnpairedToolCalls(s, s[LatestCompaction(s)].through) = {}
      BY <2>2, LatestPairs
    <3>2. k = s[LatestCompaction(s)].through
      <4>1. s[LatestCompaction(s)].through \in 1 .. LatestCompaction(s) - 1
        BY <2>2, LatestTypes
      <4>2. Start(s) = s[LatestCompaction(s)].through + 1
        BY <2>2 DEF Start
      <4> QED BY <1>2, <4>1, <4>2
    <3>3. UnpairedToolCalls(s, k) = {}
      BY <3>1, <3>2, Zenon
    <3> HIDE DEF k
    <3> QED BY <1>2, <3>3, UnpairedKeeps
  <2> QED BY <2>1, <2>2
<1> HIDE DEF V, k, p, r, b, X, shown
<1>6. /\ X \in Seq(Messages)
      /\ ResultsIn(X, id) = ResultsIn(b, id) \o ResultsIn(r, id)
      /\ Has(X, id) <=> Has(b, id) \/ Has(r, id)
      /\ ResultsIn(b, id) \in Seq(Blocks) /\ ResultsIn(r, id) \in Seq(Blocks)
  <2>1. /\ b \o r \in Seq(Messages)
        /\ ResultsIn(b \o r, id) = ResultsIn(b, id) \o ResultsIn(r, id)
        /\ Has(b \o r, id) <=> Has(b, id) \/ Has(r, id)
        /\ ResultsIn(b, id) \in Seq(Blocks) /\ ResultsIn(r, id) \in Seq(Blocks)
    BY <1>1, JoinedMessages
  <2> QED BY <2>1, Zenon DEF X
<1>7. /\ ResultsIn(V, id) = ResultsIn(p, id) \o ResultsIn(r, id)
      /\ Has(V, id) <=> Has(p, id) \/ Has(r, id)
      /\ ResultsIn(p, id) \in Seq(Blocks)
      /\ Ordered(r, id)  \/ ~Ordered(V, id)
      /\ Ordered(V, id) /\ Has(r, id) => ResultsIn(p, id) = <<>>
  BY <1>1, <1>3, JoinedMessages
<1>8. /\ ResultsIn(history \o V, id) = ResultsIn(history, id) \o ResultsIn(V, id)
      /\ Has(history \o V, id) <=> Has(history, id) \/ Has(V, id)
      /\ ResultsIn(history, id) \in Seq(Blocks)
      /\ ResultsIn(V, id) \in Seq(Blocks)
  BY <1>4, JoinedMessages
<1>9. /\ ResultsIn(shown, id) = Newest(ResultsIn(X, id))
      /\ Has(shown, id) <=> Has(X, id)
      /\ Ordered(X, id) => Ordered(shown, id)
  BY <1>1, <1>6, SupersedeKeeps
<1>10. \/ /\ Has(b, id) <=> Has(inherited, id)
          /\ ResultsIn(b, id) = ResultsIn(inherited, id)
          /\ Ordered(inherited, id) => Ordered(b, id)
       \/ ~Has(b, id) /\ ResultsIn(b, id) = <<>> /\ Ordered(b, id)
  BY BeforeKeeps DEF b
<1>11. /\ Ordered(V, id) /\ (ResultsIn(V, id) # <<>> => Has(V, id))
       /\ Has(V, id) => ~Has(history, id) /\ ResultsIn(history, id) = <<>>
  BY DEF Paired, V
<1>12. /\ Has(inherited, id) =>
            /\ Has(history, id)
            /\ ResultsIn(inherited, id) = Newest(ResultsIn(history, id))
            /\ Ordered(inherited, id)
       /\ ResultsIn(inherited, id) # <<>> => ResultsIn(history, id) # <<>>
       /\ Len(ResultsIn(inherited, id)) <= 1
       /\ ~Has(inherited, id) /\ ResultsIn(inherited, id) # <<>> => Len(ResultsIn(history, id)) > 1
  BY DEF Keeps
<1>13. Ordered(b, id) /\ (Has(r, id) => ResultsIn(b, id) = <<>>) => Ordered(X, id)
  BY <1>1, <1>7, <1>11, OrderedJoins DEF X
<1>14. \A u \in Seq(Blocks) :
         /\ Len(Newest(u)) <= 1
         /\ Newest(u) = <<>> <=> u = <<>>
         /\ Len(u) <= 1 => Newest(u) = u
  BY NewestTypes
<1> DEFINE C == Blocks
<1>15. \A u, v \in Seq(C) :
         /\ <<>> \o u = u /\ u \o <<>> = u /\ u \o v \in Seq(C)
         /\ u \o v = <<>> <=> u = <<>> /\ v = <<>>
         /\ u # <<>> /\ v # <<>> => Len(u \o v) > 1
  <2> HIDE DEF C
  <2> SUFFICES ASSUME NEW u \in Seq(C), NEW v \in Seq(C)
               PROVE  /\ <<>> \o u = u /\ u \o <<>> = u /\ u \o v \in Seq(C)
                      /\ u \o v = <<>> <=> u = <<>> /\ v = <<>>
                      /\ u # <<>> /\ v # <<>> => Len(u \o v) > 1
    OBVIOUS
  <2>1. Len(u \o v) = Len(u) + Len(v) /\ u \o v \in Seq(C) /\ Len(u) \in Nat /\ Len(v) \in Nat
    OBVIOUS
  <2>2. <<>> \o u = u /\ u \o <<>> = u
    OBVIOUS
  <2>3. (u = <<>> <=> Len(u) = 0) /\ (v = <<>> <=> Len(v) = 0)
    OBVIOUS
  <2>4. u \o v = <<>> <=> Len(u \o v) = 0
    BY <2>1
  <2> QED BY <2>1, <2>2, <2>3, <2>4
<1>16. Keeps(shown, history \o V, id)
  <2>1. CASE ~Has(V, id)
    <3>1. /\ ResultsIn(V, id) = <<>> /\ ResultsIn(r, id) = <<>> /\ ~Has(r, id)
      BY <1>6, <1>7, <1>11, <1>15, <2>1 DEF C
    <3>2. /\ ResultsIn(history \o V, id) = ResultsIn(history, id)
          /\ Has(history \o V, id) <=> Has(history, id)
          /\ ResultsIn(X, id) = ResultsIn(b, id)
          /\ Has(X, id) <=> Has(b, id)
      BY <1>6, <1>8, <1>15, <2>1, <3>1 DEF C
    <3>3. CASE ~Has(b, id) /\ ResultsIn(b, id) = <<>> /\ Ordered(b, id)
      <4>1. ~Has(shown, id) /\ ResultsIn(shown, id) = <<>>
        BY <1>9, <3>2, <3>3 DEF Newest
      <4>2. Len(<<>>) <= 1
        OBVIOUS
      <4> QED BY <4>1, <4>2 DEF Keeps
    <3>4. CASE /\ Has(b, id) <=> Has(inherited, id)
               /\ ResultsIn(b, id) = ResultsIn(inherited, id)
               /\ Ordered(inherited, id) => Ordered(b, id)
      <4>1. ResultsIn(shown, id) = ResultsIn(inherited, id)
        BY <1>6, <1>9, <1>12, <1>14, <3>2, <3>4
      <4>2. Has(shown, id) <=> Has(inherited, id)
        BY <1>9, <3>2, <3>4
      <4>3. Has(shown, id) => Ordered(shown, id)
        BY <1>9, <1>12, <1>13, <3>1, <3>4, <4>2
      <4> QED BY <1>12, <3>2, <4>1, <4>2, <4>3 DEF Keeps
    <3> QED BY <1>10, <3>3, <3>4
  <2>2. CASE Has(V, id)
    <3>1. /\ ~Has(history, id) /\ ResultsIn(history, id) = <<>> /\ ~Has(inherited, id)
          /\ ResultsIn(inherited, id) = <<>>
      BY <1>11, <1>12, <2>2
    <3>2. ~Has(b, id) /\ ResultsIn(b, id) = <<>>
      BY <1>10, <3>1
    <3>3. /\ ResultsIn(X, id) = ResultsIn(r, id)
          /\ ResultsIn(history \o V, id) = ResultsIn(p, id) \o ResultsIn(r, id)
      BY <1>6, <1>7, <1>8, <1>15, <3>1, <3>2 DEF C
    <3>4. /\ ResultsIn(shown, id) = Newest(ResultsIn(r, id))
          /\ Has(shown, id) <=> Has(r, id)
          /\ Has(history \o V, id)
      BY <1>6, <1>8, <1>9, <2>2, <3>2, <3>3
    <3>5. Len(ResultsIn(shown, id)) <= 1
      BY <1>6, <1>14, <3>4
    <3>6. ResultsIn(shown, id) # <<>> => ResultsIn(history \o V, id) # <<>>
      BY <1>6, <1>7, <1>14, <1>15, <3>3, <3>4 DEF C
    <3>7. CASE Has(r, id)
      <4>1. ResultsIn(p, id) = <<>>
        BY <1>7, <1>11, <3>7
      <4>2. ResultsIn(history \o V, id) = ResultsIn(r, id)
        BY <1>6, <1>15, <3>3, <4>1 DEF C
      <4>3. Ordered(b, id)
        <5>1. \A i \in DOMAIN b : ~Holds(b[i], "tool_call", id)
          BY <3>2 DEF Has
        <5> QED BY <5>1 DEF Ordered, Places
      <4>4. Ordered(shown, id)
        BY <1>9, <1>13, <3>2, <4>3
      <4> QED BY <3>4, <3>5, <3>6, <3>7, <4>2, <4>4 DEF Keeps
    <3>8. CASE ~Has(r, id)
      <4>1. ResultsIn(p, id) # <<>>
        BY <1>5, <1>7, <2>2, <3>8
      <4>2. ResultsIn(shown, id) # <<>> => Len(ResultsIn(history \o V, id)) > 1
        BY <1>6, <1>7, <1>14, <1>15, <3>3, <3>4, <4>1 DEF C
      <4> QED BY <3>4, <3>5, <3>6, <3>8, <4>2 DEF Keeps
    <3> QED BY <3>7, <3>8
  <2> QED BY <2>1, <2>2
<1> QED BY <1>16 DEF shown, V

-----------------------------------------------------------------------------
(* Along the chain of forks.                                                *)

Precedes(g, n) ==
  g = [s \in 1 .. n |-> IF s = 1 THEN <<>>
                        ELSE g[s - 1] \o Visible(ForkEvents(journal, fork, s))]

\* Ancestry is what its definition says.
LEMMA AncestryUnfolds ==
  ASSUME NEW s \in Sessions
  PROVE  Ancestry[s] = IF s = 1 THEN <<>>
                       ELSE Ancestry[s - 1] \o Visible(ForkEvents(journal, fork, s))
<1> DEFINE Body(g, t) == IF t = 1 THEN <<>>
                         ELSE g[t - 1] \o Visible(ForkEvents(journal, fork, t))
           P == {n \in Nat : \E g : Precedes(g, n)}
<1>1. 0 \in P
  <2>1. Precedes([t \in 1 .. 0 |-> <<>>], 0)
    BY DEF Precedes
  <2> QED BY <2>1
<1>2. ASSUME NEW n \in Nat, n \in P PROVE n + 1 \in P
  <2>1. PICK g : Precedes(g, n)
    BY <1>2
  <2> DEFINE h == [t \in 1 .. n + 1 |-> Body(g, t)]
  <2>2. \A t \in 1 .. n + 1 : t # 1 => t - 1 \in 1 .. n /\ t - 1 \in 1 .. n + 1
    OBVIOUS
  <2>3. \A t \in 1 .. n : h[t] = g[t]
    <3>1. g = [t \in 1 .. n |-> Body(g, t)]
      BY <2>1, Zenon DEF Precedes
    <3> HIDE DEF Body
    <3>2. \A t \in 1 .. n : g[t] = Body(g, t)
      BY <3>1
    <3> QED BY <3>2
  <2>4. \A t \in 1 .. n + 1 : Body(g, t) = Body(h, t)
    <3> HIDE DEF h
    <3>1. \A t \in 1 .. n + 1 : t # 1 => g[t - 1] = h[t - 1]
      BY <2>2, <2>3
    <3> QED BY <3>1, Zenon
  <2>5. h = [t \in 1 .. n + 1 |-> Body(h, t)]
    <3> HIDE DEF Body
    <3> QED BY <2>4
  <2>6. Precedes(h, n + 1)
    <3> HIDE DEF h
    <3> QED BY <2>5, Zenon DEF Precedes
  <2> QED BY <2>6
<1>3. Nat \subseteq P
  <2> HIDE DEF P
  <2> QED BY <1>1, <1>2, NatInduct
<1>4. Precedes(Ancestry, Depth)
  <2>1. \E g : Precedes(g, Depth)
    BY <1>3, ContextAssumption
  <2>2. Ancestry = CHOOSE g : Precedes(g, Depth)
    BY Zenon DEF Ancestry, Precedes, Sessions
  <2> QED BY <2>1, <2>2, Zenon
<1>5. Ancestry = [t \in 1 .. Depth |-> Body(Ancestry, t)]
  BY <1>4, Zenon DEF Precedes
<1>6. Ancestry[s] = Body(Ancestry, s)
  <2> HIDE DEF Body
  <2> QED BY <1>5 DEF Sessions
<1> QED BY <1>6, Zenon

\* A journal that is forked has calls and results in order, and no results of others.
LEMMA ForkedPaired ==
  ASSUME NEW s \in Seq(EventsOf(Messages)), Summarized(s), NEW k \in Nat, k <= Len(s),
         NEW id, Paired(Visible(s), id)
  PROVE  LET f == SubSeq(s, 1, k)
         IN  /\ f \in Seq(EventsOf(Messages)) /\ Summarized(f)
             /\ Visible(f) \in Seq(Messages) /\ Paired(Visible(f), id)
             /\ Has(Visible(f), id) \/ ResultsIn(Visible(f), id) # <<>> => Has(Visible(s), id)
<1> DEFINE E == EventsOf(Messages)
           f == SubSeq(s, 1, k)
           p == Visible(f)
           r == Visible(SubSeq(s, k + 1, Len(s)))
<1>1. p \in Seq(Messages) /\ r \in Seq(Messages) /\ Visible(s) = p \o r
  BY VisibleParts
<1>2. s \in Seq(E)
  OBVIOUS
<1> HIDE DEF E
<1>3. f \in Seq(E) /\ DOMAIN f = 1 .. k /\ \A i \in 1 .. k : f[i] = s[i] /\ i \in DOMAIN s
  <2>1. Len(s) \in Nat /\ DOMAIN s = 1 .. Len(s)
    BY <1>2
  <2> QED BY <1>2, <2>1
<1> HIDE DEF f, p, r
<1>4. Summarized(f)
  BY <1>3 DEF Summarized
<1>5. /\ ResultsIn(p \o r, id) = ResultsIn(p, id) \o ResultsIn(r, id)
      /\ Has(p \o r, id) <=> Has(p, id) \/ Has(r, id)
      /\ ResultsIn(p, id) \in Seq(Blocks) /\ ResultsIn(r, id) \in Seq(Blocks)
      /\ Ordered(p \o r, id) => /\ Ordered(p, id)
                                /\ Has(r, id) => ResultsIn(p, id) = <<>>
  BY <1>1, JoinedMessages
<1>6. Ordered(p \o r, id) /\ (ResultsIn(p \o r, id) # <<>> => Has(p \o r, id))
  BY <1>1, Zenon DEF Paired
<1>7. ASSUME ResultsIn(p, id) # <<>> PROVE Has(p, id)
  <2> DEFINE B == Blocks
             u == ResultsIn(p, id)
             v == ResultsIn(r, id)
  <2>1. u \in Seq(B) /\ v \in Seq(B) /\ u # <<>>
    BY <1>5, <1>7
  <2> HIDE DEF B, u, v
  <2>2. u \o v # <<>>
    <3>1. Len(u \o v) = Len(u) + Len(v) /\ Len(u) \in Nat \ {0} /\ Len(v) \in Nat
      BY <2>1
    <3>2. Len(<<>>) = 0
      OBVIOUS
    <3>3. Len(u \o v) # 0
      BY <3>1
    <3> QED BY <3>2, <3>3, Zenon
  <2>3. ResultsIn(p \o r, id) # <<>>
    BY <1>5, <2>2 DEF u, v
  <2> QED BY <1>5, <1>6, <1>7, <2>3
<1>8. Has(p, id) \/ ResultsIn(p, id) # <<>> => Has(Visible(s), id)
  BY <1>1, <1>5, <1>7, Zenon
<1> QED BY <1>1, <1>3, <1>4, <1>5, <1>6, <1>7, <1>8 DEF Paired, E, f, p

\* What the journals hold, so that contexts can keep it.
Separate ==
  /\ \A t \in Sessions : Summarized(journal[t])
  /\ \A t \in Sessions : \A id : Paired(Said(t), id)
  /\ \A t, u \in Sessions : \A id : Has(Said(t), id) /\ Has(Said(u), id) => t = u

\* What a session and those before it recorded of a call.
Traced(n, id) ==
  /\ Ancestry[n] \in Seq(Messages)
  /\ Keeps(Inherited(journal, fork)[n], Ancestry[n], id)
  /\ Has(Ancestry[n], id) \/ ResultsIn(Ancestry[n], id) # <<>> =>
       \E t \in Sessions : t < n /\ Has(Said(t), id)

\* What a session inherits keeps what its ancestors recorded.
LEMMA InheritedKeeps ==
  ASSUME TypeOK, Separate, NEW id
  PROVE  \A s \in Sessions : Begun(s) => Traced(s, id)
<1> DEFINE I == Inherited(journal, fork)
           P == {n \in Nat : n \in Sessions /\ Begun(n) => Traced(n, id)}
<1>1. 0 \in P
  BY ContextAssumption DEF Sessions
<1>2. ASSUME NEW n \in Nat, n \in P PROVE n + 1 \in P
  <2> SUFFICES ASSUME n + 1 \in Sessions, Begun(n + 1) PROVE Traced(n + 1, id)
    OBVIOUS
  <2>1. /\ I[n + 1] = IF n + 1 = 1 THEN <<>>
                      ELSE ProjectContext(ForkEvents(journal, fork, n + 1), I[(n + 1) - 1])
        /\ Ancestry[n + 1] = IF n + 1 = 1 THEN <<>>
                             ELSE Ancestry[(n + 1) - 1] \o Visible(ForkEvents(journal, fork, n + 1))
    BY InheritedUnfolds, AncestryUnfolds
  <2>2. CASE n = 0
    <3>1. <<>> \in Seq(Messages) /\ DOMAIN <<>> = {}
      OBVIOUS
    <3>2. I[n + 1] = <<>> /\ Ancestry[n + 1] = <<>>
      BY <2>1, <2>2
    <3>3. ~Has(<<>>, id)
      BY <3>1 DEF Has
    <3>4. ResultsIn(<<>>, id) = <<>>
      <4>1. ResultsIn(<<>>, id) # <<>> <=> \E i \in DOMAIN <<>> : Holds(<<>>[i], "tool_result", id)
        BY <3>1, JoinedMessages
      <4> QED BY <3>1, <4>1
    <3>5. Len(<<>>) <= 1
      OBVIOUS
    <3> HIDE DEF I
    <3>6. Keeps(<<>>, <<>>, id)
      BY <3>3, <3>4, <3>5 DEF Keeps
    <3> QED BY <3>1, <3>2, <3>3, <3>4, <3>6, Zenon DEF Traced, I
  <2>3. CASE n # 0
    <3> DEFINE f == ForkEvents(journal, fork, n + 1)
    <3>1. n + 1 # 1 /\ (n + 1) - 1 = n
      BY <2>3
    <3>2. n \in Sessions /\ Begun(n) /\ fork[n + 1] \in Nat /\ fork[n + 1] <= Len(journal[n])
          /\ I[n] \in Seq(Messages)
      BY <3>1, InheritedTypes
    <3>3. Traced(n, id)
      BY <1>2, <3>2
    <3>4. journal[n] \in Seq(EventsOf(Messages))
      BY <3>2 DEF TypeOK
    <3>5. Summarized(journal[n]) /\ Paired(Visible(journal[n]), id)
      BY <3>2 DEF Separate, Said
    <3>6. f = SubSeq(journal[n], 1, fork[n + 1])
      BY <3>1 DEF ForkEvents
    <3> HIDE DEF f, I
    <3>7. /\ f \in Seq(EventsOf(Messages)) /\ Summarized(f)
          /\ Visible(f) \in Seq(Messages) /\ Paired(Visible(f), id)
          /\ Has(Visible(f), id) \/ ResultsIn(Visible(f), id) # <<>> => Has(Visible(journal[n]), id)
      BY <3>2, <3>4, <3>5, <3>6, ForkedPaired
    <3>8. I[n + 1] = ProjectContext(f, I[n]) /\ Ancestry[n + 1] = Ancestry[n] \o Visible(f)
      BY <2>1, <3>1 DEF f
    <3>9. Ancestry[n] \in Seq(Messages) /\ Keeps(I[n], Ancestry[n], id)
      BY <3>3 DEF Traced, I
    <3>10. Has(Ancestry[n], id) \/ ResultsIn(Ancestry[n], id) # <<>> =>
             \E t \in Sessions : t < n /\ Has(Said(t), id)
      BY <3>3 DEF Traced
    <3>11. Has(Visible(f), id) => ~Has(Ancestry[n], id) /\ ResultsIn(Ancestry[n], id) = <<>>
      <4> SUFFICES ASSUME Has(Visible(f), id),
                          Has(Ancestry[n], id) \/ ResultsIn(Ancestry[n], id) # <<>>
                   PROVE  FALSE
        OBVIOUS
      <4>1. PICK t \in Sessions : t < n /\ Has(Said(t), id)
        BY <3>10
      <4>2. Has(Said(n), id)
        BY <3>7 DEF Said
      <4>3. t = n
        BY <3>2, <4>1, <4>2 DEF Separate
      <4> QED BY <4>1, <4>3
    <3>12. Keeps(I[n + 1], Ancestry[n + 1], id)
      BY <3>2, <3>7, <3>8, <3>9, <3>11, ProjectKeeps
    <3>13. /\ Ancestry[n + 1] \in Seq(Messages)
           /\ ResultsIn(Ancestry[n + 1], id) = ResultsIn(Ancestry[n], id) \o ResultsIn(Visible(f), id)
           /\ Has(Ancestry[n + 1], id) <=> Has(Ancestry[n], id) \/ Has(Visible(f), id)
      BY <3>7, <3>8, <3>9, JoinedMessages
    <3>14. <<>> \o <<>> = <<>>
      OBVIOUS
    <3>15. ASSUME Has(Ancestry[n + 1], id) \/ ResultsIn(Ancestry[n + 1], id) # <<>>
           PROVE  \E t \in Sessions : t < n + 1 /\ Has(Said(t), id)
      <4>1. \/ Has(Ancestry[n], id) \/ ResultsIn(Ancestry[n], id) # <<>>
            \/ Has(Visible(f), id) \/ ResultsIn(Visible(f), id) # <<>>
        BY <3>13, <3>14, <3>15, Zenon
      <4>2. CASE Has(Ancestry[n], id) \/ ResultsIn(Ancestry[n], id) # <<>>
        <5>1. PICK t \in Sessions : t < n /\ Has(Said(t), id)
          BY <3>10, <4>2
        <5>2. t < n + 1
          BY <5>1 DEF Sessions
        <5> QED BY <5>1, <5>2
      <4>3. CASE Has(Visible(f), id) \/ ResultsIn(Visible(f), id) # <<>>
        <5>1. Has(Said(n), id) /\ n < n + 1
          BY <3>7, <4>3 DEF Said
        <5> QED BY <3>2, <5>1
      <4> QED BY <4>1, <4>2, <4>3
    <3> QED BY <3>12, <3>13, <3>15 DEF Traced, I
  <2> QED BY <2>2, <2>3
<1>3. Nat \subseteq P
  <2> HIDE DEF P
  <2> QED BY <1>1, <1>2, NatInduct
<1>4. \A s \in Sessions : s \in Nat
  BY DEF Sessions
<1> QED BY <1>3, <1>4

\* So what a session is shown keeps what it and its ancestors recorded.
LEMMA ShownKeeps ==
  ASSUME TypeOK, Separate
  PROVE  CallsKeepResults
<1> SUFFICES ASSUME NEW s \in Sessions, Begun(s), NEW id
             PROVE  LET shown == Shown(s)
                        calls == Places(shown, "tool_call", id)
                        results == ResultsIn(shown, id)
                        recorded == ResultsIn(History(s), id)
                    IN  /\ calls # {} /\ recorded # <<>> =>
                             /\ results = <<Last(recorded)>>
                             /\ \A i \in calls, j \in Places(shown, "tool_result", id) : i < j
                        /\ Len(results) <= 1
                        /\ calls = {} /\ results # <<>> => Len(recorded) > 1
  BY Zenon DEF CallsKeepResults
<1> DEFINE I == Inherited(journal, fork)[s]
           j == journal[s]
           V == Visible(j)
           A == Ancestry[s]
<1>1. Traced(s, id)
  BY InheritedKeeps
<1>2. I \in Seq(Messages)
  BY InheritedTypes
<1>3. j \in Seq(EventsOf(Messages))
  BY DEF TypeOK
<1>4. Summarized(j) /\ Paired(V, id)
  BY DEF Separate, Said
<1>5. Has(V, id) => ~Has(A, id) /\ ResultsIn(A, id) = <<>>
  <2> SUFFICES ASSUME Has(V, id), Has(A, id) \/ ResultsIn(A, id) # <<>>
               PROVE  FALSE
    OBVIOUS
  <2>1. PICK t \in Sessions : t < s /\ Has(Said(t), id)
    BY <1>1 DEF Traced
  <2>2. t = s
    BY <2>1 DEF Separate, Said
  <2> QED BY <2>1, <2>2 DEF Sessions
<1>6. A \in Seq(Messages) /\ Keeps(I, A, id)
  BY <1>1 DEF Traced
<1> HIDE DEF I, j, V, A
<1>7. Keeps(ProjectContext(j, I), A \o V, id)
  BY <1>2, <1>3, <1>4, <1>5, <1>6, ProjectKeeps DEF V
<1>8. ProjectContext(j, I) = Shown(s) /\ A \o V = History(s)
  BY Zenon DEF Shown, Project, History, I, j, A, V
<1>9. Keeps(Shown(s), History(s), id)
  BY <1>7, <1>8, Zenon
<1>10. Places(Shown(s), "tool_call", id) # {} <=> Has(Shown(s), id)
  BY Zenon DEF Places, Has
<1> QED BY <1>9, <1>10, Zenon DEF Keeps, Newest, Ordered

-----------------------------------------------------------------------------
(* The calls that answers make.                                             *)

\* The blocks of answers whose calls have ids of a set.
CallingOnly(S) == {b \in AnswerBlocks : b.type = "tool_call" => b.id \in S}

\* An answer of openai-chat makes no calls but its own.
LEMMA ChatCalls ==
  ASSUME NEW answer \in ChatAnswers, NEW options \in NormalizeOptions, NEW S,
         \A i \in DOMAIN answer.calls : answer.calls[i].id \in S
  PROVE  FromChat(answer, options) \in Seq(CallingOnly(S))
<1> DEFINE B == AnswerBlocks
           C == CallingOnly(S)
           all == FromChat(answer, options)
           parts == [i \in DOMAIN answer.parts |-> FromChatPart(answer.parts[i], options)]
           said == IF answer.content # <<>> THEN <<Text(answer.content, None)>>
                   ELSE FlattenSeq(parts)
           refused == IF answer.refusal = None THEN <<>> ELSE <<Text(answer.refusal, None)>>
           texts == [i \in DOMAIN answer.details |-> TextOf(answer.details[i].text)]
           plain == IF answer.reasoning # None THEN answer.reasoning ELSE FlattenSeq(texts)
           calls == [i \in DOMAIN answer.calls |->
                      <<ToolCall(answer.calls[i].id, ParseArguments(answer.calls[i].arguments),
                                 Kept(answer.calls[i], options))>>]
           reason == Reasoning(IF plain = <<>> THEN None ELSE plain, answer.details, None)
           last == IF plain = <<>> /\ answer.details = <<>> THEN <<>> ELSE <<reason>>
           called == FlattenSeq(calls)
<1>1. all = said \o refused \o called \o last
  BY Zenon DEF FromChat, Each
<1>2. all \in Seq(B)
  BY ChatTypes
<1> HIDE DEF all
<1>3. \A x, v : Text(x, v).type # "tool_call"
  BY DEF Text
<1>4. ASSUME NEW p \in ChatParts
      PROVE  FromChatPart(p, options) \in Seq({b \in B : b.type # "tool_call"})
  <2>1. FromChatPart(p, options) \in Seq(B)
    BY ChatPartTypes
  <2>2. CASE p.type = "text"
    <3> DEFINE t == Text(p.text, Kept(p, options))
    <3>1. FromChatPart(p, options) = <<t>> /\ t.type # "tool_call"
      BY <2>2, <1>3 DEF FromChatPart
    <3> HIDE DEF t, B
    <3>2. t \in B
      BY <2>1, <3>1
    <3> QED BY <3>1, <3>2
  <2>3. CASE p.type # "text"
    <3> DEFINE t == ProviderBlock("openai-chat", "content", p)
    <3>1. t.type # "tool_call"
      BY DEF ProviderBlock
    <3>2. FromChatPart(p, options) = IF options.unknown THEN <<t>> ELSE <<>>
      BY <2>3 DEF FromChatPart, UnknownBlock
    <3> HIDE DEF t, B
    <3>3. options.unknown => t \in B
      BY <2>1, <3>2
    <3> QED BY <3>1, <3>2, <3>3
  <2> QED BY <2>2, <2>3
<1>5. /\ answer.content \in Texts /\ answer.parts \in Seq(ChatParts)
      /\ answer.refusal \in Maybe(Texts) /\ answer.calls \in Seq(WireCalls)
  BY ChatFields
<1> DEFINE O == {b \in B : b.type # "tool_call"}
<1>6. O \subseteq C /\ \A b \in B : b.type = "tool_call" /\ b.id \in S => b \in C
  BY DEF CallingOnly
<1>7. FlattenSeq(parts) \in Seq(C)
  <2>1. \A s : s \in Seq(O) => s \in Seq(C)
    <3> HIDE DEF O, C
    <3> QED BY <1>6
  <2>2. \A i \in DOMAIN answer.parts : FromChatPart(answer.parts[i], options) \in Seq(C)
    <3>1. \A i \in DOMAIN answer.parts : answer.parts[i] \in ChatParts
      BY <1>5
    <3> HIDE DEF C
    <3> QED BY <1>4, <2>1, <3>1
  <2>3. Len(answer.parts) \in Nat /\ DOMAIN answer.parts = 1 .. Len(answer.parts)
    BY <1>5
  <2> HIDE DEF C
  <2>4. parts \in [1 .. Len(answer.parts) -> Seq(C)]
    BY <2>2, <2>3
  <2> HIDE DEF parts
  <2> QED BY <2>3, <2>4, FlattenTyped
<1>8. \A text \in Texts : <<Text(text, None)>> \in Seq(C)
  <2>1. \A text \in Texts : Text(text, None) \in O
    <3>1. None \in Maybe(WireItems)
      BY DEF Maybe
    <3> QED BY <1>3, <3>1, BlockTypes
  <2> HIDE DEF O, C
  <2> QED BY <1>6, <2>1
<1>9. said \in Seq(C) /\ refused \in Seq(C)
  <2>1. answer.refusal # None => answer.refusal \in Texts
    BY <1>5 DEF Maybe
  <2>2. <<>> \in Seq(C)
    OBVIOUS
  <2> HIDE DEF C, parts
  <2> QED BY <1>5, <1>7, <1>8, <2>1, <2>2
<1>10. called \in Seq(C)
  <2>1. ASSUME NEW i \in DOMAIN answer.calls
        PROVE  ToolCall(answer.calls[i].id, ParseArguments(answer.calls[i].arguments),
                        Kept(answer.calls[i], options)) \in C
    <3> DEFINE c == answer.calls[i]
    <3>1. c \in WireCalls
      BY <1>5
    <3> HIDE DEF c
    <3>2. c \in WireItems /\ c.id \in Maybe(STRING) /\ c.arguments \in Texts
      BY <3>1 DEF WireItems, WireCalls
    <3>3. ToolCall(c.id, ParseArguments(c.arguments), Kept(c, options)) \in AnswerBlocks
      BY <3>2, ParsedTypes, KeptTypes, BlockTypes
    <3>4. ToolCall(c.id, ParseArguments(c.arguments), Kept(c, options)).id = c.id
          /\ ToolCall(c.id, ParseArguments(c.arguments), Kept(c, options)).type = "tool_call"
      BY DEF ToolCall
    <3>5. c.id \in S
      BY DEF c
    <3> HIDE DEF C
    <3> QED BY <1>6, <3>3, <3>4, <3>5, Zenon DEF c
  <2>2. Len(answer.calls) \in Nat /\ DOMAIN answer.calls = 1 .. Len(answer.calls)
    BY <1>5
  <2>3. calls \in [1 .. Len(answer.calls) -> Seq(C)]
    <3> HIDE DEF C
    <3> QED BY <2>1, <2>2
  <2> HIDE DEF calls, C
  <2> QED BY <2>2, <2>3, FlattenTyped
<1>11. last \in Seq(C)
  <2>1. reason.type = "reasoning"
    BY DEF Reasoning
  <2> DEFINE front == said \o refused \o called
  <2>2. said \in Seq(B) /\ refused \in Seq(B) /\ called \in Seq(B)
    <3>1. C \subseteq B
      BY DEF CallingOnly
    <3>2. \A s : s \in Seq(C) => s \in Seq(B)
      <4> HIDE DEF B, C
      <4> QED BY <3>1
    <3> HIDE DEF said, refused, called
    <3> QED BY <1>9, <1>10, <3>2
  <2> HIDE DEF reason, plain
  <2>3. CASE plain = <<>> /\ answer.details = <<>>
    BY <2>3
  <2>4. CASE ~(plain = <<>> /\ answer.details = <<>>)
    <3>1. all = said \o refused \o called \o <<reason>>
      BY <1>1, <2>4
    <3> HIDE DEF B, said, refused, called
    <3>2. reason \in B
      <4> DEFINE n == Len(said) + Len(refused) + Len(called) + 1
      <4>1. n \in DOMAIN (said \o refused \o called \o <<reason>>)
            /\ (said \o refused \o called \o <<reason>>)[n] = reason
        <5>1. front \in Seq(B) /\ Len(front) = Len(said) + Len(refused) + Len(called)
          BY <2>2
        <5>2. n = Len(front) + 1
          BY <5>1
        <5> HIDE DEF front, n
        <5>3. Len(front) \in Nat /\ Len(front \o <<reason>>) = Len(front) + 1
              /\ (front \o <<reason>>)[Len(front) + 1] = reason
              /\ DOMAIN (front \o <<reason>>) = 1 .. Len(front) + 1
          BY <5>1
        <5> QED BY <5>2, <5>3 DEF front
      <4>2. n \in DOMAIN all /\ all[n] = reason
        BY <3>1, <4>1
      <4> HIDE DEF n
      <4> QED BY <1>2, <4>2
    <3>3. reason \in C
      <4> HIDE DEF C
      <4> QED BY <1>6, <2>1, <3>2
    <3> HIDE DEF C
    <3> QED BY <2>4, <3>3
  <2> QED BY <2>3, <2>4
<1>12. \A u, v, w, x \in Seq(C) : u \o v \o w \o x \in Seq(C)
  OBVIOUS
<1> HIDE DEF C, said, refused, called, last
<1>13. all \in Seq(C)
  BY <1>1, <1>9, <1>10, <1>11, <1>12
<1> QED BY <1>13 DEF C, all

\* The fields of a message that is an answer.
LEMMA NormalizedFields ==
  ASSUME NEW provider, NEW wire, NEW options
  PROVE  LET m == Normalized(provider, wire, options)
         IN  /\ m.role = "assistant" /\ m.provider = provider /\ m.answer.wire = wire
             /\ provider = "openai-chat" => m.content = FromChat(wire, options)
<1> DEFINE content == CASE provider = "openai"    -> Each(wire, LAMBDA i : FromOpenAIItem(i, options))
                        [] provider = "anthropic" -> Each(wire, LAMBDA b : FromAnthropicBlock(b, options))
                        [] OTHER                  -> FromChat(wire, options)
<1>1. provider = "openai-chat" => content = FromChat(wire, options)
  OBVIOUS
<1>2. Normalized(provider, wire, options)
        = [role |-> "assistant", content |-> content, provider |-> provider,
           answer |-> [wire |-> wire, options |-> options]]
  <2>1. Normalized(provider, wire, options)
          = [Message("assistant", content) EXCEPT
               !.provider = provider, !.answer = [wire |-> wire, options |-> options]]
    BY Zenon DEF Normalized
  <2> HIDE DEF content
  <2> QED BY <2>1 DEF Message
<1> HIDE DEF content
<1> QED BY <1>1, <1>2

\* What was accumulated of a stream makes no calls but those of the answer.
LEMMA StreamedCalls ==
  ASSUME NEW answer \in Streamed, NEW acc, IsAccumulator(acc, answer.wire), NEW id,
         Holds(Normalized("openai-chat", Response(acc), answer.options), "tool_call", id)
  PROVE  id \in IdsStreamed
<1> DEFINE wire == answer.wire
           response == Response(acc)
           W == {c \in WireCalls : c.id \in IdsStreamed}
           m == Normalized("openai-chat", response, answer.options)
<1>1. wire \in ChatAnswers /\ answer.options \in NormalizeOptions
  BY StreamedTypes
<1>2. PICK D \in SUBSET DOMAIN wire.calls :
        acc.calls \in [D -> WireCalls] /\ \A k \in D : acc.calls[k].id \in {None, wire.calls[k].id}
  BY DEF IsAccumulator
<1>3. \A k \in DOMAIN wire.calls : wire.calls[k].id \in IdsStreamed
  BY DEF IdsStreamed, IdsOf
<1>4. None \in IdsStreamed
  BY DEF IdsStreamed
<1>5. wire.calls \in Seq(WireCalls)
  BY <1>1, ChatFields
<1>6. Len(wire.calls) \in Nat /\ DOMAIN wire.calls = 1 .. Len(wire.calls)
  BY <1>5
<1>7. acc.calls \in [D -> W]
  <2>1. \A k \in D : acc.calls[k] \in WireCalls /\ acc.calls[k].id \in IdsStreamed
    BY <1>2, <1>3, <1>4
  <2> QED BY <1>2, <2>1
<1> HIDE DEF W
<1>8. Values(acc.calls) \in Seq(W)
  BY <1>2, <1>6, <1>7, ValuesTypes, Zenon
<1>9. response.calls = Values(acc.calls)
  BY DEF Response, ChatAnswer
<1>10. response \in ChatAnswers
  BY <1>1, ResponseTypes
<1>11. \A i \in DOMAIN response.calls : response.calls[i].id \in IdsStreamed
  <2>1. \A i \in DOMAIN Values(acc.calls) : Values(acc.calls)[i] \in W
    BY <1>8
  <2>2. \A c \in W : c.id \in IdsStreamed
    BY DEF W
  <2> QED BY <1>9, <2>1, <2>2
<1>12. m.content = FromChat(response, answer.options)
  BY NormalizedFields
<1> HIDE DEF response
<1>13. FromChat(response, answer.options) \in Seq(CallingOnly(IdsStreamed))
  BY <1>1, <1>10, <1>11, ChatCalls
<1>14. PICK i \in DOMAIN m.content : m.content[i].type = "tool_call" /\ m.content[i].id = id
  BY DEF Holds, response
<1> DEFINE C == CallingOnly(IdsStreamed)
<1> HIDE DEF m
<1>15. m.content[i] \in C
  <2> HIDE DEF C
  <2> QED BY <1>12, <1>13, <1>14 DEF C
<1> QED BY <1>14, <1>15 DEF CallingOnly

\* The calls of an answer that arrives whole.
LEMMA WholeCalls ==
  ASSUME NEW a \in Whole, NEW id
  PROVE  Holds(Normalized(a.provider, a.wire, a.options), "tool_call", id) <=> id \in IdsOfAnswer(a)
<1> DEFINE m == Normalized(a.provider, a.wire, a.options)
<1>1. m \in Messages
  BY AnswerTypes
<1>2. IdsOfAnswer(a) = IdsOf(BlocksIn(<<m>>, "tool_call"))
  BY Zenon DEF IdsOfAnswer
<1> HIDE DEF m
<1>3. <<m>> \in Seq(Messages)
  <2> DEFINE M == Messages
  <2>1. m \in M
    BY <1>1
  <2> HIDE DEF M
  <2>2. <<m>> \in Seq(M)
    BY <2>1
  <2> QED BY <2>2 DEF M
<1>4. id \in IdsOfAnswer(a) <=> Has(<<m>>, id)
  BY <1>2, <1>3, CallsHeld
<1>5. DOMAIN <<m>> = {1} /\ <<m>>[1] = m
  OBVIOUS
<1>6. Has(<<m>>, id) <=> Holds(m, "tool_call", id)
  BY <1>5 DEF Has
<1> QED BY <1>4, <1>6 DEF m

-----------------------------------------------------------------------------
(* Calls keep their results.                                                *)

\* Where the calls of journals come from.
Origins ==
  \A t \in Sessions : \A id : Has(Said(t), id) =>
    id \in IdsStreamed \/ \E a \in Whole : Given(a) /\ id \in IdsOfAnswer(a)

\* The first session is begun, and nothing is recorded while its first answer
\* arrives.
First ==
  /\ journal[1] # <<>>
  /\ Len(journal[1]) = 1 =>
       \A t \in Sessions : Said(t) = <<>> /\ (t # 1 => journal[t] = <<>>)
  /\ stream # None => Len(journal[1]) = 1

\* The inductive invariant.
Intact == TypeOK /\ Separate /\ Origins /\ First

\* What an event may say: nothing of a call that is not its session's, and
\* calls of its own that are new, of an answer.
Sound(t, e) ==
  /\ e.type = "context.compacted" => e.summary \in PlainMessages
  /\ e.message # None => \A id :
       /\ Dropped(e.message, {id}) => Has(Said(t), id)
       /\ Holds(e.message, "tool_call", id) =>
            /\ \A u \in Sessions : ~Has(Said(u), id)
            /\ \/ id \in IdsStreamed
               \/ \E a \in Whole : /\ e.message.provider = a.provider
                                   /\ e.message.answer.wire = a.wire
                                   /\ id \in IdsOfAnswer(a)

\* What journals say after an event is recorded.
LEMMA SaidNext ==
  ASSUME TypeOK, NEW t \in Sessions, NEW e \in EventsOf(Messages), Record(t, e)
  PROVE  /\ journal'[t] = Append(journal[t], e)
         /\ \A u \in Sessions : u # t => journal'[u] = journal[u]
         /\ \A u \in Sessions : Visible(journal[u]) \in Seq(Messages)
         /\ e.message = None \/ e.message \in Messages
         /\ Visible(journal'[t]) = IF e.message = None THEN Said(t) ELSE Append(Said(t), e.message)
<1> DEFINE Event == EventsOf(Messages)
<1>1. e.message = None \/ e.message \in Messages
  BY DEF EventsOf
<1>2. ASSUME NEW u \in Sessions PROVE journal[u] \in Seq(Event)
  BY DEF TypeOK
<1>3. \A u \in Sessions : Visible(journal[u]) \in Seq(Messages)
  BY <1>2, VisibleTypes
<1>4. DOMAIN journal = Sessions
  BY DEF TypeOK
<1>5. journal' = [journal EXCEPT ![t] = Append(@, e)]
  BY DEF Record
<1> HIDE DEF Event
<1>6. journal'[t] = Append(journal[t], e) /\ \A u \in Sessions : u # t => journal'[u] = journal[u]
  BY <1>4, <1>5
<1>7. Visible(Append(journal[t], e))
        = IF e.message = None THEN Visible(journal[t]) ELSE Append(Visible(journal[t]), e.message)
  BY <1>2, VisibleUnfolds DEF Event
<1> QED BY <1>1, <1>3, <1>6, <1>7, Zenon DEF Said

\* Recording a sound event keeps journals in order.
LEMMA RecordKeeps ==
  ASSUME TypeOK, Separate, Origins, NEW t \in Sessions, NEW e \in EventsOf(Messages),
         Record(t, e), Sound(t, e)
  PROVE  Separate' /\ Origins'
<1> DEFINE m == e.message
           V(u) == Visible(journal[u])
           W(u) == Visible(journal'[u])
           New(u, id) == u = t /\ m # None /\ Holds(m, "tool_call", id)
<1>1. /\ journal'[t] = Append(journal[t], e)
      /\ \A u \in Sessions : u # t => journal'[u] = journal[u]
      /\ \A u \in Sessions : V(u) \in Seq(Messages)
      /\ m = None \/ m \in Messages
      /\ W(t) = IF m = None THEN V(t) ELSE Append(V(t), m)
  BY SaidNext DEF Said
<1>2. /\ \A u \in Sessions : \A id : Paired(V(u), id)
      /\ \A u \in Sessions : Summarized(journal[u])
      /\ \A u, v \in Sessions : \A id : Has(V(u), id) /\ Has(V(v), id) => u = v
  BY Zenon DEF Separate, Said
<1>3. /\ e.type = "context.compacted" => e.summary \in PlainMessages
      /\ m # None => \A id :
           /\ Dropped(m, {id}) => Has(V(t), id)
           /\ Holds(m, "tool_call", id) =>
                /\ \A u \in Sessions : ~Has(V(u), id)
                /\ \/ id \in IdsStreamed
                   \/ \E a \in Whole : /\ m.provider = a.provider /\ m.answer.wire = a.wire
                                       /\ id \in IdsOfAnswer(a)
  BY Zenon DEF Sound, Said
<1>4. \A u \in Sessions : u # t => W(u) = V(u)
  BY <1>1, Zenon
<1>5. \A u \in Sessions : Summarized(journal'[u])
  <2>1. Summarized(Append(journal[t], e))
    <3> DEFINE Event == EventsOf(Messages)
               j == journal[t]
    <3>1. j \in Seq(Event) /\ e \in Event /\ Summarized(j)
      BY <1>2 DEF TypeOK
    <3> HIDE DEF Event, j
    <3>2. \A i \in DOMAIN Append(j, e) : (i \in DOMAIN j /\ Append(j, e)[i] = j[i]) \/ Append(j, e)[i] = e
      BY <3>1
    <3> QED BY <1>3, <3>1, <3>2 DEF Summarized, j
  <2> QED BY <1>1, <1>2, <2>1
<1> HIDE DEF m, V, W
<1>6. ASSUME NEW id
      PROVE  /\ \A u \in Sessions : Has(W(u), id) <=> Has(V(u), id) \/ New(u, id)
             /\ Paired(W(t), id)
  <2>1. CASE m = None
    <3>1. W(t) = V(t)
      BY <1>1, <2>1
    <3> QED BY <1>2, <1>4, <2>1, <3>1
  <2>2. CASE m # None
    <3>1. m \in Messages /\ W(t) = Append(V(t), m) /\ V(t) \in Seq(Messages)
      BY <1>1, <2>2
    <3>2. /\ ResultsIn(Append(V(t), m), id)
               = IF Dropped(m, {id}) THEN Append(ResultsIn(V(t), id), m.content[1])
                 ELSE ResultsIn(V(t), id)
          /\ Has(Append(V(t), m), id) <=> Has(V(t), id) \/ Holds(m, "tool_call", id)
          /\ Ordered(Append(V(t), m), id) <=>
               /\ Ordered(V(t), id)
               /\ Holds(m, "tool_call", id) => ResultsIn(V(t), id) = <<>>
      BY <3>1, OneMoreMessage
    <3>3. Ordered(V(t), id) /\ (ResultsIn(V(t), id) # <<>> => Has(V(t), id))
      BY <1>2 DEF Paired
    <3>4. /\ Dropped(m, {id}) => Has(V(t), id)
          /\ Holds(m, "tool_call", id) => ~Has(V(t), id)
      BY <1>3, <2>2
    <3>5. Paired(W(t), id)
      <4>1. Ordered(W(t), id)
        BY <3>1, <3>2, <3>3, <3>4
      <4>2. ResultsIn(W(t), id) # <<>> => Has(W(t), id)
        BY <3>1, <3>2, <3>3, <3>4
      <4> QED BY <4>1, <4>2 DEF Paired
    <3>6. \A u \in Sessions : Has(W(u), id) <=> Has(V(u), id) \/ New(u, id)
      <4>1. Has(W(t), id) <=> Has(V(t), id) \/ New(t, id)
        BY <2>2, <3>1, <3>2
      <4> QED BY <1>4, <4>1
    <3> QED BY <3>5, <3>6
  <2> QED BY <2>1, <2>2
<1>7. \A u \in Sessions : \A id : Paired(W(u), id)
  BY <1>2, <1>4, <1>6
<1>8. ASSUME NEW u \in Sessions, NEW v \in Sessions, NEW id, Has(W(u), id), Has(W(v), id)
      PROVE  u = v
  <2>1. (Has(V(u), id) \/ New(u, id)) /\ (Has(V(v), id) \/ New(v, id))
    BY <1>6, <1>8
  <2>2. \A w \in Sessions : New(w, id) => w = t /\ \A x \in Sessions : ~Has(V(x), id)
    BY <1>3
  <2> HIDE DEF New
  <2> QED BY <1>2, <2>1, <2>2
<1>9. Separate'
  BY <1>5, <1>7, <1>8, Zenon DEF Separate, Said, W
<1>10. ASSUME NEW a, Given(a) PROVE Given(a)'
  <2>1. PICK u \in Sessions : \E i \in DOMAIN V(u) :
          V(u)[i].provider = a.provider /\ V(u)[i].answer.wire = a.wire
    BY <1>10, Zenon DEF Given, Said, V
  <2>2. PICK i \in DOMAIN V(u) : V(u)[i].provider = a.provider /\ V(u)[i].answer.wire = a.wire
    BY <2>1
  <2>3. i \in DOMAIN W(u) /\ W(u)[i] = V(u)[i]
    <3>1. CASE W(u) = V(u)
      BY <2>2, <3>1
    <3>2. CASE W(u) # V(u)
      <4>1. W(u) = Append(V(u), m) /\ V(u) \in Seq(Messages)
        BY <1>1, <1>4, <3>2
      <4> DEFINE M == Messages
                 x == V(u)
      <4>2. x \in Seq(M)
        BY <4>1
      <4> HIDE DEF M, x
      <4>3. \A k \in DOMAIN x : k \in DOMAIN Append(x, m) /\ Append(x, m)[k] = x[k]
        BY <4>2
      <4> QED BY <2>2, <4>1, <4>3 DEF x
    <3> QED BY <3>1, <3>2
  <2>4. \E k \in DOMAIN W(u) : W(u)[k].provider = a.provider /\ W(u)[k].answer.wire = a.wire
    BY <2>2, <2>3
  <2> QED BY <2>4, Zenon DEF Given, Said, W
<1>11. ASSUME NEW a, m # None, m.provider = a.provider, m.answer.wire = a.wire PROVE Given(a)'
  <2>1. W(t) = Append(V(t), m) /\ V(t) \in Seq(Messages)
    BY <1>1, <1>11
  <2> DEFINE M == Messages
             x == V(t)
  <2>2. x \in Seq(M)
    BY <2>1
  <2> HIDE DEF M, x
  <2>3. Len(x) + 1 \in DOMAIN Append(x, m) /\ Append(x, m)[Len(x) + 1] = m
    BY <2>2
  <2>4. \E k \in DOMAIN W(t) : W(t)[k].provider = a.provider /\ W(t)[k].answer.wire = a.wire
    BY <1>11, <2>1, <2>3, Zenon DEF x
  <2> QED BY <2>4, Zenon DEF Given, Said, W
<1>12. ASSUME NEW u \in Sessions, NEW id, Has(W(u), id)
       PROVE  id \in IdsStreamed \/ \E a \in Whole : Given(a)' /\ id \in IdsOfAnswer(a)
  <2>1. CASE Has(V(u), id)
    <3>1. id \in IdsStreamed \/ \E a \in Whole : Given(a) /\ id \in IdsOfAnswer(a)
      BY <2>1, Zenon DEF Origins, Said, V
    <3> QED BY <1>10, <3>1
  <2>2. CASE New(u, id)
    <3>1. m # None /\ Holds(m, "tool_call", id)
      BY <2>2
    <3>2. \/ id \in IdsStreamed
          \/ \E a \in Whole : /\ m.provider = a.provider /\ m.answer.wire = a.wire
                              /\ id \in IdsOfAnswer(a)
      BY <1>3, <3>1
    <3> QED BY <1>11, <3>1, <3>2
  <2> HIDE DEF New
  <2> QED BY <1>6, <1>12, <2>1, <2>2
<1>13. Origins'
  <2>1. Origins' <=> \A u \in Sessions : \A id : Has(W(u), id) =>
          id \in IdsStreamed \/ \E a \in Whole : Given(a)' /\ id \in IdsOfAnswer(a)
    BY Zenon DEF Origins, Said, W
  <2> QED BY <1>12, <2>1
<1> QED BY <1>9, <1>13

\* When an event is recorded, the first session has more than its first.
LEMMA RecordFirst ==
  ASSUME TypeOK, First, NEW t \in Sessions, NEW e \in EventsOf(Messages), Record(t, e),
         t = 1 \/ Begun(t), stream' = None
  PROVE  First'
<1> DEFINE Event == EventsOf(Messages)
           j == journal[1]
<1>1. journal'[t] = Append(journal[t], e) /\ \A u \in Sessions : u # t => journal'[u] = journal[u]
  BY SaidNext
<1>2. 1 \in Sessions
  BY ContextAssumption DEF Sessions
<1>3. j \in Seq(Event) /\ j # <<>> /\ e \in Event
  BY <1>2 DEF TypeOK, First
<1>4. t # 1 => Len(j) # 1
  BY Zenon DEF First, Begun
<1> HIDE DEF Event, j
<1>5. /\ Len(j) \in Nat \ {0} /\ Len(Append(j, e)) = Len(j) + 1
      /\ Append(j, e) # <<>>
  BY <1>3
<1>6. journal'[1] # <<>> /\ Len(journal'[1]) # 1
  <2>1. CASE t = 1
    <3>1. journal'[1] = Append(j, e)
      BY <1>1, <2>1 DEF j
    <3> QED BY <1>5, <3>1
  <2>2. CASE t # 1
    <3>1. journal'[1] = j
      BY <1>1, <1>2, <2>2 DEF j
    <3> QED BY <1>3, <1>4, <2>2, <3>1
  <2> QED BY <2>1, <2>2
<1> QED BY <1>6, Zenon DEF First

\* Journals that say the same are in order still.
LEMMA SameKeeps ==
  ASSUME Separate, Origins,
         \A u \in Sessions : Visible(journal'[u]) = Visible(journal[u]),
         \A u \in Sessions : Summarized(journal'[u])
  PROVE  Separate' /\ Origins'
<1> DEFINE V(u) == Visible(journal[u])
           W(u) == Visible(journal'[u])
<1>1. \A u \in Sessions : W(u) = V(u)
  OBVIOUS
<1>2. /\ \A u \in Sessions : \A id : Paired(V(u), id)
      /\ \A u, v \in Sessions : \A id : Has(V(u), id) /\ Has(V(v), id) => u = v
  BY Zenon DEF Separate, Said
<1>3. \A u \in Sessions : \A id : Has(V(u), id) =>
        id \in IdsStreamed \/ \E a \in Whole : Given(a) /\ id \in IdsOfAnswer(a)
  BY Zenon DEF Origins, Said
<1>4. \A a : Given(a) <=> \E u \in Sessions : \E i \in DOMAIN V(u) :
        V(u)[i].provider = a.provider /\ V(u)[i].answer.wire = a.wire
  BY Zenon DEF Given, Said
<1>5. \A a : Given(a)' <=> \E u \in Sessions : \E i \in DOMAIN W(u) :
        W(u)[i].provider = a.provider /\ W(u)[i].answer.wire = a.wire
  BY Zenon DEF Given, Said
<1>6. Separate' <=>
        /\ \A u \in Sessions : Summarized(journal'[u])
        /\ \A u \in Sessions : \A id : Paired(W(u), id)
        /\ \A u, v \in Sessions : \A id : Has(W(u), id) /\ Has(W(v), id) => u = v
  BY Zenon DEF Separate, Said
<1>7. Origins' <=> \A u \in Sessions : \A id : Has(W(u), id) =>
        id \in IdsStreamed \/ \E a \in Whole : Given(a)' /\ id \in IdsOfAnswer(a)
  BY Zenon DEF Origins, Said
<1> HIDE DEF V, W
<1>8. \A a : Given(a)' <=> Given(a)
  BY <1>1, <1>4, <1>5, Zenon
<1>9. Separate'
  BY <1>1, <1>2, <1>6
<1>10. Origins'
  BY <1>1, <1>3, <1>7, <1>8
<1> QED BY <1>9, <1>10

\* A fork adds events that say nothing.
LEMMA ForkKeeps ==
  ASSUME Intact, NEW s \in Sessions, Fork(s)
  PROVE  Separate' /\ Origins' /\ First'
<1> DEFINE Event == EventsOf(Messages)
           began == Trace("session.started")
           link == Trace("child.started")
           parent == journal[s - 1]
<1>1. /\ s > 1 /\ journal[s] = <<>> /\ parent # <<>> /\ stream = None /\ stream' = stream
      /\ journal' = [journal EXCEPT ![s] = <<began>>, ![s - 1] = Append(@, link)]
  BY DEF Fork, Begun
<1>2. s - 1 \in Sessions /\ s - 1 # s /\ 1 \in Sessions
  BY <1>1, ContextAssumption DEF Sessions
<1>3. began \in Event /\ link \in Event /\ began.message = None /\ link.message = None
      /\ began.type # "context.compacted" /\ link.type # "context.compacted"
  BY EventTypes DEF Trace
<1>4. journal \in [Sessions -> Seq(Event)] /\ \A u \in Sessions : Summarized(journal[u])
  BY DEF Intact, TypeOK, Separate
<1> HIDE DEF Event, began, link
<1>5. parent \in Seq(Event)
  BY <1>2, <1>4
<1>6. /\ journal'[s] = <<began>> /\ journal'[s - 1] = Append(parent, link)
      /\ \A u \in Sessions : u # s /\ u # s - 1 => journal'[u] = journal[u]
  BY <1>1, <1>2, <1>4
<1> HIDE DEF parent
<1>7. /\ Visible(<<>>) = <<>> /\ Visible(<<began>>) = <<>>
      /\ Visible(Append(parent, link)) = Visible(parent)
  <2>1. <<began>> = Append(<<>>, began) /\ <<>> \in Seq(Event)
    OBVIOUS
  <2>2. Visible(<<>>) = <<>> /\ Visible(Append(<<>>, began)) = Visible(<<>>)
    BY <1>3, <2>1, VisibleUnfolds DEF Event
  <2>3. Visible(Append(parent, link)) = Visible(parent)
    BY <1>3, <1>5, VisibleUnfolds DEF Event
  <2> QED BY <2>1, <2>2, <2>3, Zenon
<1>8. \A u \in Sessions : Visible(journal'[u]) = Visible(journal[u])
  <2>1. Visible(journal'[s]) = Visible(journal[s])
    BY <1>1, <1>6, <1>7, Zenon
  <2>2. Visible(journal'[s - 1]) = Visible(journal[s - 1])
    BY <1>6, <1>7, Zenon DEF parent
  <2> QED BY <1>6, <2>1, <2>2, Zenon
<1>9. \A u \in Sessions : Summarized(journal'[u])
  <2>1. Summarized(<<began>>)
    <3>1. DOMAIN <<began>> = {1} /\ <<began>>[1] = began
      OBVIOUS
    <3> QED BY <1>3, <3>1 DEF Summarized
  <2>2. Summarized(Append(parent, link))
    <3>1. \A i \in DOMAIN Append(parent, link) :
            \/ i \in DOMAIN parent /\ Append(parent, link)[i] = parent[i]
            \/ Append(parent, link)[i] = link
      <4> DEFINE n == Len(parent)
      <4>1. n \in Nat /\ DOMAIN parent = 1 .. n /\ DOMAIN Append(parent, link) = 1 .. n + 1
            /\ Append(parent, link)[n + 1] = link
            /\ \A i \in 1 .. n : Append(parent, link)[i] = parent[i]
        BY <1>3, <1>5
      <4> HIDE DEF n
      <4>2. \A i \in 1 .. n + 1 : i \in 1 .. n \/ i = n + 1
        BY <4>1
      <4> QED BY <4>1, <4>2, Zenon
    <3>2. Summarized(parent)
      BY <1>2, <1>4 DEF parent
    <3> QED BY <1>3, <3>1, <3>2 DEF Summarized
  <2> QED BY <1>4, <1>6, <2>1, <2>2
<1>10. Separate' /\ Origins'
  BY <1>8, <1>9, SameKeeps DEF Intact
<1>11. First'
  <2>1. journal[1] # <<>> /\ (Len(journal[1]) = 1 => s - 1 = 1 \/ journal[s - 1] = <<>>)
    BY <1>2 DEF Intact, First
  <2>2. CASE s - 1 = 1
    <3>1. journal'[1] = Append(parent, link)
      BY <1>6, <2>2
    <3>2. Append(parent, link) # <<>> /\ Len(Append(parent, link)) # 1
      <4>0. parent # <<>>
        BY <1>1
      <4>1. Len(parent) \in Nat \ {0} /\ Len(Append(parent, link)) = Len(parent) + 1
        BY <1>3, <1>5, <4>0
      <4>2. Append(parent, link) # <<>>
        <5>1. Len(<<>>) = 0
          OBVIOUS
        <5>2. Len(Append(parent, link)) # 0
          BY <4>1
        <5> QED BY <5>1, <5>2, Zenon
      <4> QED BY <4>1, <4>2
    <3> QED BY <1>1, <3>1, <3>2, Zenon DEF First
  <2>3. CASE s - 1 # 1
    <3>1. journal'[1] = journal[1] /\ Len(journal[1]) # 1
      <4>1. s # 1
        BY <1>1
      <4>2. journal[s - 1] # <<>>
        BY <1>1 DEF parent
      <4> QED BY <1>2, <1>6, <2>1, <2>3, <4>1, <4>2
    <3> QED BY <1>1, <2>1, <3>1, Zenon DEF First
  <2> QED BY <2>2, <2>3
<1> QED BY <1>10, <1>11

\* What users and hosts say is of no call.
LEMMA SaySound ==
  ASSUME NEW s \in Sessions, NEW m \in Inputs
  PROVE  Sound(s, Appended(m))
<1>1. m \in PlainMessages /\ m \in Messages
  BY ContextAssumption DEF Messages
<1>2. \A id : ~Holds(m, "tool_call", id) /\ ~Dropped(m, {id})
  BY <1>1, MessageKinds DEF Dropped
<1>3. Appended(m).type = "message.appended" /\ Appended(m).message = m
  BY DEF Appended
<1> QED BY <1>2, <1>3 DEF Sound

\* No other answer makes the calls of one that was not given.
LEMMA AnswerSound ==
  ASSUME Origins, NEW s \in Sessions, NEW a \in Whole, ~Given(a)
  PROVE  Sound(s, Appended(Normalized(a.provider, a.wire, a.options)))
<1> DEFINE m == Normalized(a.provider, a.wire, a.options)
<1>1. m.role = "assistant" /\ m.provider = a.provider /\ m.answer.wire = a.wire
  BY NormalizedFields
<1>2. \A id : Holds(m, "tool_call", id) <=> id \in IdsOfAnswer(a)
  BY WholeCalls
<1> HIDE DEF m
<1>3. Appended(m).type = "message.appended" /\ Appended(m).message = m
  BY DEF Appended
<1>4. \A id : ~Dropped(m, {id})
  BY <1>1 DEF Dropped
<1>5. ASSUME NEW id \in IdsOfAnswer(a), NEW u \in Sessions, Has(Said(u), id) PROVE FALSE
  <2>1. CASE id \in IdsStreamed
    BY <1>5, <2>1, IdsAssumption
  <2>2. CASE id \notin IdsStreamed
    <3>1. PICK b \in Whole : Given(b) /\ id \in IdsOfAnswer(b)
      BY <1>5, <2>2 DEF Origins
    <3>2. a.provider = b.provider /\ a.wire = b.wire
      <4>1. \/ a.provider = b.provider /\ a.wire = b.wire
            \/ IdsOfAnswer(a) \cap IdsOfAnswer(b) = {}
        BY IdsAssumption
      <4> QED BY <1>5, <3>1, <4>1
    <3>3. Given(a)
      BY <3>1, <3>2, Zenon DEF Given
    <3> QED BY <3>3
  <2> QED BY <2>1, <2>2
<1> QED BY <1>1, <1>2, <1>3, <1>4, <1>5 DEF Sound, m

\* A result is of a call of the session itself.
LEMMA SettleSound ==
  ASSUME TypeOK, NEW s \in Sessions, NEW id \in Calls(s), NEW content \in {Pending, Settled}
  PROVE  Sound(s, Appended(Message("tool", <<ToolResult(id, content)>>)))
<1> DEFINE m == Message("tool", <<ToolResult(id, content)>>)
<1>1. m \in Messages
  BY SettledTypes
<1>2. m.role = "tool" /\ m.content[1].id = id
  BY DEF Message, ToolResult
<1> HIDE DEF m
<1>3. Appended(m).type = "message.appended" /\ Appended(m).message = m
  BY DEF Appended
<1>4. \A i : ~Holds(m, "tool_call", i) /\ (Dropped(m, {i}) => i = id)
  BY <1>1, <1>2, MessageKinds DEF Dropped
<1>5. Has(Said(s), id)
  <2>1. Said(s) \in Seq(Messages)
    <3>1. journal[s] \in Seq(EventsOf(Messages))
      BY DEF TypeOK
    <3> QED BY <3>1, VisibleTypes DEF Said
  <2>2. id \in IdsOf(BlocksIn(Said(s), "tool_call"))
    BY DEF Calls
  <2> QED BY <2>1, <2>2, CallsHeld
<1> QED BY <1>3, <1>4, <1>5 DEF Sound, m

\* A summary is plain.
LEMMA CompactSound ==
  ASSUME NEW s \in Sessions, NEW through, NEW scope
  PROVE  Sound(s, Compaction(through, Summary, scope))
<1>1. Compaction(through, Summary, scope).summary = Summary
      /\ Compaction(through, Summary, scope).message = None
  BY DEF Compaction
<1> QED BY <1>1, ContextAssumption DEF Sound

\* A streamed answer is the first thing that is said.
LEMMA CompleteSound ==
  ASSUME Intact, stream # None,
         NEW m, m = Normalized("openai-chat", Response(stream.reader.acc), stream.answer.options)
  PROVE  Sound(1, Appended(m))
<1>1. m.role = "assistant"
  BY NormalizedFields
<1>2. Appended(m).type = "message.appended" /\ Appended(m).message = m
  BY DEF Appended
<1>3. \A id : ~Dropped(m, {id})
  BY <1>1 DEF Dropped
<1>4. \A u \in Sessions : Said(u) = <<>>
  BY DEF Intact, First
<1>5. \A id : ~Has(<<>>, id)
  <2>1. DOMAIN <<>> = {}
    OBVIOUS
  <2> QED BY <2>1 DEF Has
<1>6. stream.answer \in Streamed /\ IsAccumulator(stream.reader.acc, stream.answer.wire)
  BY DEF Intact, TypeOK, IsReader
<1>7. \A id : Holds(m, "tool_call", id) => id \in IdsStreamed
  BY <1>6, StreamedCalls
<1> QED BY <1>2, <1>3, <1>4, <1>5, <1>7, Zenon DEF Sound

\* What is so of the journals stays so.
LEMMA IntactStays ==
  ASSUME Intact, TypeOK', [Next]_vars
  PROVE  Intact'
<1>0. TypeOK /\ Separate /\ Origins /\ First
  BY DEF Intact
<1>1. SUFFICES Separate' /\ Origins' /\ First'
  BY DEF Intact
<1>2. ASSUME NEW s \in Sessions, NEW e \in EventsOf(Messages), Record(s, e), Sound(s, e),
             s = 1 \/ Begun(s), stream' = None
      PROVE  Separate' /\ Origins' /\ First'
  BY <1>0, <1>2, RecordKeeps, RecordFirst
<1>3. ASSUME UNCHANGED journal, stream' # None => Len(journal[1]) = 1
      PROVE  Separate' /\ Origins' /\ First'
  <2>1. \A u \in Sessions : Visible(journal'[u]) = Visible(journal[u])
    BY <1>3
  <2>2. \A u \in Sessions : Summarized(journal[u])
    BY <1>0 DEF Separate
  <2>3. \A u \in Sessions : Summarized(journal'[u])
    BY <1>3, <2>2, Zenon
  <2>4. Separate' /\ Origins'
    BY <1>0, <2>1, <2>3, SameKeeps
  <2>5. First'
    BY <1>0, <1>3, Zenon DEF First, Said
  <2> QED BY <2>4, <2>5
<1>4. ASSUME NEW s \in Sessions, Say(s) PROVE Separate' /\ Origins' /\ First'
  <2>1. PICK m \in Inputs : Record(s, Appended(m))
    BY <1>4 DEF Say
  <2>2. m \in Messages
    BY ContextAssumption DEF Messages
  <2>3. Begun(s) /\ stream' = None
    BY <1>4 DEF Say, Room
  <2> QED BY <1>2, <2>1, <2>2, <2>3, EventTypes, SaySound
<1>5. ASSUME NEW s \in Sessions, Answer(s) PROVE Separate' /\ Origins' /\ First'
  <2>1. PICK a \in Whole :
          ~Given(a) /\ Record(s, Appended(Normalized(a.provider, a.wire, a.options)))
    BY <1>5, Zenon DEF Answer
  <2>2. Begun(s) /\ stream' = None
    BY <1>5 DEF Answer, Callable, Room
  <2>3. Appended(Normalized(a.provider, a.wire, a.options)) \in EventsOf(Messages)
    BY AnswerTypes, EventTypes
  <2>4. Sound(s, Appended(Normalized(a.provider, a.wire, a.options)))
    BY <1>0, <2>1, AnswerSound
  <2> QED BY <1>2, <2>1, <2>2, <2>3, <2>4
<1>6. ASSUME NEW s \in Sessions, Settle(s) PROVE Separate' /\ Origins' /\ First'
  <2>1. PICK id \in Calls(s), content \in {Pending, Settled} :
          Record(s, Appended(Message("tool", <<ToolResult(id, content)>>)))
    BY <1>6, Zenon DEF Settle
  <2>2. Begun(s) /\ stream' = None
    BY <1>6 DEF Settle, Room
  <2>3. Appended(Message("tool", <<ToolResult(id, content)>>)) \in EventsOf(Messages)
    BY <1>0, SettledTypes, EventTypes
  <2>4. Sound(s, Appended(Message("tool", <<ToolResult(id, content)>>)))
    BY <1>0, SettleSound
  <2> QED BY <1>2, <2>1, <2>2, <2>3, <2>4
<1>7. ASSUME NEW s \in Sessions, Compact(s) PROVE Separate' /\ Origins' /\ First'
  <2>1. PICK through \in DOMAIN journal[s], scope \in {"local", "including_inherited"} :
          Record(s, Compaction(through, Summary, scope))
    BY <1>7 DEF Compact
  <2>2. Begun(s) /\ stream' = None
    BY <1>7 DEF Compact, Room
  <2>3. through \in Nat /\ Summary \in Messages
    BY <1>0, ContextAssumption DEF TypeOK, Messages
  <2>4. Compaction(through, Summary, scope) \in EventsOf(Messages)
    BY <2>3, EventTypes
  <2>5. Sound(s, Compaction(through, Summary, scope))
    BY CompactSound
  <2> QED BY <1>2, <2>1, <2>2, <2>4, <2>5
<1>8. ASSUME NEW s \in Sessions, Fork(s) PROVE Separate' /\ Origins' /\ First'
  BY <1>8, ForkKeeps
<1>9. CASE Open
  BY <1>3, <1>9 DEF Open
<1>10. CASE Receive \/ Cut \/ EndOfBody
  <2>1. stream # None /\ UNCHANGED journal
    BY <1>10 DEF Receive, Cut, EndOfBody, Arriving
  <2>2. Len(journal[1]) = 1
    BY <1>0, <2>1 DEF First
  <2> QED BY <1>3, <2>1, <2>2
<1>11. CASE Complete
  <2> DEFINE m == Normalized("openai-chat", Response(stream.reader.acc), stream.answer.options)
  <2>1. stream # None /\ stream' = None /\ (Record(1, Appended(m)) \/ UNCHANGED journal)
    BY <1>11, Zenon DEF Complete
  <2>2. 1 \in Sessions
    BY ContextAssumption DEF Sessions
  <2>3. Sound(1, Appended(m))
    <3> HIDE DEF m
    <3>1. m = Normalized("openai-chat", Response(stream.reader.acc), stream.answer.options)
      BY DEF m
    <3> QED BY <2>1, <3>1, CompleteSound
  <2>4. m \in Messages
    <3>1. stream.answer.wire \in ChatAnswers /\ stream.answer.options \in NormalizeOptions
          /\ IsAccumulator(stream.reader.acc, stream.answer.wire)
      BY <1>0, <2>1, StreamedTypes DEF TypeOK, IsReader
    <3>2. Response(stream.reader.acc) \in Wires("openai-chat") /\ "openai-chat" \in Providers
      BY <3>1, ResponseTypes DEF Wires, Providers
    <3>3. m \in AnswerMessages("openai-chat")
      BY <3>1, <3>2, NormalizedTypes
    <3> HIDE DEF m
    <3> QED BY <3>3 DEF Messages
  <2> HIDE DEF m
  <2>5. CASE Record(1, Appended(m))
    BY <1>2, <2>1, <2>2, <2>3, <2>4, <2>5, EventTypes
  <2>6. CASE UNCHANGED journal
    BY <1>3, <2>1, <2>6
  <2> QED BY <2>1, <2>5, <2>6
<1>12. CASE UNCHANGED vars
  <2>1. UNCHANGED journal /\ stream' = stream
    BY <1>12 DEF vars
  <2>2. stream # None => Len(journal[1]) = 1
    BY <1>0 DEF First
  <2> QED BY <1>3, <2>1, <2>2
<1> QED BY <1>4, <1>5, <1>6, <1>7, <1>8, <1>9, <1>10, <1>11, <1>12 DEF Next

\* Whatever is forked, compacted and reconciled, every visible call keeps its
\* latest result, behind it, and no other; a result without its call is seen
\* only where an earlier result was compacted together with the call.
THEOREM CallsKeepResultsAlways == Spec => []CallsKeepResults
<1>1. Init /\ TypeOK => Intact
  <2> SUFFICES ASSUME Init, TypeOK PROVE Separate /\ Origins /\ First
    BY DEF Intact
  <2> DEFINE began == Trace("session.started")
             Event == EventsOf(Messages)
  <2>1. /\ journal = [s \in Sessions |-> IF s = 1 THEN <<began>> ELSE <<>>]
        /\ stream = None
    BY DEF Init
  <2>2. began \in Event /\ began.message = None /\ began.type # "context.compacted"
    BY EventTypes DEF Trace
  <2>3. 1 \in Sessions
    BY ContextAssumption DEF Sessions
  <2> HIDE DEF began, Event
  <2>4. Visible(<<>>) = <<>> /\ Visible(<<began>>) = <<>>
    <3>1. <<began>> = Append(<<>>, began) /\ <<>> \in Seq(Event)
      OBVIOUS
    <3>2. Visible(<<>>) = <<>> /\ Visible(Append(<<>>, began)) = Visible(<<>>)
      BY <2>2, <3>1, VisibleUnfolds DEF Event
    <3> QED BY <3>1, <3>2, Zenon
  <2>5. \A u \in Sessions : Said(u) = <<>>
    <3>1. \A u \in Sessions : journal[u] = <<>> \/ journal[u] = <<began>>
      BY <2>1
    <3> QED BY <2>4, <3>1, Zenon DEF Said
  <2>6. Summarized(<<>>) /\ Summarized(<<began>>)
    <3>1. DOMAIN <<>> = {} /\ DOMAIN <<began>> = {1} /\ <<began>>[1] = began
      OBVIOUS
    <3> QED BY <2>2, <3>1 DEF Summarized
  <2>7. \A id : ~Has(<<>>, id) /\ ResultsIn(<<>>, id) = <<>> /\ Ordered(<<>>, id)
    <3> TAKE id
    <3>1. DOMAIN <<>> = {} /\ <<>> \in Seq(Messages)
      OBVIOUS
    <3>2. ResultsIn(<<>>, id) # <<>> <=> \E i \in DOMAIN <<>> : Holds(<<>>[i], "tool_result", id)
      BY <3>1, JoinedMessages
    <3> QED BY <3>1, <3>2 DEF Has, Ordered, Places
  <2>8. Separate
    <3>1. \A u \in Sessions : Summarized(journal[u])
      BY <2>1, <2>6
    <3>2. \A u \in Sessions : \A id : Paired(Said(u), id) /\ ~Has(Said(u), id)
      BY <2>5, <2>7, Zenon DEF Paired
    <3> QED BY <3>1, <3>2 DEF Separate
  <2>9. Origins
    BY <2>5, <2>7, Zenon DEF Origins
  <2>10. First
    <3>1. journal[1] # <<>>
      <4>1. journal[1] = <<began>> /\ <<began>> # <<>>
        BY <2>1, <2>3
      <4> QED BY <4>1
    <3>2. \A u \in Sessions : u # 1 => journal[u] = <<>>
      BY <2>1
    <3> QED BY <2>1, <2>5, <3>1, <3>2, Zenon DEF First
  <2> QED BY <2>8, <2>9, <2>10
<1>2. Intact /\ TypeOK' /\ [Next]_vars => Intact'
  BY IntactStays
<1>3. Intact => CallsKeepResults
  BY ShownKeeps DEF Intact
<1> QED BY <1>1, <1>2, <1>3, TypeCorrect, PTL DEF Spec
=============================================================================
