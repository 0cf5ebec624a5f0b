-------------------------- MODULE CanonicalMessages -------------------------
(***************************************************************************)
(* The messages that sessions record, whatever provider they come from or  *)
(* go to (src/src/protocol.ts).  Text is a sequence of pieces, so that     *)
(* joining and streaming it are concatenations.                            *)
(***************************************************************************)
EXTENDS Integers, Sequences, FiniteSets, SequencesExt

CONSTANT None

Maybe(S) == S \cup {None}
Texts == Seq(STRING)

\* raw is the provider's own form of the block, where it was kept.
Text(value, raw) == [type |-> "text", value |-> value, raw |-> raw]
\* input is a value, written as JSON.stringify does; error: there is none.
ToolCall(id, parsed, raw) ==
  [type |-> "tool_call", id |-> id, input |-> parsed.input, error |-> parsed.error, raw |-> raw]
ToolResult(id, content) == [type |-> "tool_result", id |-> id, content |-> content]
\* Plaintext (None: redacted), and opaque details to be returned verbatim.
Reasoning(value, details, raw) ==
  [type |-> "reasoning", value |-> value, details |-> details, raw |-> raw]
\* Anything else a provider said, beside text (content) or between items.
ProviderBlock(provider, placement, raw) ==
  [type |-> "provider", provider |-> provider, placement |-> placement, raw |-> raw]
\* bytes: whether the image is inlined beside its artifact.
Image(artifact, bytes) ==
  [type |-> "image", artifact |-> artifact, bytes |-> bytes, raw |-> None]

\* answer is history: the provider's answer the message was made of.
Message(role, content) ==
  [role |-> role, content |-> content, provider |-> None, answer |-> None]

\* f of each element, joined (flatMap), and the elements that pass a test
\* (filter); written so that the provers can follow, who know no SelectSeq.
Each(s, f(_)) == FlattenSeq([i \in DOMAIN s |-> f(s[i])])
Filter(s, Test(_)) == Each(s, LAMBDA x : IF Test(x) THEN <<x>> ELSE <<>>)

\* The blocks of a type that messages hold, in order.
BlocksIn(messages, type) ==
  Each(messages, LAMBDA m : Filter(m.content, LAMBDA block : block.type = type))

\* The numbers of a set, in order.
InOrder(S) == Filter([i \in 1 .. Max(S \cup {0}) |-> i], LAMBDA i : i \in S)

IdsOf(blocks) == {blocks[i].id : i \in DOMAIN blocks}
=============================================================================
