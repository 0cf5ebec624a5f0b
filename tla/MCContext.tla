------------------------------ MODULE MCContext -----------------------------
(* A small instance of Context: answers of each provider with opaque        *)
(* reasoning, parallel calls, unknown items and parts, a refusal, blanks in *)
(* arguments, nothing kept beside the blocks; and three that are streamed:  *)
(* reasoning told in both forms at once, field by field; interleaved calls, *)
(* one of which has arguments before its id; reasoning told in both forms   *)
(* one after the other, and a refusal.                                      *)
(***************************************************************************)
EXTENDS Context

MCMaxEvents == <<5, 3>>

MCInputs == {Message("user", <<Text(<<"ask">>, None), Image("photo", TRUE)>>)}
MCSummary == Message("system", <<Text(<<"summary">>, None)>>)
MCPending == <<Text(<<"pending">>, None)>>
MCSettled == <<Text(<<"settled">>, None), Image("shot", TRUE)>>

All == [metadata |-> TRUE, unknown |-> TRUE]
Nil == [metadata |-> FALSE, unknown |-> FALSE]

MCWhole ==
  {[provider |-> "openai", options |-> All, wire |->
      <<WireReasoning("reasoning", <<"r">>, "encrypted"),
        WireMessage(<<WireText("output_text", <<"t">>)>>),
        WireCall("function_call", "c1", <<"{", " ", "}">>),
        WireOther("web_search_call")>>],
   [provider |-> "anthropic", options |-> All, wire |->
      <<WireReasoning("thinking", <<"r">>, "signature"),
        WireText("text", <<"t">>),
        WireCall("tool_use", "c2", <<"{", "}">>),
        WireCall("tool_use", "c3", <<"{", "}">>)>>],
   [provider |-> "anthropic", options |-> Nil, wire |->
      <<WireReasoning("redacted_thinking", None, "sealed"),
        WireOther("server_tool_use"),
        WireText("text", <<"t">>)>>],
   [provider |-> "openai-chat", options |-> All, wire |->
      ChatAnswer(<<>>, <<WireText("text", <<"t">>), WireOther("audio")>>, <<>>, <<>>, None,
        <<Detail("anthropic", <<>>, "signature", None),
          Detail("openai", None, None, "encrypted")>>)]}

MCStreamed ==
  {[provider |-> "openai-chat", options |-> All,
    wire |-> ChatAnswer(<<"t">>, <<>>, None,
      <<WireCall("function", "c4", <<"{", " ", "}">>), WireCall("function", "c5", <<"{", "}">>)>>,
      <<"r", "s">>,
      <<Detail("anthropic", <<"r", "s">>, "signature", None)>>),
    deltas |->
      <<[Nothing EXCEPT !.reasoning = <<"r">>, !.calls = <<CallPart(2, None, <<"{">>)>>,
                        !.details = <<DetailPart(1, "anthropic", <<"r">>, None, None)>>],
        [Nothing EXCEPT !.reasoning = <<"s">>,
                        !.details = <<DetailPart(1, None, <<"s">>, None, None)>>],
        [Nothing EXCEPT !.details = <<DetailPart(1, None, None, "signature", None)>>,
                        !.calls = <<CallPart(1, "c4", <<"{">>)>>],
        [Nothing EXCEPT !.content = <<"t">>, !.calls = <<CallPart(2, "c5", <<"}">>)>>],
        [Nothing EXCEPT !.calls = <<CallPart(1, None, <<" ", "}">>)>>]>>],
   [provider |-> "openai-chat", options |-> Nil,
    wire |-> ChatAnswer(<<"t">>, <<>>, <<"n", "o">>, <<>>, <<"r">>,
      <<Detail("openai", <<"r">>, None, "encrypted")>>),
    deltas |->
      <<[Nothing EXCEPT !.reasoning = <<"r">>, !.refusal = <<"n">>],
        [Nothing EXCEPT !.details = <<DetailPart(1, "openai", <<"r">>, None, "encrypted")>>,
                        !.content = <<"t">>, !.refusal = <<"o">>]>>]}
=============================================================================
