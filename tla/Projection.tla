----------------------------- MODULE Projection -----------------------------
(***************************************************************************)
(* What a model is shown of a journal: projectContext                      *)
(* (src/src/projection.ts).  An event id is its position.                  *)
(***************************************************************************)
EXTENDS CanonicalMessages

(* Events; message is None where the event does not affect the context.    *)
Appended(message) == [type |-> "message.appended", message |-> message]
Trace(type) == [type |-> type, message |-> None]
Compaction(through, summary, scope) ==
  [type |-> "context.compacted", message |-> None,
   through |-> through, summary |-> summary, scope |-> scope]

\* The events of journals, of messages of a set.
EventsOf(messages) ==
  [type : {"message.appended"}, message : messages]
  \cup [type : {"session.started", "child.started"}, message : {None}]
  \cup [type : {"context.compacted"}, message : {None}, through : Nat, summary : messages,
        scope : {"local", "including_inherited"}]

Visible(events) ==
  Each(events, LAMBDA e : IF e.message = None THEN <<>> ELSE <<e.message>>)

\* The greatest number of a set, 0 if there is none.
Greatest(S) == Max(S \cup {0})

-----------------------------------------------------------------------------
(* Faulty variants, each put in place of the definition it is named after.  *)

\* Calls count as answered if they are by now.
UnpairedToolCalls_ByNow(events, boundary) ==
  IdsOf(BlocksIn(Visible(SubSeq(events, 1, boundary)), "tool_call"))
    \ IdsOf(BlocksIn(Visible(events), "tool_result"))

-----------------------------------------------------------------------------

\* The calls that a boundary would separate from their results.
UnpairedToolCalls(events, boundary) ==
  LET messages == Visible(SubSeq(events, 1, boundary))
      Pair(open, block) ==
        CASE block.type = "tool_call"   -> open \cup {block.id}
          [] block.type = "tool_result" -> open \ {block.id}
          [] OTHER                      -> open
  IN  FoldLeft(Pair, {}, Each(messages, LAMBDA m : m.content))

\* The latest compaction whose boundary lies before it and separates nothing.
LatestCompaction(events) ==
  Greatest({i \in DOMAIN events :
    /\ events[i].type = "context.compacted"
    /\ events[i].through \in 1 .. i - 1
    /\ UnpairedToolCalls(events, events[i].through) = {}})

\* Of all results of a call only the latest is shown.
SupersedeToolResults(messages) ==
  LET HasResult(i, id) ==
        messages[i].role = "tool" /\ \E j \in DOMAIN messages[i].content :
          messages[i].content[j].type = "tool_result" /\ messages[i].content[j].id = id
      LastResult(id) == Greatest({i \in DOMAIN messages : HasResult(i, id)})
      Latest(i) == Filter(messages[i].content,
                     LAMBDA b : b.type = "tool_result" => LastResult(b.id) = i)
      Remains(i) ==
        IF messages[i].role # "tool" \/ Latest(i) = messages[i].content THEN <<messages[i]>>
        ELSE IF Latest(i) = <<>> THEN <<>>
        ELSE <<[messages[i] EXCEPT !.content = Latest(i)]>>
  IN  FlattenSeq([i \in DOMAIN messages |-> Remains(i)])

ProjectContext(events, inherited) ==
  LET latest == LatestCompaction(events)
      before == IF latest = 0 THEN inherited
                ELSE IF events[latest].scope = "including_inherited"
                THEN <<events[latest].summary>>
                ELSE Append(inherited, events[latest].summary)
      start  == IF latest = 0 THEN 1 ELSE events[latest].through + 1
  IN  SupersedeToolResults(before \o Visible(SubSeq(events, start, Len(events))))
=============================================================================
