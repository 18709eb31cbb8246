-------------------------- MODULE OpenAIChatServer --------------------------
(***************************************************************************)
(* The server of OpenAI's chat completions (internal/server/openai:        *)
(* chat_convert.go, chat_stream.go): a client's request becomes a chat     *)
(* request; the events of the response become chunks, or the response      *)
(* one completion.                                                         *)
(***************************************************************************)
EXTENDS ChatRequests

-----------------------------------------------------------------------------
(* Requests.  A message of the client has a role, the parts of its         *)
(* content, the calls of an assistant, or the call a tool answers.         *)

ConvertMessage(m) ==
  CASE m.role \in {"system", "developer"} -> Message("system", Select(m.parts, {"text"}))
    [] m.role = "user"      -> Message("user", Select(m.parts, {"text", "image"}))
    [] m.role = "assistant" -> Message("model", Select(m.parts, {"text"}) \o m.calls)
    [] m.role = "tool"      -> Message("user", <<ToolResult(m.call, Join(m.parts, {"text"}))>>)

ConvertRequest(messages) == [k \in DOMAIN messages |-> ConvertMessage(messages[k])]

ConvertConfig(s) ==
  Config(Opt(s.limit + s.legacyLimit > 0, IF s.limit > 0 THEN s.limit ELSE s.legacyLimit),
         Opt(s.effort # "", Reasoning(EffortOf(s.effort), 0)),
         s.grammar, s.sampling \ {"top_k"}, s.stop)

ConvertTools(tools) == Functions(tools)

-----------------------------------------------------------------------------
(* A response at once                                                      *)

FinishReason(status) ==
  CASE status = "completed"        -> "stop"
    [] status = "refused"          -> "content_filter"
    [] status = "token_limit"      -> "length"
    [] status = "pending_tool_use" -> "tool_calls"
    [] OTHER                       -> ""

\* A later reasoning content replaces the earlier; the rest is joined.
ConvertResponse(resp) ==
  LET reasoning == Select(resp.contents, {"reasoning"}) IN
  [content   |-> Join(resp.contents, {"text", "outcome"}),
   reasoning |-> IF reasoning = <<>> THEN <<>> ELSE Last(reasoning).text,
   calls     |-> [k \in DOMAIN Select(resp.contents, {"tool"}) |->
                    LET c == Select(resp.contents, {"tool"})[k] IN ToolUse(c.call, c.text)],
   finish    |-> FinishReason(resp.status),
   usage     |-> resp.usage]

-----------------------------------------------------------------------------
(* A response as a stream                                                  *)

\* toolCount: the calls so far; blocks: the open blocks by index;
\* out: the chunks Send wrote
NewWriter == [toolCount |-> 0, blocks |-> <<>>, usage |-> NoUsage,
              usageSent |-> FALSE, out |-> <<>>]

Chunk == [content |-> <<>>, reasoning |-> <<>>, tools |-> <<>>,
          finish |-> "none", usage |-> NoUsage]

Write(w, chunk) == [w EXCEPT !.out = Append(@, chunk)]

AccumulateUsage(w, usage) == [w EXCEPT !.usage = MergeUsage(@, usage)]

Block(reasoning, ordinal) == [reasoning |-> reasoning, ordinal |-> ordinal]

BlockState(w, index) ==
  IF index \in DOMAIN w.blocks THEN w.blocks[index] ELSE Block(FALSE, 0)

SetBlockState(w, index, block) == [w EXCEPT !.blocks = (index :> block) @@ @]

ToolDelta(ordinal, call, text) == [ordinal |-> ordinal, call |-> call, text |-> text]

\* (faulty) The ordinal is that of the calls so far, not the call's own.
OnDeltaOfLastCall(w, e) ==
  LET block == BlockState(w, e.index) IN
  CASE e.kind = "text" /\ block.reasoning  -> Write(w, [Chunk EXCEPT !.reasoning = e.text])
    [] e.kind = "text" /\ ~block.reasoning -> Write(w, [Chunk EXCEPT !.content = e.text])
    [] e.kind = "tool" ->
         Write(w, [Chunk EXCEPT !.tools = <<ToolDelta(w.toolCount - 1, 0, e.text)>>])
    [] OTHER -> w

OnDelta(w, e) ==
  LET block == BlockState(w, e.index) IN
  CASE e.kind = "text" /\ block.reasoning  -> Write(w, [Chunk EXCEPT !.reasoning = e.text])
    [] e.kind = "text" /\ ~block.reasoning -> Write(w, [Chunk EXCEPT !.content = e.text])
    [] e.kind = "tool" ->
         Write(w, [Chunk EXCEPT !.tools = <<ToolDelta(block.ordinal, 0, e.text)>>])
    [] e.kind = "signature" -> w

OnStart(w, e) ==
  IF e.kind = "tool"
  THEN Write([SetBlockState(w, e.index, Block(FALSE, w.toolCount)) EXCEPT !.toolCount = @ + 1],
             [Chunk EXCEPT !.tools = <<ToolDelta(w.toolCount, e.call, <<>>)>>])
  ELSE SetBlockState(w, e.index, Block(e.kind = "reasoning", 0))

OnContentStop(w, e) ==
  [w EXCEPT !.blocks = [i \in DOMAIN @ \ {e.index} |-> @[i]]]

\* (faulty) A usage without output tokens is taken for none.
WriteUsageOfOutput(w) ==
  IF w.usage.out = 0 \/ w.usageSent THEN w
  ELSE Write([w EXCEPT !.usageSent = TRUE], [Chunk EXCEPT !.usage = w.usage])

\* Once, after the finish reason, and only if a usage was reported.
WriteUsage(w) ==
  IF w.usage = NoUsage \/ w.usageSent THEN w
  ELSE Write([w EXCEPT !.usageSent = TRUE], [Chunk EXCEPT !.usage = w.usage])

Send(writer, e) ==
  LET w == AccumulateUsage(writer, e.usage) IN
    CASE e.type = "message_start" -> Write(w, Chunk)
      [] e.type = "content_start" -> OnStart(w, e)
      [] e.type = "content_delta" -> OnDelta(w, e)
      [] e.type = "content_stop"  -> OnContentStop(w, e)
      [] e.type = "message_stop"  ->
           WriteUsage(Write(w, [Chunk EXCEPT !.finish = FinishReason(e.status)]))
      [] OTHER -> w

-----------------------------------------------------------------------------
(* The client (external): it adds up the chunks, as OpenAI documents them, *)
(* and later sends the message back.  ok: no chunk made no sense           *)

NewView == [content |-> <<>>, reasoning |-> <<>>, calls |-> <<>>, finish |-> "none",
            usage |-> NoUsage, ok |-> TRUE]

ReadTool(v, d) ==
  CASE d.ordinal = Len(v.calls) -> [v EXCEPT !.calls = Append(@, ToolUse(d.call, d.text))]
    [] d.ordinal < Len(v.calls) /\ d.ordinal >= 0 ->
         [v EXCEPT !.calls[d.ordinal + 1].text = @ \o d.text]
    [] OTHER -> [v EXCEPT !.ok = FALSE]

Read(view, chunk) ==
  LET v == FoldLeft(ReadTool, view, chunk.tools) IN
    [v EXCEPT !.content   = @ \o chunk.content,
              !.reasoning = @ \o chunk.reasoning,
              !.finish    = IF chunk.finish = "none" THEN @ ELSE chunk.finish,
              !.usage     = MergeUsage(@, chunk.usage),
              !.ok        = @ /\ (chunk.finish # "none" => v.finish = "none")]

Turn(role, parts, calls, call) ==
  [role |-> role, parts |-> parts, calls |-> calls, call |-> call]

Replay(v) == <<Turn("assistant", Opt(v.content # <<>>, Text(v.content)), v.calls, 0)>>

=============================================================================
