-------------------------- MODULE OpenAIChatStream --------------------------
(***************************************************************************)
(* The converter of OpenAI chat completion chunks to chat events           *)
(* (openAIChatStreamClient, internal/data/upstream/openai: openai.go and   *)
(* chat_convert.go).                                                       *)
(*                                                                         *)
(* A chunk has a reasoning and a text fragment, each possibly empty, a     *)
(* sequence of deltas of tool calls, the reason the turn finished, "" if   *)
(* it did not, and a usage.                                                *)
(***************************************************************************)
EXTENDS ChatEvents

NewClient == [status |-> "unspecified", messageStarted |-> FALSE,
              stopEmitted |-> FALSE, nextIndex |-> 0, open |-> <<>>, out |-> <<>>]

\* finish_reason; "other" stands for those the converter does not know.
StatusOf(reason) ==
  CASE reason = "stop"   -> "completed"
    [] reason = "length" -> "token_limit"
    [] reason = "calls"  -> "pending_tool_use"
    [] reason = "filter" -> "refused"
    [] OTHER             -> "in_progress"

StartMessage(c) ==
  IF c.messageStarted THEN c
  ELSE [Emit(c, MessageStart(NoUsage)) EXCEPT !.messageStarted = TRUE]

TextDelta(c, kind, text) ==
  IF text = <<>> THEN c
  ELSE WriteDelta(OpenBlock(c, kind, 0, 0), "text", text)

\* d.call: the provider's index of the call, from 1; d.id: its id, which
\* only the first delta of a call carries
ToolDelta(c, d) == WriteDelta(OpenBlock(c, "tool", d.call, d.id), "tool", d.text)

StopMessage(c, usage) ==
  LET d == CloseOpenBlock(c) IN
    [Emit(d, MessageStop(d.status, usage)) EXCEPT !.stopEmitted = TRUE]

Convert(c, chunk) ==
  LET reasoned == TextDelta(StartMessage(c), "reasoning", chunk.reasoning)
      said     == TextDelta(reasoned, "text", chunk.text)
      called   == Loop(ToolDelta, said, chunk.tools)
      judged   == IF chunk.reason = "" THEN called
                  ELSE [called EXCEPT !.status = StatusOf(chunk.reason)]
  IN  IF chunk.usage = NoUsage THEN judged ELSE StopMessage(judged, chunk.usage)

\* (faulty) Nothing is emitted unless the turn had finished.
FinishIfJudged(c) ==
  IF c.status = "unspecified" \/ c.stopEmitted THEN c ELSE StopMessage(c, NoUsage)

\* The upstream ended without a chunk that has a usage.
Finish(c) ==
  IF ~c.messageStarted \/ c.stopEmitted THEN c ELSE StopMessage(c, NoUsage)

=============================================================================
