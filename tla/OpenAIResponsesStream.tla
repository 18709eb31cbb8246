------------------------ MODULE OpenAIResponsesStream ------------------------
(***************************************************************************)
(* The converter of OpenAI Responses stream events to chat events          *)
(* (openAIResponseStreamClient, internal/data/upstream/openai: openai.go   *)
(* and responses_convert.go).                                              *)
(*                                                                         *)
(* An event belongs to the output item of its `output', an index; `item'   *)
(* is the item's id.  An event type the converter ignores is left out, and *)
(* so is a part that is neither output text nor reasoning.                 *)
(***************************************************************************)
EXTENDS ChatEvents, Functions

\* openIndex: openContentIndexByOutputIndex, the blocks by output index
\* open:      the output index and the content index of the open block, if any
\* failed:    the error the converter returned
NewClient == [messageStarted |-> FALSE, stopEmitted |-> FALSE,
              hasFunctionCall |-> FALSE, nextIndex |-> 0, open |-> <<>>,
              openIndex |-> <<>>, outputPhase |-> <<>>, failed |-> FALSE,
              out |-> <<>>]

Forget(f, i) == Restrict(f, DOMAIN f \ {i})

CloseOpenOutput(c) ==
  IF c.open = <<>> THEN c
  ELSE [Emit(c, ContentStop(Head(c.open).index))
          EXCEPT !.openIndex = Forget(@, Head(c.open).output), !.open = <<>>]

\* (faulty) The block that is closed is not forgotten as the open one.
CloseOutputBlockOnce(c, output) ==
  IF output \notin DOMAIN c.openIndex THEN c
  ELSE [Emit(c, ContentStop(c.openIndex[output]))
          EXCEPT !.openIndex = Forget(@, output)]

CloseOutputBlock(c, output) ==
  IF output \notin DOMAIN c.openIndex THEN c
  ELSE [Emit(c, ContentStop(c.openIndex[output]))
          EXCEPT !.openIndex = Forget(@, output),
                 !.open = IF @ # <<>> /\ Head(@).output = output THEN <<>> ELSE @]

\* An output that has a block keeps it; otherwise the open block of another
\* output is closed.
OpenOutputBlock(c, output) ==
  IF output \in DOMAIN c.openIndex THEN c
  ELSE [CloseOpenOutput(c)
          EXCEPT !.nextIndex = @ + 1,
                 !.open      = <<[output |-> output, index |-> c.nextIndex]>>,
                 !.openIndex = Put(@, output, c.nextIndex)]

StartOutputBlock(c, output, kind, item, call) ==
  LET d == OpenOutputBlock(c, output) IN
    Emit(d, ContentStart(d.openIndex[output], kind, item, call))

OnCreated(c) == [Emit(c, MessageStart(NoUsage)) EXCEPT !.messageStarted = TRUE]

\* e.phase is the kind of the item's text, e.call the id of its call.
OnItemAdded(c, e) ==
  LET d == [c EXCEPT !.outputPhase = Put(@, e.output, e.phase)] IN
    IF e.type = "function_call"
    THEN StartOutputBlock([d EXCEPT !.hasFunctionCall = TRUE],
                          e.output, "tool", e.item, e.call)
    ELSE d

OnTextPartAdded(c, e) ==
  StartOutputBlock(c, e.output, c.outputPhase[e.output], e.item, 0)

OnReasoningPartAdded(c, e) ==
  StartOutputBlock(c, e.output, "reasoning", e.item, 0)

\* A summary part is a block only if its output has none.
OnSummaryPartAdded(c, e) ==
  IF e.output \in DOMAIN c.openIndex THEN c ELSE OnReasoningPartAdded(c, e)

OnPartDone(c, e) == CloseOutputBlock(c, e.output)

\* A delta of an output without a block is an error.
OnDelta(c, e) ==
  IF e.output \in DOMAIN c.openIndex
  THEN Emit(c, ContentDelta(c.openIndex[e.output], e.kind, e.text))
  ELSE [c EXCEPT !.failed = TRUE]

\* A reasoning item ends with its encrypted content, if it has one.
OnItemDone(c, e) ==
  LET d == CloseOutputBlock(
             [c EXCEPT !.hasFunctionCall = @ \/ e.type = "function_call"], e.output)
  IN  IF e.type # "reasoning" \/ e.encrypted = <<>> THEN d
      ELSE [Emit(d, ContentSnapshot(d.nextIndex, e.item, e.encrypted))
              EXCEPT !.nextIndex = @ + 1]

\* The terminal event; `e.calls' says whether its output has function calls.
StatusOf(e) ==
  CASE e.reason = "stop" /\ e.calls  -> "pending_tool_use"
    [] e.reason = "stop" /\ ~e.calls -> "completed"
    [] e.reason = "length"           -> "token_limit"
    [] e.reason = "filter"           -> "refused"
    [] OTHER                         -> "failed"

OnTerminal(c, e) ==
  LET status == IF StatusOf(e) = "completed" /\ c.hasFunctionCall
                THEN "pending_tool_use" ELSE StatusOf(e)
  IN  [Emit(CloseOpenOutput(c), MessageStop(status, e.usage))
         EXCEPT !.stopEmitted = TRUE]

\* The upstream ended without a terminal event.
Finish(c) ==
  IF ~c.messageStarted \/ c.stopEmitted THEN c
  ELSE [Emit(CloseOpenOutput(c), MessageStop("failed", NoUsage))
          EXCEPT !.stopEmitted = TRUE]

=============================================================================
