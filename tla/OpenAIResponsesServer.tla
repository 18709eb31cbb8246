------------------------ MODULE OpenAIResponsesServer ------------------------
(***************************************************************************)
(* The server of OpenAI's Responses API (internal/server/openai:           *)
(* responses_convert.go, responses_stream.go): contents are gathered into  *)
(* output items, at once or while they stream in.                          *)
(*                                                                         *)
(* An item is a message, a reasoning or a function call; its parts are     *)
(* texts.  An item gets the id of its contents, or a synthetic one.        *)
(***************************************************************************)
EXTENDS ChatRequests

Item(type, id, phase) ==
  [type |-> type, id |-> id, phase |-> phase, status |-> "in_progress",
   parts |-> <<>>, encrypted |-> <<>>, call |-> 0, args |-> <<>>]

FinalAnswer(kind) == IF kind = "outcome" THEN "final_answer" ELSE ""

\* The id of the content, or one made of the item's place in the output.
ItemId(id, prefix, place) == IF id = NoItem THEN <<prefix, place>> ELSE id

-----------------------------------------------------------------------------
(* Requests.  The input of the client is a sequence of items, and messages *)
(* of other roles; contents and encrypted content of a reasoning item are  *)
(* contents with its id.                                                   *)

InputMessage(role, parts) ==
  [type |-> "message", role |-> role, phase |-> "", parts |-> parts]

RoleOf(role) ==
  CASE role \in {"system", "developer"} -> "system"
    [] role = "assistant"               -> "model"
    [] OTHER                            -> "user"

\* A part of a message is a text or an image.
ConvertMessageItem(m) ==
  LET phased(p) == IF p.kind = "text" /\ m.phase = "final_answer"
                   THEN [p EXCEPT !.kind = "outcome"] ELSE p
  IN  Message(RoleOf(m.role), [k \in DOMAIN m.parts |-> phased(m.parts[k])])

ConvertReasoningItem(m) ==
  Message("model",
    [k \in DOMAIN m.parts |-> Content("reasoning", m.id, 0, m.parts[k])]
      \o Opt(m.encrypted # <<>>, Opaque(m.id, m.encrypted)))

ConvertInputItem(m) ==
  CASE m.type = "message"       -> ConvertMessageItem(m)
    [] m.type = "reasoning"     -> ConvertReasoningItem(m)
    [] m.type = "function_call" -> Message("model", <<ToolUse(m.call, m.args)>>)
    [] m.type = "function_call_output" -> Message("user", <<ToolResult(m.call, m.args)>>)

\* Adjacent messages of one role become one.
AppendAdjacent(messages, m) ==
  IF messages # <<>> /\ Last(messages).role = m.role
  THEN [messages EXCEPT ![Len(messages)].contents = @ \o m.contents]
  ELSE Append(messages, m)

ConvertRequest(instructions, input) ==
  FoldLeft(LAMBDA messages, m : AppendAdjacent(messages, ConvertInputItem(m)),
           IF instructions = <<>> THEN <<>>
           ELSE <<Message("system", <<Text(instructions)>>)>>,
           input)

ConvertConfig(s) ==
  Config(Opt(s.limit > 0, s.limit),
         Opt(s.effort # "", Reasoning(EffortOf(s.effort), 0)),
         s.grammar, s.sampling \ {"top_k", "penalties"}, FALSE)

ConvertTools(tools) == Functions(tools)

-----------------------------------------------------------------------------
(* A response at once.  b: the output so far, the message item being       *)
(* assembled, if any, and the place of the reasoning item being assembled, *)
(* or 0.                                                                   *)

FlushMessage(b) ==
  IF b.message = <<>> THEN b
  ELSE LET item == Head(b.message) IN
    [b EXCEPT !.output = Append(@, [item EXCEPT !.id = ItemId(@, "msg", Len(b.output))]),
              !.message = <<>>]

\* The reasoning item of an id; contents without an id join the one being
\* assembled, those with an id the item of that id wherever it is.
ReasoningItem(b, id) ==
  LET own  == ItemId(id, "rs", Len(b.output))
      same == {k \in DOMAIN b.output : b.output[k].type = "reasoning" /\ b.output[k].id = own}
  IN  IF id = NoItem /\ b.reasoning # 0 THEN b
      ELSE IF same # {} THEN [b EXCEPT !.reasoning = CHOOSE k \in same : TRUE]
      ELSE [b EXCEPT !.output = Append(@, [Item("reasoning", own, "")
                                             EXCEPT !.status = "completed"]),
                     !.reasoning = Len(b.output) + 1]

AddText(b, c) ==
  LET phase == FinalAnswer(c.kind)
      goes  == b.message # <<>> /\ Head(b.message).id = c.item /\ Head(b.message).phase = phase
      d     == IF goes THEN b ELSE FlushMessage(b)
      item  == IF goes THEN Head(b.message)
               ELSE [Item("message", c.item, phase) EXCEPT !.status = "completed"]
  IN  [d EXCEPT !.message = <<[item EXCEPT !.parts = Append(@, c.text)]>>, !.reasoning = 0]

AddCall(b, c) ==
  [b EXCEPT !.output = Append(@, [Item("function_call", ItemId(c.item, "fc", Len(b.output)), "")
                                    EXCEPT !.status = "completed", !.call = c.call,
                                           !.args = c.text]),
            !.reasoning = 0]

\* (faulty) The message assembled before the call stays open.
AddToolUnflushed(b, c) == AddCall(b, c)

AddTool(b, c) == AddCall(FlushMessage(b), c)

AddToOutput(b, c) ==
  LET reasoning == ReasoningItem(FlushMessage(b), c.item) IN
    CASE c.kind \in {"text", "outcome"} -> AddText(b, c)
      [] c.kind = "reasoning" ->
           [reasoning EXCEPT !.output[reasoning.reasoning].parts = Append(@, c.text)]
      [] c.kind = "opaque" ->
           [reasoning EXCEPT !.output[reasoning.reasoning].encrypted = c.text]
      [] c.kind = "tool" -> AddTool(b, c)

ConvertContents(contents) ==
  FlushMessage(FoldLeft(AddToOutput, [output |-> <<>>, message |-> <<>>, reasoning |-> 0],
                        contents)).output

ConvertStatus(status) ==
  CASE status \in {"completed", "pending_tool_use"} -> "completed"
    [] status \in {"token_limit", "refused"}        -> "incomplete"
    [] status = "cancelled"                         -> "cancelled"
    [] OTHER                                        -> "failed"

ConvertResponse(resp) ==
  [output |-> ConvertContents(resp.contents), status |-> ConvertStatus(resp.status),
   usage |-> resp.usage]

=============================================================================
