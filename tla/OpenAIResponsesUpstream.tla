----------------------- MODULE OpenAIResponsesUpstream -----------------------
(***************************************************************************)
(* A chat request as one of OpenAI's Responses API, and a response of it   *)
(* as a chat response (internal/data/upstream/openai/                      *)
(* responses_convert.go).  The input is a sequence of items; the parts of  *)
(* a message are contents, those of a reasoning item texts.                *)
(***************************************************************************)
EXTENDS ChatRequests

MessageItem(role, phase, parts) ==
  [type |-> "message", role |-> role, phase |-> phase, parts |-> parts]

CallItem(type, call, args) == [type |-> type, call |-> call, args |-> args]

ReasoningInput(id) == [type |-> "reasoning", id |-> id, parts |-> <<>>, encrypted |-> <<>>]

\* The phase of a text; users' texts have none.
PhaseOf(role, kind) == IF role = "model" /\ kind = "outcome" THEN "final_answer" ELSE ""

-----------------------------------------------------------------------------
(* A message becomes items.  b: the items so far, the parts and the phase  *)
(* of the message item being assembled, and the place of the reasoning     *)
(* item without an id that is open, or 0.                                  *)

\* The texts of the model are joined.
FlushMessage(b, role) ==
  IF b.parts = <<>> THEN b
  ELSE [b EXCEPT !.items = Append(@, MessageItem(role, b.phase,
                             IF role = "model" THEN <<Text(Join(b.parts, {"text"}))>> ELSE b.parts)),
                 !.parts = <<>>, !.phase = ""]

\* (faulty) Reasoning of whatever id joins the last reasoning item.
ReasoningItemAny(b, id) ==
  LET any == {k \in DOMAIN b.items : b.items[k].type = "reasoning"} IN
    IF any # {} THEN [b EXCEPT !.into = CHOOSE k \in any : \A j \in any : j <= k]
    ELSE [b EXCEPT !.items = Append(@, ReasoningInput(id)), !.into = Len(b.items) + 1]

\* The reasoning item for an id is at `into'.
ReasoningItem(b, id) ==
  LET same == {k \in DOMAIN b.items : b.items[k].type = "reasoning" /\ b.items[k].id = id}
      new  == [b EXCEPT !.items = Append(@, ReasoningInput(id)), !.into = Len(b.items) + 1]
  IN  CASE id = NoItem /\ b.open # 0 -> [b EXCEPT !.into = b.open]
        [] id = NoItem /\ b.open = 0 -> [new EXCEPT !.open = new.into]
        [] id # NoItem /\ same # {}  -> [b EXCEPT !.open = 0, !.into = CHOOSE k \in same : TRUE]
        [] id # NoItem /\ same = {}  -> [new EXCEPT !.open = 0]

AddToItems(b, role, c) ==
  LET phase     == PhaseOf(role, c.kind)
      flushed   == FlushMessage(b, role)
      inPhase   == IF b.parts # <<>> /\ phase # b.phase THEN flushed ELSE b
      reasoning == ReasoningItem(flushed, c.item)
  IN
    CASE c.kind \in {"text", "outcome"} ->
           [inPhase EXCEPT !.open = 0, !.phase = phase, !.parts = Append(@, Text(c.text))]
      [] c.kind = "image" ->
           [b EXCEPT !.open = 0, !.parts = IF role = "model" THEN @ ELSE Append(@, c)]
      [] c.kind = "tool" ->
           [flushed EXCEPT !.open = 0,
                           !.items = Append(@, CallItem("function_call", c.call, c.text))]
      [] c.kind = "result" ->
           [flushed EXCEPT !.open = 0,
                           !.items = Append(@, CallItem("function_call_output", c.call, c.text))]
      [] c.kind = "reasoning" ->
           [reasoning EXCEPT !.items[reasoning.into].parts = Append(@, c.text)]
      [] c.kind = "opaque" ->
           [reasoning EXCEPT !.items[reasoning.into].encrypted = c.text]

ConvertMessage(m) ==
  LET start == [items |-> <<>>, parts |-> <<>>, phase |-> "", open |-> 0, into |-> 0]
      added == FoldLeft(LAMBDA b, c : AddToItems(b, m.role, c), start, m.contents)
  IN  FlushMessage(added, m.role).items

ConvertRequest(messages) == FlatMap(messages, ConvertMessage)

EffortName(effort) == IF effort = 0 THEN "" ELSE EffortNames[effort]

ConvertConfig(c) ==
  [limit    |-> c.maxTokens,
   effort   |-> IF c.reasoning = <<>> THEN "" ELSE EffortName(Head(c.reasoning).effort),
   grammar  |-> c.grammar, stop |-> FALSE, sampling |-> c.sampling \ {"top_k", "penalties"}]

ConvertTools(tools) == Functions(tools)

-----------------------------------------------------------------------------
\* (faulty) Encrypted content is left out.
ConvertOutputItemPlain(item) ==
  CASE item.type = "reasoning" ->
         [k \in DOMAIN item.parts |-> Content("reasoning", item.id, 0, item.parts[k])]
    [] item.type = "message" ->
         [k \in DOMAIN item.parts |->
            Content(IF item.phase = "final_answer" THEN "outcome" ELSE "text",
                    item.id, 0, item.parts[k])]
    [] item.type = "function_call" -> <<Content("tool", item.id, item.call, item.args)>>

\* An output item of the provider, as a server of the API writes it.
ConvertOutputItem(item) ==
  CASE item.type = "reasoning" ->
         [k \in DOMAIN item.parts |-> Content("reasoning", item.id, 0, item.parts[k])]
           \o Opt(item.encrypted # <<>>, Opaque(item.id, item.encrypted))
    [] item.type = "message" ->
         [k \in DOMAIN item.parts |->
            Content(IF item.phase = "final_answer" THEN "outcome" ELSE "text",
                    item.id, 0, item.parts[k])]
    [] item.type = "function_call" -> <<Content("tool", item.id, item.call, item.args)>>

ConvertResponseMessage(output) == FlatMap(output, ConvertOutputItem)

=============================================================================
