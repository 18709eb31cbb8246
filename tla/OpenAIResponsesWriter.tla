------------------------ MODULE OpenAIResponsesWriter ------------------------
(***************************************************************************)
(* The event stream of the Responses server (responsesStreamServer,        *)
(* internal/server/openai/responses_stream.go): each chat event is written *)
(* as events about output items and their parts.  Whether an item is done  *)
(* is known only when the next content does not continue it, so the item   *)
(* whose part was finished last is pending until then.                     *)
(***************************************************************************)
EXTENDS OpenAIResponsesServer

\* output: of the response; blocks: the open blocks by index; pendingText and
\* pendingReasoning: the place of the item that is pending, if any;
\* out: the events Send wrote.  A place is an output index, from 1.
NewWriter == [output |-> <<>>, usage |-> NoUsage, blocks |-> <<>>,
              pendingText |-> <<>>, pendingReasoning |-> <<>>, out |-> <<>>]

Write(w, event) == [w EXCEPT !.out = Append(@, event)]

AccumulateUsage(w, usage) == [w EXCEPT !.usage = MergeUsage(@, usage)]

ItemEvent(type, w, place) ==
  Write(w, [type |-> type, place |-> place, item |-> w.output[place]])

PartEvent(type, w, block, text) ==
  Write(w, [type |-> type, place |-> block.place, part |-> block.part, text |-> text])

AddItem(w, item) ==
  ItemEvent("item_added", [w EXCEPT !.output = Append(@, item)], Len(w.output) + 1)

CompleteItem(w, place) ==
  ItemEvent("item_done", [w EXCEPT !.output[place].status = "completed"], place)

FlushReasoning(w) ==
  IF w.pendingReasoning = <<>> THEN w
  ELSE CompleteItem([w EXCEPT !.pendingReasoning = <<>>], Head(w.pendingReasoning))

FlushText(w) ==
  IF w.pendingText = <<>> THEN w
  ELSE CompleteItem([w EXCEPT !.pendingText = <<>>], Head(w.pendingText))

FlushItems(w) == FlushText(FlushReasoning(w))

\* The pending item that a content goes on with, if any.
PendingTextFor(w, id, phase) ==
  SelectSeq(w.pendingText, LAMBDA place : /\ id # NoItem
                                          /\ w.output[place].id = id
                                          /\ w.output[place].phase = phase)

\* (faulty) Reasoning goes on whatever its id.
PendingReasoningForAny(w, id) == w.pendingReasoning

PendingReasoningFor(w, id) ==
  SelectSeq(w.pendingReasoning, LAMBDA place : id = NoItem \/ w.output[place].id = id)

-----------------------------------------------------------------------------
SetBlock(w, index, kind, place) ==
  [w EXCEPT !.blocks = (index :> [kind |-> kind, place |-> place, text |-> <<>>,
                                  part |-> Len(w.output[place].parts)]) @@ @]

DeleteBlock(w, index) == [w EXCEPT !.blocks = [i \in DOMAIN @ \ {index} |-> @[i]]]

OpenPart(w, index, kind, place) ==
  LET d == SetBlock(w, index, kind, place) IN
    PartEvent("part_added", d, d.blocks[index], <<>>)

StartText(w, e) ==
  LET phase   == FinalAnswer(e.kind)
      pending == PendingTextFor(w, e.item, phase)
      added   == AddItem(FlushText(w),
                         Item("message", ItemId(e.item, "msg", Len(w.output)), phase))
  IN  IF pending # <<>>
      THEN OpenPart([w EXCEPT !.pendingText = <<>>], e.index, "text", Head(pending))
      ELSE OpenPart(added, e.index, "text", Len(added.output))

StartReasoning(w, e) ==
  LET pending == PendingReasoningFor(w, e.item)
      added   == AddItem(FlushReasoning(w),
                         Item("reasoning", ItemId(e.item, "rs", Len(w.output)), ""))
  IN  IF pending # <<>>
      THEN OpenPart([w EXCEPT !.pendingReasoning = <<>>], e.index, "reasoning", Head(pending))
      ELSE OpenPart(added, e.index, "reasoning", Len(added.output))

StartTool(w, e) ==
  LET added == AddItem(w, [Item("function_call", ItemId(e.item, "fc", Len(w.output)), "")
                             EXCEPT !.call = e.call])
  IN  SetBlock(added, e.index, "tool", Len(added.output))

OnContentStart(w, e) ==
  CASE e.kind = "reasoning"           -> StartReasoning(FlushText(w), e)
    [] e.kind \in {"text", "outcome"} -> StartText(FlushReasoning(w), e)
    [] e.kind = "tool"                -> StartTool(FlushItems(w), e)

\* A signature has no place in the Responses API.
OnContentDelta(w, e) ==
  IF e.index \notin DOMAIN w.blocks \/ e.kind = "signature" THEN w
  ELSE PartEvent("delta", [w EXCEPT !.blocks[e.index].text = @ \o e.text],
                 w.blocks[e.index], e.text)

FinishPart(w, block) ==
  LET d == PartEvent("part_done", [w EXCEPT !.output[block.place].parts = Append(@, block.text)],
                     block, block.text)
  IN  IF block.kind = "text" THEN [d EXCEPT !.pendingText = <<block.place>>]
      ELSE [d EXCEPT !.pendingReasoning = <<block.place>>]

FinishTool(w, block) ==
  CompleteItem(PartEvent("args_done", [w EXCEPT !.output[block.place].args = block.text],
                         block, block.text),
               block.place)

OnContentStop(w, e) ==
  LET block  == w.blocks[e.index]
      closed == DeleteBlock(w, e.index)
  IN  CASE e.index \notin DOMAIN w.blocks -> w
        [] e.index \in DOMAIN w.blocks /\ block.kind # "tool" -> FinishPart(closed, block)
        [] e.index \in DOMAIN w.blocks /\ block.kind = "tool" -> FinishTool(closed, block)

\* The encrypted content of the pending reasoning item, which is then done,
\* or of an item of its own.
OnContentSnapshot(writer, e) ==
  LET w       == FlushText(writer)
      pending == PendingReasoningFor(w, e.item)
      added   == AddItem(FlushReasoning(w),
                         [Item("reasoning", ItemId(e.item, "rs", Len(w.output)), "")
                            EXCEPT !.encrypted = e.text])
  IN  CASE e.text = <<>> -> FlushReasoning(w)
        [] e.text # <<>> /\ pending # <<>> ->
             FlushReasoning([w EXCEPT !.output[Head(pending)].encrypted = e.text])
        [] e.text # <<>> /\ pending = <<>> -> CompleteItem(added, Len(added.output))

Terminal(w, status) ==
  Write(w, [type |-> "terminal", status |-> ConvertStatus(status),
            output |-> w.output, usage |-> w.usage])

Send(writer, e) ==
  LET w == AccumulateUsage(writer, e.usage) IN
    CASE e.type = "message_start"    ->
           Write([FlushItems(w) EXCEPT !.output = <<>>], [type |-> "created"])
      [] e.type = "content_start"    -> OnContentStart(w, e)
      [] e.type = "content_delta"    -> OnContentDelta(FlushItems(w), e)
      [] e.type = "content_stop"     -> OnContentStop(FlushItems(w), e)
      [] e.type = "content_snapshot" -> OnContentSnapshot(w, e)
      [] e.type = "message_stop"     -> Terminal(FlushItems(w), e.status)
      [] e.type = "usage_only"       -> w

-----------------------------------------------------------------------------
(* The client (external).  It keeps the items as the events build them:    *)
(* each with the part being written, if any, and whether it is done.       *)
(* ok: every event made sense after those before it                        *)

NewView == [items |-> <<>>, terminal |-> "", usage |-> NoUsage, ok |-> TRUE]

Building(item) == [item |-> item, part |-> <<>>, done |-> FALSE]

SensibleForItem(v, e) ==
  LET own == v.items[e.place] IN
    /\ e.place \in DOMAIN v.items
    /\ ~own.done
    /\ CASE e.type = "part_added" -> own.part = <<>> /\ e.part = Len(own.item.parts)
         [] e.type = "delta"      -> own.item.type = "function_call"
                                       \/ (own.part # <<>> /\ e.part = Len(own.item.parts))
         [] e.type = "part_done"  -> own.part = <<e.text>> /\ e.part = Len(own.item.parts)
         [] e.type = "args_done"  -> own.item.args = e.text
         [] e.type = "item_done"  -> /\ own.part = <<>> /\ e.item.status = "completed"
                                     /\ \A f \in {"type", "id", "phase", "parts", "call", "args"} :
                                          e.item[f] = own.item[f]

Sensible(v, e) ==
  /\ v.terminal = ""
  /\ CASE e.type = "created"    -> v.items = <<>>
       [] e.type = "item_added" -> /\ e.place = Len(v.items) + 1
                                   /\ \A k \in DOMAIN v.items : v.items[k].item.id # e.item.id
       [] e.type = "terminal"   -> /\ \A k \in DOMAIN v.items : v.items[k].done
                                   /\ e.output = [k \in DOMAIN v.items |-> v.items[k].item]
       [] OTHER                 -> SensibleForItem(v, e)

TakeIn(v, e) ==
  CASE e.type = "item_added" -> [v EXCEPT !.items = Append(@, Building(e.item))]
    [] e.type = "part_added" -> [v EXCEPT !.items[e.place].part = <<e.text>>]
    [] e.type = "delta" ->
         IF v.items[e.place].part = <<>>
         THEN [v EXCEPT !.items[e.place].item.args = @ \o e.text]
         ELSE [v EXCEPT !.items[e.place].part[1] = @ \o e.text]
    [] e.type = "part_done"  -> [v EXCEPT !.items[e.place].part = <<>>,
                                          !.items[e.place].item.parts = Append(@, e.text)]
    [] e.type = "item_done"  -> [v EXCEPT !.items[e.place].item = e.item,
                                          !.items[e.place].done = TRUE]
    [] e.type = "terminal"   -> [v EXCEPT !.terminal = e.status, !.usage = e.usage]
    [] OTHER -> v

\* After an event that made no sense the client reads no more.
Read(v, e) ==
  IF v.ok /\ Sensible(v, e) THEN TakeIn(v, e) ELSE [v EXCEPT !.ok = FALSE]

\* The output items as input items of the next request.
Replay(v) ==
  [k \in DOMAIN v.items |->
     LET item == v.items[k].item IN
       IF item.type = "message"
       THEN [InputMessage("assistant", [p \in DOMAIN item.parts |-> Text(item.parts[p])])
               EXCEPT !.phase = item.phase]
       ELSE item]

=============================================================================
