--------------------------- MODULE AnthropicServer ---------------------------
(***************************************************************************)
(* The server of Anthropic's Messages API (internal/server/anthropic:      *)
(* convert.go, stream.go).  A block of a message, of the client or of the  *)
(* response, is a content here: its type is the content's kind, and        *)
(* "reasoning" stands for thinking, "opaque" for redacted thinking.        *)
(***************************************************************************)
EXTENDS ChatRequests

-----------------------------------------------------------------------------
(* Requests                                                                *)

\* A block carries what its type has, and no ids of items or phases.
ConvertBlock(block) ==
  LET c == Content(block.kind, NoItem, block.call, block.text) IN
    IF block.kind = "reasoning" THEN [c EXCEPT !.signature = block.signature] ELSE c

ConvertMessage(m) ==
  Message(IF m.role = "assistant" THEN "model" ELSE "user",
          [k \in DOMAIN m.blocks |-> ConvertBlock(m.blocks[k])])

ConvertRequest(system, messages) ==
  Opt(system # <<>>, Message("system", [k \in DOMAIN system |-> Text(system[k])]))
    \o [k \in DOMAIN messages |-> ConvertMessage(messages[k])]

\* Thinking is enabled with a budget, disabled, or adaptive with an effort.
\* Anthropic's efforts are those from "low".
ConvertThinking(s) ==
  CASE s.thinking = "enabled"  -> <<Reasoning(0, s.budget)>>
    [] s.thinking = "disabled" -> <<Reasoning(OffEffort, 0)>>
    [] s.thinking = "adaptive" \/ (s.thinking = "" /\ s.effort # "") ->
         <<Reasoning(IF s.effort \in {"none", "minimal"} THEN 0 ELSE EffortOf(s.effort), 0)>>
    [] OTHER -> <<>>

ConvertConfig(s) ==
  Config(Opt(s.limit # 0, s.limit), ConvertThinking(s),
         IF s.grammar = "schema" THEN "schema" ELSE "", s.sampling \ {"penalties"}, s.stop)

\* A schema always has its type.
ConvertTools(tools) ==
  [k \in DOMAIN Functions(tools) |->
     LET t == Functions(tools)[k] IN [t EXCEPT !.schema = <<Fields(t) \union {"type"}>>]]

-----------------------------------------------------------------------------
(* A response at once                                                      *)

\* A turn without a status of its own, even a failed one, has just ended.
StopReason(status) ==
  CASE status = "refused"          -> "refusal"
    [] status = "pending_tool_use" -> "tool_use"
    [] status = "token_limit"      -> "max_tokens"
    [] OTHER                       -> "end_turn"

ToBlock(c) ==
  LET kind == IF c.kind = "outcome" THEN "text" ELSE c.kind
      b    == Content(kind, NoItem, c.call, c.text)
  IN  IF c.kind = "reasoning" THEN [b EXCEPT !.signature = c.signature] ELSE b

\* An empty text has no block.
ConvertResponse(resp) ==
  LET blocks == [k \in DOMAIN resp.contents |-> ToBlock(resp.contents[k])] IN
    [blocks |-> SelectSeq(blocks, LAMBDA b : b.kind # "text" \/ b.text # <<>>),
     stop   |-> StopReason(resp.status),
     usage  |-> resp.usage]

-----------------------------------------------------------------------------
(* A response as a stream.  An event is one of chat, with a block's type   *)
(* in place of a content's kind; the writer's errors are ignored.          *)

\* blockPhases: the kinds of the open blocks by index; out: what Send wrote
NewWriter == [blockPhases |-> <<>>, out |-> <<>>]

Write(w, event) == [w EXCEPT !.out = Append(@, event)]

StartContentBlock(w, e) ==
  Write([w EXCEPT !.blockPhases = (e.index :> e.kind) @@ @],
        ContentStart(e.index, IF e.kind = "outcome" THEN "text" ELSE e.kind, NoItem, e.call))

\* The type of a text delta is that of its block.
DeltaContentBlock(w, e) ==
  LET kind == IF e.kind # "text" THEN e.kind
              ELSE IF e.index \in DOMAIN w.blockPhases /\ w.blockPhases[e.index] = "reasoning"
              THEN "reasoning" ELSE "text"
  IN  Write(w, ContentDelta(e.index, kind, e.text))

\* (faulty) The block is not forgotten.
StopBlockKept(w, index) == Write(w, ContentStop(index))

StopBlock(w, index) ==
  Write([w EXCEPT !.blockPhases = [i \in DOMAIN @ \ {index} |-> @[i]]], ContentStop(index))

SnapshotContentBlock(w, e) ==
  StopBlock(Write(w, [ContentStart(e.index, "opaque", NoItem, 0) EXCEPT !.text = e.text]),
            e.index)

\* The usage is that of the first and of the last event; what others report
\* is not passed on.
Send(w, e) ==
  CASE e.type = "message_start"    -> Write(w, MessageStart(e.usage))
    [] e.type = "content_start"    -> StartContentBlock(w, e)
    [] e.type = "content_delta"    -> DeltaContentBlock(w, e)
    [] e.type = "content_stop"     -> StopBlock(w, e.index)
    [] e.type = "content_snapshot" -> SnapshotContentBlock(w, e)
    [] e.type = "message_stop"     -> Write(w, MessageStop(StopReason(e.status), e.usage))
    [] OTHER -> w

-----------------------------------------------------------------------------
(* The client (external).  open: the indexes of the open blocks;           *)
(* ok: every event made sense after those before it                        *)

NewView == [blocks |-> <<>>, open |-> {}, stop |-> "", usage |-> NoUsage, ok |-> TRUE]

\* The client places a block by its index, and appends deltas of its type;
\* it drops the signature of a block other than thinking.
Sensible(v, e) ==
  CASE e.type = "content_start" -> e.index = Len(v.blocks)
    [] e.type = "content_delta" -> /\ e.index \in v.open
                                   /\ LET kind == v.blocks[e.index + 1].kind IN
                                        e.kind \in {kind, "signature"}
    [] e.type = "content_stop"  -> e.index \in v.open
    [] e.type = "message_stop"  -> v.open = {}
    [] OTHER                    -> TRUE

TakeIn(v, e) ==
  CASE e.type = "message_start" -> [v EXCEPT !.usage = e.usage]
    [] e.type = "content_start" ->
         [v EXCEPT !.blocks = Append(@, Content(e.kind, NoItem, e.call, e.text)),
                   !.open = @ \union {e.index}]
    [] e.type = "content_delta" ->
         CASE e.kind # "signature" -> [v EXCEPT !.blocks[e.index + 1].text = @ \o e.text]
           [] e.kind = "signature" /\ v.blocks[e.index + 1].kind = "reasoning" ->
                [v EXCEPT !.blocks[e.index + 1].signature = @ \o e.text]
           [] OTHER -> v
    [] e.type = "content_stop"  -> [v EXCEPT !.open = @ \ {e.index}]
    [] e.type = "message_stop"  -> [v EXCEPT !.stop = e.status, !.usage = MergeUsage(@, e.usage)]

Read(v, e) ==
  IF v.ok /\ Sensible(v, e) THEN TakeIn(v, e) ELSE [v EXCEPT !.ok = FALSE]

Turn(role, blocks) == [role |-> role, blocks |-> blocks]

Replay(v) == <<Turn("assistant", v.blocks)>>

=============================================================================
