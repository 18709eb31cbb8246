--------------------------- MODULE AnthropicStream ---------------------------
(***************************************************************************)
(* The converter of Anthropic's message stream events to chat events       *)
(* (anthropicChatStreamClient, internal/data/upstream/anthropic:           *)
(* anthropic.go and convert.go).                                           *)
(*                                                                         *)
(* The provider opens and closes the blocks and numbers them.  The events  *)
(* the converter ignores (ping, message_stop, an unknown type) are left    *)
(* out.                                                                    *)
(***************************************************************************)
EXTENDS ChatEvents

\* pendingSnapshotStops: the indices of the redacted blocks, which were
\* passed on whole and whose stop is swallowed
NewClient == [pendingSnapshotStops |-> {}, out |-> <<>>]

\* stop_reason
StatusOf(reason) ==
  CASE reason = "stop"   -> "completed"
    [] reason = "length" -> "token_limit"
    [] reason = "calls"  -> "pending_tool_use"
    [] reason = "filter" -> "refused"
    [] OTHER             -> "in_progress"

\* Only this event counts the input.
OnMessageStart(c, e) == Emit(c, MessageStart(e.usage))

EmitIf(c, text, e) == IF text = <<>> THEN c ELSE Emit(c, e)

\* A block may bring its first fragments, and a thinking block its signature.
OnBlockStart(c, e) ==
  IF e.kind = "opaque"
  THEN [Emit(c, ContentSnapshot(e.index, NoItem, e.text))
          EXCEPT !.pendingSnapshotStops = @ \union {e.index}]
  ELSE LET started == Emit(c, ContentStart(e.index, e.kind, NoItem, e.id))
           said    == EmitIf(started, e.text, ContentDelta(e.index, "text", e.text))
       IN  EmitIf(said, e.signature, ContentDelta(e.index, "signature", e.signature))

OnBlockDelta(c, e) == Emit(c, ContentDelta(e.index, e.kind, e.text))

OnBlockStop(c, e) ==
  IF e.index \in c.pendingSnapshotStops
  THEN [c EXCEPT !.pendingSnapshotStops = @ \ {e.index}]
  ELSE Emit(c, ContentStop(e.index))

\* A usage without a stop reason is an event of its own.
OnMessageDelta(c, e) ==
  CASE e.reason # "" -> Emit(c, MessageStop(StatusOf(e.reason), e.usage))
    [] e.reason = "" /\ e.usage # NoUsage -> Emit(c, UsageOnly(e.usage))
    [] OTHER -> c

\* Nothing is emitted when the upstream ends.
Finish(c) == c

=============================================================================
