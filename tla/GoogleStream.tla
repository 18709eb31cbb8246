---------------------------- MODULE GoogleStream ----------------------------
(***************************************************************************)
(* The converter of Google's streamed responses to chat events             *)
(* (googleChatStreamClient, internal/data/upstream/google: google.go and   *)
(* convert.go).                                                            *)
(*                                                                         *)
(* A response has a content or not; its parts are texts, thoughts and      *)
(* function calls, each possibly signed.  It has the reason the turn       *)
(* finished, "" if it did not, and the usage so far.  A function call      *)
(* whose arguments cannot be encoded does not exist: they were decoded     *)
(* from JSON.                                                              *)
(***************************************************************************)
EXTENDS ChatEvents

NewClient == [messageStarted |-> FALSE, nextIndex |-> 0, open |-> <<>>,
              lastUsage |-> NoUsage, out |-> <<>>]

\* (faulty) The reason is taken at its word.
StatusByReason(reason, parts) ==
  CASE reason = "stop"   -> "completed"
    [] reason = "length" -> "token_limit"
    [] reason = "filter" -> "refused"
    [] OTHER             -> "in_progress"

\* Google finishes with "stop" after function calls too.
StatusOf(reason, parts) ==
  CASE reason = "stop" /\ (\E k \in DOMAIN parts : parts[k].kind = "tool") ->
         "pending_tool_use"
    [] reason = "stop" /\ (\A k \in DOMAIN parts : parts[k].kind # "tool") ->
         "completed"
    [] reason = "length" -> "token_limit"
    [] reason = "filter" -> "refused"
    [] OTHER             -> "in_progress"

StartMessage(c) ==
  IF c.messageStarted THEN c
  ELSE [Emit(c, MessageStart(NoUsage)) EXCEPT !.messageStarted = TRUE]

\* A function call comes whole, as a block of its own; a text continues the
\* open block of its phase.
ConvertPart(c, part) ==
  IF part.kind = "tool"
  THEN CloseOpenBlock(
         WriteDelta(
           WriteDelta(StartBlock(CloseOpenBlock(c), "tool", 0, part.id),
                      "tool", part.text),
           "signature", part.signature))
  ELSE IF part.text = <<>> THEN c
  ELSE WriteDelta(WriteDelta(OpenBlock(c, part.kind, 0, 0), "text", part.text),
                  "signature", part.signature)

Report(c, usage) == IF usage = NoUsage THEN c ELSE [c EXCEPT !.lastUsage = usage]

\* A response without a content is skipped, with all it carries.
Convert(c, resp) ==
  LET said     == Loop(ConvertPart, StartMessage(c), resp.parts)
      reported == Report(said, resp.usage)
  IN  IF ~resp.hasContent THEN c
      ELSE IF resp.reason = "" THEN reported
      ELSE Emit(CloseOpenBlock(reported),
                MessageStop(StatusOf(resp.reason, resp.parts), reported.lastUsage))

\* Nothing is emitted when the upstream ends.
Finish(c) == c

=============================================================================
