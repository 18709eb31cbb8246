----------------------------- MODULE ChatEvents -----------------------------
(***************************************************************************)
(* The chat events an upstream stream is converted to                      *)
(* (api/neurouter/v1/chat.proto) and the reducer that rebuilds a response  *)
(* from them (ChatEventReducer, internal/biz/chat/accumulator.go).         *)
(*                                                                         *)
(* A text is the sequence of the fragments it is made of, each a number;   *)
(* the empty sequence is the empty text.  A usage is the pair of the input *)
(* and the output counter; an absent usage is the usage of zeros, which    *)
(* the reducer treats alike.                                               *)
(***************************************************************************)
EXTENDS Integers, Sequences, Lists, TLC

NoUsage == [in |-> 0, out |-> 0]
NoItem  == <<>>

TextKinds  == {"text", "outcome", "reasoning"}  \* a text content's phase
DeltaKinds == {"text", "tool", "signature"}
Statuses   == {"unspecified", "in_progress", "completed", "failed", "refused",
               "cancelled", "pending_tool_use", "token_limit"}

\* An event; a field that its type does not have is blank.
\* kind: of the content, or of a delta; item: the upstream item a content is
\* derived from; call: the id of a tool call.
Blank == [type |-> "usage_only", index |-> 0, kind |-> "", item |-> NoItem,
          call |-> 0, text |-> <<>>, status |-> "unspecified", usage |-> NoUsage]

UsageOnly(u)       == [Blank EXCEPT !.usage = u]
MessageStart(u)    == [Blank EXCEPT !.type = "message_start", !.usage = u]
MessageStop(s, u)  == [Blank EXCEPT !.type = "message_stop", !.status = s, !.usage = u]
ContentStop(i)     == [Blank EXCEPT !.type = "content_stop", !.index = i]
ContentStart(i, kind, item, call) ==
  [Blank EXCEPT !.type = "content_start", !.index = i, !.kind = kind,
                !.item = item, !.call = call]
ContentDelta(i, kind, text) ==
  [Blank EXCEPT !.type = "content_delta", !.index = i, !.kind = kind, !.text = text]
ContentSnapshot(i, item, text) ==
  [Blank EXCEPT !.type = "content_snapshot", !.index = i, !.kind = "opaque",
                !.item = item, !.text = text]

-----------------------------------------------------------------------------
(* A content of a message, and the reducer.                                *)

Content(kind, item, call, text) ==
  [kind |-> kind, item |-> item, call |-> call, text |-> text, signature |-> <<>>]

\* (faulty) A later report replaces all.
MergeUsageWhole(u, v) == IF v = NoUsage THEN u ELSE v

\* A later report replaces only the counters it carries.
MergeUsage(u, v) == [in  |-> IF v.in = 0 THEN u.in ELSE v.in,
                     out |-> IF v.out = 0 THEN u.out ELSE v.out]

\* The map f with the entry k, which is new or replaced.
Put(f, k, v) == [i \in DOMAIN f \union {k} |-> IF i = k THEN v ELSE f[i]]

\* contents: the message; blocks: index -> position in contents
NewReducer == [contents |-> <<>>, blocks |-> <<>>, status |-> "unspecified",
               usage |-> NoUsage]

\* (faulty) The position the message had before the content was appended.
AddContentBefore(r, e) ==
  [r EXCEPT !.contents = Append(@, Content(e.kind, e.item, e.call, e.text)),
            !.blocks   = Put(@, e.index, Len(r.contents))]

\* A content is appended and remembered by its index.
AddContent(r, e) ==
  [r EXCEPT !.contents = Append(@, Content(e.kind, e.item, e.call, e.text)),
            !.blocks   = Put(@, e.index, Len(r.contents) + 1)]

\* A delta extends the content of its index if it is of the content's kind;
\* without such a content it is dropped.
ApplyDelta(r, e) ==
  LET k == r.blocks[e.index] IN
    CASE e.index \notin DOMAIN r.blocks -> r
      [] e.index \in DOMAIN r.blocks /\ e.kind = "signature" ->
           [r EXCEPT !.contents[k].signature = @ \o e.text]
      [] e.index \in DOMAIN r.blocks /\ e.kind = "text"
           /\ r.contents[k].kind \in TextKinds ->
           [r EXCEPT !.contents[k].text = @ \o e.text]
      [] e.index \in DOMAIN r.blocks /\ e.kind = "tool"
           /\ r.contents[k].kind = "tool" ->
           [r EXCEPT !.contents[k].text = @ \o e.text]
      [] OTHER -> r

Reduce(resp, e) ==
  LET r == [resp EXCEPT !.usage = MergeUsage(@, e.usage)] IN
    CASE e.type = "message_stop"  -> [r EXCEPT !.status = e.status]
      [] e.type = "content_delta" -> ApplyDelta(r, e)
      [] e.type \in {"content_start", "content_snapshot"} -> AddContent(r, e)
      [] OTHER -> r

-----------------------------------------------------------------------------
(* What the converters of OpenAI's chat completions and of Google share:   *)
(* at most one block is open, and a block of another key closes it.  A     *)
(* client `c' has the fields open (the open block, if any), nextIndex, and *)
(* out, the events of the chunk that are not yielded yet.                  *)

Emit(c, e) == [c EXCEPT !.out = Append(@, e)]

CloseOpenBlock(c) ==
  IF c.open = <<>> THEN c
  ELSE [Emit(c, ContentStop(Head(c.open).index)) EXCEPT !.open = <<>>]

StartBlock(c, kind, call, id) ==
  [Emit(c, ContentStart(c.nextIndex, kind, NoItem, id))
     EXCEPT !.open = <<[index |-> c.nextIndex, kind |-> kind, call |-> call]>>,
            !.nextIndex = @ + 1]

\* (faulty) Calls are not told apart.
OpenBlockByKind(c, kind, call, id) ==
  IF c.open # <<>> /\ Head(c.open).kind = kind THEN c
  ELSE StartBlock(CloseOpenBlock(c), kind, call, id)

\* The open block goes on, or another is opened.  `call' tells tool calls
\* apart: the provider's index of the call, 0 for a text.
OpenBlock(c, kind, call, id) ==
  IF c.open # <<>> /\ Head(c.open).kind = kind /\ Head(c.open).call = call
  THEN c
  ELSE StartBlock(CloseOpenBlock(c), kind, call, id)

\* A fragment for the open block.
WriteDelta(c, kind, text) ==
  IF text = <<>> THEN c
  ELSE Emit(c, ContentDelta(Head(c.open).index, kind, text))

=============================================================================
