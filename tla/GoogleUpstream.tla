--------------------------- MODULE GoogleUpstream ---------------------------
(***************************************************************************)
(* A chat request as one of Google's, and contents of it as a response     *)
(* (internal/data/upstream/google/convert.go).                             *)
(*                                                                         *)
(* A part is a content, with the name of the function and Google's id of   *)
(* the call (0 if there is none) in place of the call's id, which packs    *)
(* both.  A name is a number below 10; a packed id is ten times the name   *)
(* plus Google's id; an id from 100 on is another provider's, which has    *)
(* no separator.                                                           *)
(***************************************************************************)
EXTENDS ChatRequests

IsForeign(call) == call >= 100

\* The name of the function a call is of (ToolUse.name).
NameOf(call) == IF IsForeign(call) THEN 9 ELSE IF call < 10 THEN call ELSE call \div 10

\* What toolUseIDFromGoogle builds.
ToolUseID(name, id) == IF id = 0 THEN name ELSE name * 10 + id

\* What splitToolUseID unpacks: an id without a separator is a bare name.
SplitToolUseID(call) ==
  IF IsForeign(call) \/ call < 10 THEN [name |-> call, id |-> 0]
  ELSE [name |-> call \div 10, id |-> call % 10]

Part(kind, text, signature, name, id) ==
  [kind |-> kind, text |-> text, signature |-> signature, name |-> name, id |-> id]

\* A result has the name and the id that its call's id packs.
ConvertToolResult(c) ==
  LET split == SplitToolUseID(c.call) IN Part("result", c.text, <<>>, split.name, split.id)

\* Thoughts are replayed only if they are signed; encrypted ones never.
ConvertContent(c) ==
  CASE c.kind = "opaque" \/ (c.kind = "reasoning" /\ c.signature = <<>>) -> <<>>
    [] c.kind = "tool"   -> <<Part("tool", c.text, c.signature, NameOf(c.call),
                                   SplitToolUseID(c.call).id)>>
    [] c.kind = "result" -> <<ConvertToolResult(c)>>
    [] OTHER -> <<Part(IF c.kind = "outcome" THEN "text" ELSE c.kind,
                       c.text, c.signature, 0, 0)>>

ConvertMessage(m) ==
  [role  |-> IF m.role = "model" THEN "model" ELSE "user",
   parts |-> FlatMap(m.contents, ConvertContent)]

\* The parts of all system messages, wherever they are, unless they are sent
\* as the user's.
ConvertSystem(messages, systemAsUser) ==
  FlatMap(messages, LAMBDA m : IF m.role = "system" /\ ~systemAsUser
                               THEN FlatMap(m.contents, ConvertContent) ELSE <<>>)

\* A message whose contents are all left out stays, without a part.
ConvertRequest(messages, systemAsUser) ==
  LET rest == SelectSeq(messages, LAMBDA m : m.role # "system" \/ systemAsUser) IN
    [system   |-> ConvertSystem(messages, systemAsUser),
     messages |-> [k \in DOMAIN rest |-> ConvertMessage(rest[k])]]

\* Google's levels end with "high".
Level(effort) ==
  CASE effort <= OffEffort          -> ""
    [] effort > EffortOf("high")    -> "high"
    [] OTHER                        -> EffortNames[effort]

\* budget: an option, 0 turns thinking off
ConvertThinking(r) ==
  IF r.effort = OffEffort THEN [thoughts |-> FALSE, level |-> "", budget |-> <<0>>]
  ELSE [thoughts |-> TRUE, level |-> Level(r.effort), budget |-> Opt(r.budget # 0, r.budget)]

ConvertConfig(c) ==
  [limit    |-> c.maxTokens,
   thinking |-> IF c.reasoning = <<>> THEN <<>> ELSE <<ConvertThinking(Head(c.reasoning))>>,
   grammar  |-> "", stop |-> c.stop, sampling |-> c.sampling \ {"penalties"}]

\* All functions are declared by one tool, if any.
ConvertTools(tools) == Opt(tools # <<>>, Functions(tools))

-----------------------------------------------------------------------------
\* A part of the provider's content: a text or a thought, which is left out
\* if it is empty, or a call.
ConvertPart(p) ==
  LET signed(c) == <<[c EXCEPT !.signature = p.signature]>> IN
    CASE p.kind \in {"text", "reasoning"} /\ p.text # <<>> -> signed(Content(p.kind, NoItem, 0, p.text))
      [] p.kind = "tool" -> signed(ToolUse(ToolUseID(p.name, p.id), p.text))
      [] OTHER           -> <<>>

ConvertResponseMessage(parts) == FlatMap(parts, ConvertPart)

=============================================================================
