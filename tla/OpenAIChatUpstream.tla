------------------------- MODULE OpenAIChatUpstream -------------------------
(***************************************************************************)
(* A chat request as one of OpenAI's chat completions, and a completion as *)
(* a response (internal/data/upstream/openai/chat_convert.go).             *)
(*                                                                         *)
(* A message to the provider has a role, the parts of its content, the     *)
(* calls of an assistant, and the call a tool answers.  A string content   *)
(* is a single part.                                                       *)
(***************************************************************************)
EXTENDS ChatRequests

Turn(role, parts, calls, call) ==
  [role |-> role, parts |-> parts, calls |-> calls, call |-> call]

\* The texts of a message joined, whatever their phase.
PlainText(m)   == Join(m.contents, TextKinds)
IsPlainText(m) == \A k \in DOMAIN m.contents : m.contents[k].kind # "image"

\* A single part, or a string, if the configuration prefers it for the role
\* (`joined' is the set of those roles) and there is no image; else the parts.
Parts(m, joined, parts) ==
  IF m.role \in joined /\ IsPlainText(m) THEN <<Text(PlainText(m))>> ELSE parts

\* (faulty) The user's message comes before the results.
ConvertUserMessageFirst(m, joined) ==
  LET results == Select(m.contents, {"result"})
      others  == SelectSeq(m.contents, LAMBDA c : c.kind # "result")
  IN  Opt(results = <<>> \/ others # <<>>,
          Turn("user", Parts(m, joined, Select(others, TextKinds \union {"image"})), <<>>, 0))
        \o [k \in DOMAIN results |-> Turn("tool", <<Text(results[k].text)>>, <<>>, results[k].call)]

\* Every result is a message of its own, before the user's.
ConvertUserMessage(m, joined) ==
  LET results == Select(m.contents, {"result"})
      others  == SelectSeq(m.contents, LAMBDA c : c.kind # "result")
  IN  [k \in DOMAIN results |-> Turn("tool", <<Text(results[k].text)>>, <<>>, results[k].call)]
        \o Opt(results = <<>> \/ others # <<>>,
               Turn("user", Parts(m, joined, Select(others, TextKinds \union {"image"})), <<>>, 0))

\* Reasoning is left out, except when the texts are joined.
ConvertModelMessage(m, joined) ==
  Turn("assistant", Parts(m, joined, Select(m.contents, {"text", "outcome"})),
       Select(m.contents, {"tool"}), 0)

ConvertMessage(m, joined) ==
  CASE m.role = "system" -> <<Turn("system", Parts(m, joined, Select(m.contents, TextKinds)), <<>>, 0)>>
    [] m.role = "user"   -> ConvertUserMessage(m, joined)
    [] m.role = "model"  -> <<ConvertModelMessage(m, joined)>>

ConvertRequest(messages, joined) ==
  FlatMap(messages, LAMBDA m : ConvertMessage(m, joined))

EffortName(effort) == IF effort = 0 THEN "" ELSE EffortNames[effort]

ConvertConfig(c) ==
  [limit    |-> c.maxTokens,
   effort   |-> IF c.reasoning = <<>> THEN "" ELSE EffortName(Head(c.reasoning).effort),
   grammar  |-> c.grammar, stop |-> c.stop, sampling |-> c.sampling \ {"top_k"}]

ConvertTools(tools) == Functions(tools)

-----------------------------------------------------------------------------
\* A message of the provider: its content, its reasoning and its calls.  The
\* reasoning comes after the content.
ConvertResponseMessage(m) ==
  Opt(m.content # <<>>, Text(m.content))
    \o Opt(m.reasoning # <<>>, Content("reasoning", NoItem, 0, m.reasoning))
    \o [k \in DOMAIN m.calls |-> ToolUse(m.calls[k].call, m.calls[k].text)]

=============================================================================
