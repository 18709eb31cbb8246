---------------------------- MODULE ChatRequests ----------------------------
(***************************************************************************)
(* A chat request (api/neurouter/v1/chat.proto, content.proto): what the   *)
(* servers convert their clients' requests to, and the upstream clients    *)
(* convert to their providers' requests.                                   *)
(*                                                                         *)
(* A message is a role and a sequence of contents.  Beside the kinds a     *)
(* stream has, a request's contents may be an image, or the "result" of    *)
(* the tool call `call'; the outputs of a result are one text.             *)
(***************************************************************************)
EXTENDS ChatEvents

Roles == {"system", "user", "model"}

Message(role, contents) == [role |-> role, contents |-> contents]

Text(text)             == Content("text", NoItem, 0, text)
Image(text)            == Content("image", NoItem, 0, text)
ToolUse(call, text)    == Content("tool", NoItem, call, text)
ToolResult(call, text) == Content("result", NoItem, call, text)
Opaque(item, text)     == Content("opaque", item, 0, text)

\* The opaque contents of the model are encrypted reasoning.
IsReasoning(c) == c.kind \in {"reasoning", "opaque"}
IsText(c)      == c.kind \in TextKinds

\* For each element of s, the sequence Op makes of it, joined.
FlatMap(s, Op(_)) == FoldLeft(LAMBDA acc, x : acc \o Op(x), <<>>, s)

Select(contents, kinds) == SelectSeq(contents, LAMBDA c : c.kind \in kinds)

\* The text of the contents of some kinds, joined.
Join(contents, kinds) == FlatMap(Select(contents, kinds), LAMBDA c : c.text)

\* An option: a sequence of at most one element.
Opt(present, x) == IF present THEN <<x>> ELSE <<>>

-----------------------------------------------------------------------------
(* Settings.  An effort is a level of the enumeration ReasoningEffort, 0   *)
(* when unspecified; the names are those of OpenAI.                        *)

EffortNames == <<"none", "minimal", "low", "medium", "high", "xhigh", "max">>
OffEffort   == 1

EffortOf(name) ==
  IF \E l \in DOMAIN EffortNames : EffortNames[l] = name
  THEN CHOOSE l \in DOMAIN EffortNames : EffortNames[l] = name
  ELSE 0

\* GenerationConfig.  maxTokens, reasoning: options; grammar: "", "json" or
\* "schema"; sampling: the sampling parameters that are set; stop: whether
\* there are stop sequences.
Config(maxTokens, reasoning, grammar, sampling, stop) ==
  [maxTokens |-> maxTokens, reasoning |-> reasoning, grammar |-> grammar,
   sampling |-> sampling, stop |-> stop]

Reasoning(effort, budget) == [effort |-> effort, budget |-> budget]

SamplingParameters == {"temperature", "top_p", "top_k", "penalties"}

\* A tool a request declares: a function with the fields of its schema, an
\* option, or a tool of one dialect alone ("builtin"), which nobody converts.
Tool(kind, name, schema) == [kind |-> kind, name |-> name, schema |-> schema]

Functions(tools) == SelectSeq(tools, LAMBDA t : t.kind = "function")

Fields(tool) == UNION Range(tool.schema)

\* A request of a client, whatever its dialect, with the settings of all.
\* limit: the token limit; legacyLimit: that of OpenAI's field max_tokens;
\* effort: "" or a name; thinking: Anthropic's, "", "enabled" (with a budget),
\* "disabled" or "adaptive".
NoSettings == [limit |-> 0, legacyLimit |-> 0, effort |-> "", thinking |-> "",
               budget |-> 0, grammar |-> "", sampling |-> {}, stop |-> FALSE, tools |-> <<>>]

=============================================================================
