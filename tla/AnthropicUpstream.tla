-------------------------- MODULE AnthropicUpstream --------------------------
(***************************************************************************)
(* A chat request as one of Anthropic's Messages API, and a message of it  *)
(* as a response (internal/data/upstream/anthropic/convert.go).  A block   *)
(* is a content, as in AnthropicServer.                                    *)
(***************************************************************************)
EXTENDS ChatRequests

\* Contents keep what a block of their type has; a text has no phase.
ConvertContent(c) ==
  LET kind == IF c.kind = "outcome" THEN "text" ELSE c.kind
      b    == Content(kind, NoItem, c.call, c.text)
  IN  IF c.kind = "reasoning" THEN [b EXCEPT !.signature = c.signature] ELSE b

ConvertMessage(m) ==
  [role   |-> IF m.role = "model" THEN "assistant" ELSE "user",
   blocks |-> [k \in DOMAIN m.contents |-> ConvertContent(m.contents[k])]]

\* The texts of all system messages, wherever they are.
ConvertSystem(messages) ==
  FlatMap(messages, LAMBDA m : IF m.role = "system" THEN Select(m.contents, TextKinds) ELSE <<>>)

\* (faulty) System messages are left among the others.
ConvertRequestWhole(messages, systemAsUser) ==
  [system   |-> IF systemAsUser THEN <<>> ELSE ConvertSystem(messages),
   messages |-> [k \in DOMAIN messages |-> ConvertMessage(messages[k])]]

\* Unless they are sent as the user's, system messages are the system prompt.
ConvertRequest(messages, systemAsUser) ==
  [system   |-> IF systemAsUser THEN <<>> ELSE ConvertSystem(messages),
   messages |-> LET rest == SelectSeq(messages, LAMBDA m : systemAsUser \/ m.role # "system")
                IN  [k \in DOMAIN rest |-> ConvertMessage(rest[k])]]

\* Anthropic has no effort below "low".
EffortName(effort) ==
  CASE effort <= OffEffort        -> ""
    [] effort = EffortOf("minimal") -> "low"
    [] OTHER                        -> EffortNames[effort]

NoThinking == [thinking |-> "", budget |-> 0, effort |-> ""]

MinBudget == 1024

\* (faulty) A budget is taken as it is.
ConvertThinkingBudget(r) ==
  CASE r.effort = OffEffort -> [NoThinking EXCEPT !.thinking = "disabled"]
    [] r.effort # OffEffort /\ r.budget > 0 ->
         [NoThinking EXCEPT !.thinking = "enabled", !.budget = r.budget]
    [] r.effort # OffEffort /\ r.budget = 0 ->
         [NoThinking EXCEPT !.thinking = "adaptive", !.effort = EffortName(r.effort)]

\* Thinking is off, has a budget, or is adaptive with an effort.
ConvertThinking(r) ==
  CASE r.effort = OffEffort -> [NoThinking EXCEPT !.thinking = "disabled"]
    [] r.effort # OffEffort /\ r.budget > 0 ->
         [NoThinking EXCEPT !.thinking = "enabled",
                            !.budget = IF r.budget > MinBudget THEN r.budget ELSE MinBudget]
    [] r.effort # OffEffort /\ r.budget = 0 ->
         [NoThinking EXCEPT !.thinking = "adaptive", !.effort = EffortName(r.effort)]

DefaultLimit == 8192

\* A limit is required.
ConvertConfig(c) ==
  [limit    |-> IF c.maxTokens # <<>> /\ Head(c.maxTokens) > 0 THEN c.maxTokens ELSE <<DefaultLimit>>,
   thinking |-> IF c.reasoning = <<>> THEN NoThinking ELSE ConvertThinking(Head(c.reasoning)),
   grammar  |-> IF c.grammar = "schema" THEN "schema" ELSE "",
   stop     |-> c.stop, sampling |-> c.sampling \ {"penalties"}]

\* A schema gets a type and properties, if it has none.
ConvertSchema(schema) ==
  [k \in DOMAIN schema |-> schema[k] \union {"type", "properties"}]

ConvertTools(tools) ==
  [k \in DOMAIN Functions(tools) |->
     [Functions(tools)[k] EXCEPT !.schema = ConvertSchema(@)]]

-----------------------------------------------------------------------------
\* A block of the provider's message.
ConvertBlock(b) == [Content(b.kind, NoItem, b.call, b.text) EXCEPT !.signature = b.signature]

ConvertResponseMessage(blocks) == [k \in DOMAIN blocks |-> ConvertBlock(blocks[k])]

=============================================================================
