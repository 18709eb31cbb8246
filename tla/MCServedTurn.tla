---------------------------- MODULE MCServedTurn ----------------------------
(* Configurations of served turns for ServedTurn.                          *)
EXTENDS ServedTurn

\* Functions with and without a schema, and a tool nobody converts.
MCTools ==
  <<Tool("function", "f", <<{"properties", "required"}>>), Tool("builtin", "b", <<>>),
    Tool("function", "g", <<>>)>>

\* Every effort under every mode of thinking, budgets, token limits, for which
\* OpenAI's chat completions have two fields, tools, and everything else.
MCSettings ==
  {[NoSettings EXCEPT !.effort = EffortNames[e], !.thinking = t]
     : e \in DOMAIN EffortNames, t \in {"", "disabled", "adaptive"}}
  \union {[NoSettings EXCEPT !.thinking = "enabled", !.budget = b] : b \in {500, 1500}}
  \union {[NoSettings EXCEPT !.limit = l, !.legacyLimit = m] : l, m \in {0, 100, 200}}
  \union {[NoSettings EXCEPT !.tools = SubSeq(MCTools, j, k)] : j, k \in DOMAIN MCTools}
  \union {[NoSettings EXCEPT !.grammar = g, !.sampling = p, !.stop = (g = "")]
            : g \in {"", "json", "schema"}, p \in SUBSET SamplingParameters}

=============================================================================
