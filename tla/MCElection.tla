----------------------------- MODULE MCElection -----------------------------
(* Configurations of the router for Election.                              *)
EXTENDS Election, TLC

CONSTANTS m1, m2, uc, mc, ut, dr

NoLimiters == [request |-> <<>>, token |-> <<>>]

(* Two models of one upstream, which limits concurrency; the first limits  *)
(* tokens per minute, the second requests per day.                         *)
SharedUpstream == [request |-> <<uc>>, token |-> <<>>]
SharedModels == <<m1, m2>>
SharedSpecs ==
  m1 :> [upstream |-> "u1", id |-> "a", serves |-> {"chat", "embedding"}] @@
  m2 :> [upstream |-> "u1", id |-> "b", serves |-> {"chat"}]
SharedGroupsOf ==
  m1 :> <<SharedUpstream, [request |-> <<>>, token |-> <<ut>>]>> @@
  m2 :> <<SharedUpstream, [request |-> <<dr>>, token |-> <<>>]>>

(* Both models are asked for by "a", the name of one and an alias of the   *)
(* other; "c" is an alias of the second alone, which replaces one of the   *)
(* first, and "d" of nothing.                                              *)
SharedAliases ==
  <<[id |-> "a", upstream |-> "", model |-> "b"],
    [id |-> "c", upstream |-> "", model |-> "a"],
    [id |-> "c", upstream |-> "u1", model |-> "b"],
    [id |-> "d", upstream |-> "u2", model |-> "a"]>>
Ask(need, model, chars, images) ==
  [need |-> need, model |-> model, chars |-> chars, images |-> images]

(* Of no token, of one, or of more than the first model's limit.           *)
SharedAsks == {Ask("chat", model, chars, 0) : model \in {"a", "c"}, chars \in {0, 1}}
                \union {Ask("chat", "a", 0, 1)}
                \union {Ask("embedding", "c", chars, 1) : chars \in {0, 1, 4}}
OneAsk     == {Ask("chat", "d", 0, 0)}

(* One model, with a concurrency limit of its own under its upstream's.    *)
NestedModels == <<m1>>
NestedGroupsOf ==
  m1 :> <<[request |-> <<uc>>, token |-> <<>>], [request |-> <<mc>>, token |-> <<>>]>>

OneEach(S) == [l \in S |-> 1]
SharedLimits == OneEach({uc, ut, dr})
NestedLimits == OneEach({uc, mc})

=============================================================================
