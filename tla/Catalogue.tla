------------------------------ MODULE Catalogue ------------------------------
(***************************************************************************)
(* The router's models and aliases, as NewModelUseCase loads them, and the *)
(* candidates of a request, as ElectForChat and ElectForEmbedding collect  *)
(* them alike (internal/biz/model: model.go, chat.go, embedding.go).       *)
(***************************************************************************)
EXTENDS Integers, Lists

CONSTANTS
  Configured,    \* the models, in the order of the configuration
  SpecOf,        \* model -> [upstream, id, serves]; serves: the capabilities
                 \* it has by its configuration and its upstream's client
  AliasConfigs,  \* the aliases: [id, upstream, model]; upstream "": any
  OutputBuffer   \* the tokens reserved for the answer of a chat, 512 in the code

Models == Range(Configured)

\* Every model of the configuration is an object of its own.
ASSUME CatalogueAssumption ==
  /\ Configured \in Seq(Models) /\ IsInjective(Configured)
  /\ AliasConfigs \in Seq(Range(AliasConfigs))
  /\ \A m \in Models : DOMAIN SpecOf[m] = {"upstream", "id", "serves"}
  /\ OutputBuffer \in Nat

\* The models an alias stands for, resolved when the router starts.
Resolve(a) ==
  Only(Configured, {m \in Models : /\ SpecOf[m].id = a.model
                                   /\ a.upstream \in {"", SpecOf[m].upstream}})

\* An alias without a model is dropped; of one id the last alias counts.
AliasModels(name) ==
  LET named == Only(AliasConfigs, {a \in Range(AliasConfigs) :
                                     a.id = name /\ Resolve(a) # <<>>})
  IN  IF named = <<>> THEN <<>> ELSE Resolve(Last(named))

Serves(m, ask) == ask.need \in SpecOf[m].serves

\* A request `ask' names a model, needs a capability, and has so many
\* characters of text and images.  Its tokens are estimated: four characters
\* each, or part of them; for a chat also 768 for an image, and the buffer.
TextTokens(chars) == IF chars = 0 THEN 0 ELSE chars \div 4 + 1

EstimateTokens(ask) ==
  TextTokens(ask.chars)
    + IF ask.need = "chat" THEN 768 * ask.images + OutputBuffer ELSE 0

AllCandidates(ask) == Only(Configured, {m \in Models : Serves(m, ask)})

\* The candidates that have the name themselves.
OwnMatches(ask) ==
  Only(AllCandidates(ask), {m \in Models : SpecOf[m].id = ask.model})

\* (faulty) What an alias stands for is taken to be capable.
MatchingByName(ask) ==
  OwnMatches(ask)
    \o Only(AliasModels(ask.model), Models \ Range(OwnMatches(ask)))

\* The models with the name, then those of the alias that are not among them.
Matching(ask) ==
  OwnMatches(ask)
    \o Only(AliasModels(ask.model),
            {m \in Models : Serves(m, ask)} \ Range(OwnMatches(ask)))

\* Without a match any model with the capability will do.
CandidatesOf(ask) ==
  IF Matching(ask) # <<>> THEN Matching(ask) ELSE AllCandidates(ask)

=============================================================================
