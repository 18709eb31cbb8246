----------------------------- MODULE UnaryTurn -----------------------------
(***************************************************************************)
(* The turn of UpstreamStream at once: what the provider would have        *)
(* answered to a request that does not stream (external), and what the     *)
(* clients make of it (Chat of openai.go, anthropic.go and google.go).     *)
(***************************************************************************)
EXTENDS UpstreamStream

ChatUp      == INSTANCE OpenAIChatUpstream
ResponsesUp == INSTANCE OpenAIResponsesUpstream
AnthropicUp == INSTANCE AnthropicUpstream
GoogleUp    == INSTANCE GoogleUpstream

-----------------------------------------------------------------------------
AsCompletion == [content   |-> ChatUp!Join(sent.contents, {"text"}),
                 reasoning |-> ChatUp!Join(sent.contents, {"reasoning"}),
                 calls     |-> ChatUp!Select(sent.contents, {"tool"})]

OfItem(contents, item) == SelectSeq(contents, LAMBDA c : c.item = item)

AsOutputItem(o) ==
  LET own   == OfItem(sent.contents, ItemId(o))
      call  == ChatUp!Select(own, {"tool"})
      parts == ChatUp!Select(own, TextKinds)
  IN  [type  |-> sent.items[o].type, id |-> ItemId(o),
       phase |-> IF sent.items[o].phase = "outcome" THEN "final_answer" ELSE "",
       parts |-> [k \in DOMAIN parts |-> parts[k].text],
       encrypted |-> ChatUp!Join(own, {"opaque"}),
       call  |-> IF call = <<>> THEN 0 ELSE Head(call).call,
       args  |-> ChatUp!Join(call, {"tool"})]

AsOutput == [k \in 1 .. Cardinality(DOMAIN sent.items) |-> AsOutputItem(k - 1)]

AsGoogleParts ==
  [k \in DOMAIN sent.contents |->
     LET c == sent.contents[k] IN GoogleUp!Part(c.kind, c.text, c.signature, c.call, 0)]

OpenAIUnary    == IF dialect = "openai_chat"
                  THEN ChatUp!ConvertResponseMessage(AsCompletion)
                  ELSE ResponsesUp!ConvertResponseMessage(AsOutput)
AnthropicUnary == AnthropicUp!ConvertResponseMessage(sent.contents)
GoogleUnary    == GoogleUp!ConvertResponseMessage(AsGoogleParts)

Unary ==
  CASE dialect = "anthropic" -> AnthropicUnary
    [] dialect = "google"    -> GoogleUnary
    [] OTHER                 -> OpenAIUnary

-----------------------------------------------------------------------------
\* A whole turn that was streamed has become what it would have been at once:
\* the same contents, in the same order within an output item of the Responses
\* API.  A chat completion at once joins the texts of a kind.
UnaryAgrees ==
  phase = "ended" /\ Complete =>
    IF dialect = "openai_chat"
    THEN /\ \A kind \in {"text", "reasoning"} :
              ChatUp!Join(Unary, {kind}) = ChatUp!Join(resp.contents, {kind})
         /\ ChatUp!Select(Unary, {"tool"}) = ChatUp!Select(resp.contents, {"tool"})
    ELSE /\ Len(Unary) = Len(resp.contents)
         /\ \A item \in {c.item : c \in Range(Unary)} :
              OfItem(Unary, item) = OfItem(resp.contents, item)

=============================================================================
