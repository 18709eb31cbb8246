--------------------------- MODULE UpstreamClients ---------------------------
(* The converters of the upstream clients, one for each dialect.            *)

Chat      == INSTANCE OpenAIChatStream
Responses == INSTANCE OpenAIResponsesStream
Anthropic == INSTANCE AnthropicStream
Google    == INSTANCE GoogleStream

=============================================================================
