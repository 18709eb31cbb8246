----------------------------- MODULE ServedTurn -----------------------------
(***************************************************************************)
(* A turn served to clients: each chat event of a stream passes through    *)
(* the stream writer of each server (Send of chat_stream.go,               *)
(* responses_stream.go and anthropic/stream.go), whose client adds up what *)
(* it reads; the client then sends the conversation back with the results  *)
(* of the calls, and the server and an upstream client convert that        *)
(* request for a provider.  The three servers are given the same stream.   *)
(*                                                                         *)
(* The stream is what an upstream client of the dialect `origin' emits; it *)
(* may break off after any event.  The client of another router (dialect   *)
(* "neurouter") passes on what it gets, which chat.proto lets overlap.     *)
(***************************************************************************)
EXTENDS EventStream, ChatRequests, FiniteSets

CONSTANTS
  Origins,       \* the dialects of the provider that writes the turn
  Settings,      \* the settings of a first request
  MaxFragments,  \* the fragments of a turn
  MaxContents    \* the contents of a turn

ASSUME ServedTurnAssumption ==
  /\ Origins \subseteq {"openai_chat", "openai_responses", "anthropic", "google", "neurouter"}
  /\ \A s \in Settings : DOMAIN s = DOMAIN NoSettings
  /\ MaxFragments \in Nat /\ MaxContents \in Nat

VARIABLES
  origin,   \* the dialect of the provider
  resp,     \* the response as the use case reduces it
  served,   \* for each client, its server's writer and what it has read
  request   \* the client's request, as its server converted it, if any

vars == <<origin, resp, served, request, turn, event, count>>

Chat      == INSTANCE OpenAIChatServer
Responses == INSTANCE OpenAIResponsesWriter
Anthropic == INSTANCE AnthropicServer

ChatUp      == INSTANCE OpenAIChatUpstream
ResponsesUp == INSTANCE OpenAIResponsesUpstream
AnthropicUp == INSTANCE AnthropicUpstream
GoogleUp    == INSTANCE GoogleUpstream

Clients == {"openai_chat", "openai_responses", "anthropic"}

-----------------------------------------------------------------------------
(* Serving an event                                                        *)

\* The writer writes, and the client reads all of it.
Relay(s, Send(_, _), Read(_, _), e) ==
  LET w == Send(s.writer, e) IN
    [writer |-> [w EXCEPT !.out = <<>>], view |-> FoldLeft(Read, s.view, w.out)]

RelayTo(client, e) ==
  LET s == served[client] IN
    CASE client = "openai_chat"      -> Relay(s, Chat!Send, Chat!Read, e)
      [] client = "openai_responses" -> Relay(s, Responses!Send, Responses!Read, e)
      [] client = "anthropic"        -> Relay(s, Anthropic!Send, Anthropic!Read, e)

Serve(e) ==
  /\ request = <<>>
  /\ Legal(turn, e)
  /\ event'  = e
  /\ turn'   = After(turn, e)
  /\ count'  = count + 1
  /\ resp'   = Reduce(resp, e)
  /\ served' = [client \in Clients |-> RelayTo(client, e)]
  /\ UNCHANGED <<origin, request>>

-----------------------------------------------------------------------------
(* The stream of an upstream client                                        *)

Contents == resp.contents
Calls    == Select(Contents, {"tool"})
Written  == FoldLeft(LAMBDA n, c : n + Len(c.text) + Len(c.signature), 0, Contents)
Fragment == <<Written + 1>>
CanWrite == Written < MaxFragments
CanAdd   == Len(Contents) < MaxContents

\* Whether contents have ids of output items and a final answer is marked.
HasItems == origin \in {"openai_responses", "neurouter"}

\* Of two blocks that overlap at least one is a call.
MayOpen(kind) ==
  \/ turn.blocks = {}
  \/ /\ origin = "neurouter" /\ Cardinality(turn.blocks) = 1
     /\ kind = "tool" \/ \A b \in turn.blocks : b.kind = "tool"

\* The item of a content: a new one, or that of the part that ended just now.
ItemsFor(kinds) ==
  IF ~HasItems THEN {NoItem}
  ELSE {<<"item", Len(Contents)>>} \union
       IF Contents # <<>> /\ Last(Contents).kind \in kinds
            /\ event.type = "content_stop" /\ event.index = turn.next - 1
       THEN {Last(Contents).item} ELSE {}

\* Google's call ids pack the name of the function with an id, if it has one.
CallIds ==
  LET n == Len(Calls) + 1 IN IF origin = "google" THEN {n, 10 + n} ELSE {100 + n}

StartMessage ==
  Serve(MessageStart([in |-> IF origin = "anthropic" THEN 1 ELSE 0, out |-> 0]))

StartText ==
  /\ CanAdd
  /\ \E kind \in {"text", "reasoning"} \union
                 IF HasItems THEN {"outcome"} ELSE {} :
     \E item \in ItemsFor({kind}) :
       /\ MayOpen(kind)
       /\ Serve(ContentStart(turn.next, kind, item, 0))

StartTool ==
  /\ CanAdd /\ MayOpen("tool")
  /\ \E call \in CallIds, item \in ItemsFor({}) :
       Serve(ContentStart(turn.next, "tool", item, call))

\* Anthropic signs its thinking, Google any part.
Delta ==
  /\ CanWrite
  /\ \E b \in turn.blocks :
     \E kind \in {IF b.kind = "tool" THEN "tool" ELSE "text"} \union
                 IF origin = "google" \/ (origin = "anthropic" /\ b.kind = "reasoning")
                 THEN {"signature"} ELSE {} :
       Serve(ContentDelta(b.index, kind, Fragment))

StopContent == \E b \in turn.blocks : Serve(ContentStop(b.index))

\* Encrypted reasoning.
Snapshot ==
  /\ CanAdd /\ CanWrite /\ turn.blocks = {}
  /\ HasItems \/ origin = "anthropic"
  /\ \E item \in ItemsFor({"reasoning"}) : Serve(ContentSnapshot(turn.next, item, Fragment))

ReportUsage ==
  /\ origin = "anthropic" /\ Written > resp.usage.out
  /\ Serve(UsageOnly([in |-> 0, out |-> Written]))

StopMessage ==
  \/ \E status \in {"failed", "refused"} \union
                    IF origin = "neurouter" THEN {"cancelled"} ELSE {} :
       Serve(MessageStop(status, NoUsage))
  \/ \E status \in {"token_limit", IF Calls = <<>> THEN "completed" ELSE "pending_tool_use"} :
       Serve(MessageStop(status, [in  |-> IF origin = "anthropic" THEN 0 ELSE 1,
                                  out |-> Written + 1]))

-----------------------------------------------------------------------------
(* Requests.  The texts of the conversation, and the results of the calls: *)

SystemText == <<91>>
UserText   == <<92>>
UserImage  == <<93>>
FollowUp   == <<94>>
ResultOf(k) == <<80 + k>>

\* Before the turn the client has only the prompt; after it, all.
Answered == turn.turn = "stopped"
Replayed(messages)  == IF Answered THEN messages ELSE <<>>
Results(Answer(_, _)) ==
  Replayed([k \in DOMAIN Calls |-> Answer(Calls[k].call, ResultOf(k))])

UserParts == <<Text(UserText), Image(UserImage)>>

Conversation(client) ==
  LET view == served[client].view IN
  CASE client = "openai_chat" ->
         Chat!ConvertRequest(
           <<Chat!Turn("developer", <<Text(SystemText)>>, <<>>, 0),
             Chat!Turn("user", UserParts, <<>>, 0)>>
           \o Replayed(Chat!Replay(view))
           \o Results(LAMBDA call, text : Chat!Turn("tool", <<Text(text)>>, <<>>, call))
           \o Replayed(<<Chat!Turn("user", <<Text(FollowUp)>>, <<>>, 0)>>))
    [] client = "openai_responses" ->
         Responses!ConvertRequest(
           SystemText,
           <<Responses!InputMessage("user", UserParts)>>
           \o Replayed(Responses!Replay(view))
           \o Results(LAMBDA call, text : [type |-> "function_call_output",
                                           call |-> call, args |-> text])
           \o Replayed(<<Responses!InputMessage("user", <<Text(FollowUp)>>)>>))
    [] client = "anthropic" ->
         Anthropic!ConvertRequest(
           <<SystemText>>,
           <<Anthropic!Turn("user", UserParts)>>
           \o Replayed(Anthropic!Replay(view))
           \o Replayed(<<Anthropic!Turn("user", Results(ToolResult) \o <<Text(FollowUp)>>)>>))

ConfigOf(client, s) ==
  CASE client = "openai_chat"      -> Chat!ConvertConfig(s)
    [] client = "openai_responses" -> Responses!ConvertConfig(s)
    [] client = "anthropic"        -> Anthropic!ConvertConfig(s)

ToolsOf(client, tools) ==
  CASE client = "openai_chat"      -> Chat!ConvertTools(tools)
    [] client = "openai_responses" -> Responses!ConvertTools(tools)
    [] client = "anthropic"        -> Anthropic!ConvertTools(tools)

\* A client begins a conversation, or goes on after a whole turn.
Ask ==
  /\ request = <<>>
  /\ turn.turn = "new" \/ resp.status \in {"completed", "pending_tool_use"}
  /\ \E client \in Clients, s \in IF Answered THEN {NoSettings} ELSE Settings :
       request' = <<[client |-> client, asked |-> s, messages |-> Conversation(client),
                     config |-> ConfigOf(client, s), tools |-> ToolsOf(client, s.tools)]>>
  /\ UNCHANGED <<origin, resp, served, turn, event, count>>

-----------------------------------------------------------------------------
ServedInit ==
  /\ Init
  /\ origin \in Origins
  /\ resp = NewReducer
  /\ served = [client \in Clients |->
       CASE client = "openai_chat"      -> [writer |-> Chat!NewWriter, view |-> Chat!NewView]
         [] client = "openai_responses" ->
              [writer |-> Responses!NewWriter, view |-> Responses!NewView]
         [] client = "anthropic"        ->
              [writer |-> Anthropic!NewWriter, view |-> Anthropic!NewView]]
  /\ request = <<>>

ServedNext ==
  \/ StartMessage \/ StartText \/ StartTool \/ Delta \/ StopContent
  \/ Snapshot \/ ReportUsage \/ StopMessage
  \/ Ask

ServedSpec == ServedInit /\ [][ServedNext]_vars

-----------------------------------------------------------------------------
(* What a provider is told.  An upstream is a dialect with its option: the *)
(* texts of system and user messages joined (openai_chat), or system       *)
(* messages sent as the user's (anthropic, google).                        *)

Upstreams == [dialect : {"openai_chat", "anthropic", "google"}, option : BOOLEAN]
               \union [dialect : {"openai_responses"}, option : {FALSE}]

Asked == Head(request)

ToChat(u) == ChatUp!ConvertRequest(Asked.messages, IF u.option THEN {"system", "user"} ELSE {})
ToResponses    == ResponsesUp!ConvertRequest(Asked.messages)
ToAnthropic(u) == AnthropicUp!ConvertRequest(Asked.messages, u.option)
ToGoogle(u)    == GoogleUp!ConvertRequest(Asked.messages, u.option)

\* A content in the mouth of a role.
Said(role, kind, call, text) ==
  [role |-> IF role = "assistant" THEN "model" ELSE role,
   kind |-> kind, call |-> call, text |-> text]

SaidAll(role, contents) ==
  [k \in DOMAIN contents |->
     Said(role, contents[k].kind, contents[k].call, contents[k].text)]

SaidInTurn(t) ==
  IF t.role = "tool" THEN <<Said("user", "result", t.call, Join(t.parts, {"text"}))>>
  ELSE SaidAll(t.role, t.parts \o t.calls)

SaidInItem(item) ==
  CASE item.type = "message"       -> SaidAll(item.role, item.parts)
    [] item.type = "function_call" -> <<Said("model", "tool", item.call, item.args)>>
    [] item.type = "function_call_output" -> <<Said("user", "result", item.call, item.args)>>
    [] item.type = "reasoning"     ->
         SaidAll("model", ResponsesUp!ConvertOutputItem(item))

SaidInParts(role, parts) ==
  [k \in DOMAIN parts |->
     LET p == parts[k] IN
       Said(role, p.kind, GoogleUp!ToolUseID(p.name, p.id), p.text)]

\* What the provider of u is told, apart from reasoning.
Told(u) ==
  SelectSeq(
    CASE u.dialect = "openai_chat"      -> FlatMap(ToChat(u), SaidInTurn)
      [] u.dialect = "openai_responses" -> FlatMap(ToResponses, SaidInItem)
      [] u.dialect = "anthropic"        ->
           SaidAll("system", ToAnthropic(u).system)
             \o FlatMap(ToAnthropic(u).messages, LAMBDA m : SaidAll(m.role, m.blocks))
      [] u.dialect = "google"           ->
           SaidInParts("system", ToGoogle(u).system)
             \o FlatMap(ToGoogle(u).messages, LAMBDA m : SaidInParts(m.role, m.parts)),
    LAMBDA said : said.kind \notin {"reasoning", "opaque"})

\* What the client means.
Opening == <<Said("user", "text", 0, UserText), Said("user", "image", 0, UserImage)>>
Closing == Results(LAMBDA call, text : Said("user", "result", call, text))
             \o Replayed(<<Said("user", "text", 0, FollowUp)>>)

-----------------------------------------------------------------------------
(* Properties                                                              *)

\* The kind, the call and the text of contents.
Bare(contents) == [k \in DOMAIN contents |-> Said("model", contents[k].kind,
                                                  contents[k].call, contents[k].text)]

ChatView      == served["openai_chat"].view
AnthropicView == served["anthropic"].view
ResponsesView == served["openai_responses"].view

\* What a client of the Responses API has read, its open parts included.
ResponsesRead ==
  ResponsesUp!ConvertResponseMessage(
    [k \in DOMAIN ResponsesView.items |->
       LET b == ResponsesView.items[k] IN [b.item EXCEPT !.parts = @ \o b.part]])

TypeOK ==
  LET open == {b.index : b \in turn.blocks} IN
  /\ turn \in Turns
  /\ resp.status \in Statuses
  /\ \A client \in {"openai_chat", "openai_responses"} :
       DOMAIN served[client].writer.blocks = open
  /\ DOMAIN served["anthropic"].writer.blockPhases = open

\* However contents follow or overlap each other, and wherever the stream
\* breaks off, what each client has read so far is all the response has: no
\* text of one kind among that of another, no input in another call.
ClientSeesAll ==
  /\ ChatView.ok
  /\ ChatView.content   = Join(Contents, {"text", "outcome"})
  /\ ChatView.reasoning = Join(Contents, {"reasoning"})
  /\ ChatView.calls     = [k \in DOMAIN Calls |-> ToolUse(Calls[k].call, Calls[k].text)]
  /\ AnthropicView.ok
  /\ Bare(AnthropicView.blocks) =
       Bare([k \in DOMAIN Contents |-> Anthropic!ToBlock(Contents[k])])

\* The events about output items are sound: an item is added once under an id
\* of its own, written part by part, and done once, after its last part; at
\* the end the response lists the items as they were streamed.  The items
\* hold the contents in their order, under the ids they came with.
ResponsesItemsSound ==
  /\ ResponsesView.ok
  /\ Bare(ResponsesRead) = Bare(Contents)
  /\ HasItems => \A k \in DOMAIN Contents : ResponsesRead[k].item = Contents[k].item
  /\ turn.turn = "stopped" =>
       ResponsesView.terminal = Responses!ConvertStatus(resp.status)

\* A client that streams is told what one that does not stream is told of the
\* same response.  Not equal: of several reasonings the unary chat completion
\* keeps the last; encrypted content without an id and the reasoning right
\* after it become one item of the unary Responses output; unary Anthropic
\* messages have no empty text.
UnarySaysTheSame ==
  turn.turn = "stopped" =>
    LET chat     == Chat!ConvertResponse(resp)
        unsplit  == Len(Select(Contents, {"reasoning"})) <= 1
        distinct == \A k \in 1 .. Len(Contents) - 1 :
                      Contents[k].kind = "opaque" /\ Contents[k].item = NoItem
                        => ~IsReasoning(Contents[k + 1])
        message  == Anthropic!ConvertResponse(resp)
    IN
    /\ \A f \in {"content", "calls", "finish"} : ChatView[f] = chat[f]
    /\ unsplit => ChatView.reasoning = chat.reasoning
    /\ distinct => Bare(ResponsesUp!ConvertResponseMessage(Responses!ConvertResponse(resp).output))
                     = Bare(ResponsesRead)
    /\ SelectSeq(AnthropicView.blocks, LAMBDA b : b.kind # "text" \/ b.text # <<>>)
         = message.blocks
    /\ AnthropicView.stop = message.stop

\* At the end every client has the usage that was recorded, wherever in the
\* stream it was reported; Anthropic's if the last event reports some.
UsageServed ==
  turn.turn = "stopped" =>
    /\ ChatView.usage = resp.usage /\ ResponsesView.usage = resp.usage
    /\ event.usage # NoUsage => AnthropicView.usage = resp.usage

\* Whatever the dialects of client and provider, the request that goes on
\* after a turn has the calls of that turn under their ids, then each call's
\* result once, in the order of the calls, and only then what the user adds.
\* Google gets no ids of other providers.
CallsAnswered ==
  request # <<>> =>
    \A u \in Upstreams :
      LET told  == Told(u)
          calls == SelectSeq(told, LAMBDA s : s.kind = "tool")
      IN  u.dialect # "google" \/ origin = "google" =>
            /\ calls = Replayed(SaidAll("model", Calls))
            /\ SubSeq(told, Len(told) - Len(Closing) + 1, Len(told))
                 = Closing

\* Every provider is told every text once, in order and in its role, the
\* image too, and no reasoning as if it were a text.
TextsKept ==
  request # <<>> =>
    \A u \in Upstreams :
      LET told   == Told(u)
          system == IF u.option /\ u.dialect \in {"anthropic", "google"} THEN "user" ELSE "system"
          model  == SelectSeq(told, LAMBDA s : s.role = "model")
      IN
      /\ SubSeq(told, 1, 3) = <<Said(system, "text", 0, SystemText)>> \o Opening
      /\ Len(told) = 3 + Len(model) + Len(Closing)
      /\ \A k \in 4 .. 3 + Len(model) : told[k].role = "model"
      /\ Join(model, TextKinds) = Join(Replayed(Contents), {"text", "outcome"})

\* A turn goes back to a provider of the dialect it came from as that provider
\* wrote it, as far as the client speaks the dialect too: Anthropic's thinking
\* with its signature, the reasoning items of the Responses API under their
\* ids with their encrypted content, and the final answer as such.
NativeReplayIntact ==
  request # <<>> /\ Answered /\ Asked.client = origin =>
    /\ origin = "anthropic" =>
         \A u \in {v \in Upstreams : v.dialect = "anthropic"} :
           FlatMap(SelectSeq(ToAnthropic(u).messages, LAMBDA m : m.role = "assistant"),
                   LAMBDA m : m.blocks)
             = Contents
    /\ origin = "openai_responses" =>
         LET reasoning == SelectSeq(ToResponses, LAMBDA i : i.type = "reasoning")
             final == SelectSeq(ToResponses, LAMBDA i : i.type = "message" /\ i.phase = "final_answer")
         IN
         /\ ResponsesUp!ConvertResponseMessage(reasoning)
              = Select(Contents, {"reasoning", "opaque"})
         /\ \A j, k \in DOMAIN reasoning : j # k => reasoning[j].id # reasoning[k].id
         /\ FlatMap(final, LAMBDA i : Join(i.parts, {"text"})) = Join(Contents, {"outcome"})

-----------------------------------------------------------------------------
(* The settings a provider is told; the effort (1: off, 0: up to it) and   *)
(* the budget, which counts as the least effort.                           *)

SettingsTold(dialect, config) ==
  CASE dialect = "openai_chat"      -> ChatUp!ConvertConfig(config)
    [] dialect = "openai_responses" -> ResponsesUp!ConvertConfig(config)
    [] dialect = "anthropic"        -> AnthropicUp!ConvertConfig(config)
    [] dialect = "google"           -> GoogleUp!ConvertConfig(config)

EffortTold(dialect, told) ==
  LET Level(off, name, budget) ==
        IF off THEN OffEffort ELSE IF budget > 0 THEN EffortOf("low") ELSE EffortOf(name)
  IN
  CASE dialect \in {"openai_chat", "openai_responses"} -> EffortOf(told.effort)
    [] dialect = "anthropic" ->
         LET t == told.thinking IN Level(t.thinking = "disabled", t.effort, t.budget)
    [] dialect = "google" ->
         IF told.thinking = <<>> THEN 0
         ELSE LET t == Head(told.thinking)
              IN  Level(~t.thoughts, t.level, Head(t.budget \o <<0>>))

ToolsTold(dialect, tools) ==
  CASE dialect = "openai_chat"      -> ChatUp!ConvertTools(tools)
    [] dialect = "openai_responses" -> ResponsesUp!ConvertTools(tools)
    [] dialect = "anthropic"        -> AnthropicUp!ConvertTools(tools)
    [] dialect = "google"           -> Head(GoogleUp!ConvertTools(tools) \o <<<<>>>>)

\* Every provider is told of the functions the client declares, in their
\* order, with the fields of their schemas and no more than a type and
\* properties beside them, and of no other tool.
ToolsKept(dialect) ==
  LET declared == Functions(Asked.asked.tools)
      told     == ToolsTold(dialect, Asked.tools)
  IN
  /\ Len(told) = Len(declared)
  /\ \A k \in DOMAIN told :
       /\ told[k].name = declared[k].name
       /\ Fields(declared[k]) \subseteq Fields(told[k])
       /\ Fields(told[k]) \subseteq Fields(declared[k]) \union {"type", "properties"}

\* Whatever the dialects: a token limit arrives as it is, and Anthropic always
\* gets one; reasoning is off for the provider exactly if the client turned it
\* off; a budget is at least the smallest one Anthropic takes; a client that
\* asks for more effort never gets less; temperature and top_p arrive, and
\* nothing the client did not set; a schema of the answer reaches every
\* provider but Google; and so do the functions, Google included.
SettingsHonoured ==
  request # <<>> =>
    \A d \in {u.dialect : u \in Upstreams} :
      LET asked == Asked.asked
          told  == SettingsTold(d, Asked.config)
          off   == IF Asked.client = "anthropic" THEN asked.thinking = "disabled"
                   ELSE asked.effort = "none"
          more  == {s \in Settings : /\ s = [asked EXCEPT !.effort = s.effort]
                                    /\ EffortOf(s.effort) >= EffortOf(asked.effort)}
      IN
      /\ asked.limit > 0 => told.limit = <<asked.limit>>
      /\ (EffortTold(d, told) = OffEffort) <=> off
      /\ asked.effort # "" =>
           \A s \in more :
             EffortTold(d, told) <= EffortTold(d, SettingsTold(d, ConfigOf(Asked.client, s)))
      /\ d = "anthropic" => /\ told.limit # <<>> /\ Head(told.limit) > 0
                            /\ told.thinking.budget \notin 1 .. AnthropicUp!MinBudget - 1
      /\ asked.sampling \intersect {"temperature", "top_p"} \subseteq told.sampling
      /\ told.sampling \subseteq asked.sampling /\ (told.stop => asked.stop)
      /\ told.grammar \in {asked.grammar, ""}
      /\ asked.grammar = "schema" /\ d # "google" => told.grammar = "schema"
      /\ ToolsKept(d)

=============================================================================
