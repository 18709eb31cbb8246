--------------------------- MODULE UpstreamStream ---------------------------
(***************************************************************************)
(* A streamed turn, from the provider to the client: the provider, the     *)
(* iterator of its upstream client (AsSeq of openai.go, anthropic.go and   *)
(* google.go) with the converter of its dialect, and the chat use case     *)
(* that reduces each event, sends it and records the usage (ChatStream,    *)
(* internal/biz/chat/chat.go).                                             *)
(*                                                                         *)
(* The iterator converts one provider event at a time and yields the chat  *)
(* events it became one by one; between two of them the client may go      *)
(* away, and between two provider events the upstream may fail or end.     *)
(***************************************************************************)
EXTENDS EventStream, ProviderTurn, UpstreamClients

CONSTANT Dialects  \* those the upstream may speak

ASSUME UpstreamStreamAssumption ==
  Dialects \subseteq {"openai_chat", "openai_responses", "anthropic", "google"}

VARIABLES
  dialect,   \* the upstream's
  sent,      \* what the provider has sent, as the provider means it
  conv,      \* the upstream client: the converter, and its events to yield
  resp,      \* the reducer
  phase,     \* how far the stream is
  recorded   \* the usages handed to RecordUsage

vars == <<dialect, sent, conv, resp, phase, recorded, turn, event, count>>

-----------------------------------------------------------------------------
(* Reading the upstream                                                    *)

Broken  == dialect = "openai_responses" /\ conv.failed
Reading == phase = "reading" /\ conv.out = <<>> /\ ~Broken

\* The provider has sent an event, which c is the conversion of.
Take(s, c) ==
  /\ sent' = s
  /\ conv' = c
  /\ UNCHANGED <<dialect, resp, phase, recorded, turn, event, count>>

\* A chunk of a chat completion; the last one or the one after has the usage.
OpenAIChatChunk ==
  /\ Reading /\ dialect = "openai_chat" /\ sent.reason = ""
  /\ \E r \in Texts(sent) :
       /\ MaySay(sent, "reasoning", r)
       /\ LET s1 == Says(sent, "reasoning", r) IN \E t \in Texts(s1) :
            /\ MaySay(s1, "text", t)
            /\ \E l \in ToolLists(Says(s1, "text", t)) :
               \E reason \in {""} \union ReasonsOf(l.sent) :
               \E u \in {NoUsage} \union IF reason = "" THEN {} ELSE {Usage(l.sent)} :
                 Take(Reports(Finishes([l.sent EXCEPT !.began = TRUE], reason), u),
                      Chat!Convert(conv, [reasoning |-> r, text |-> t,
                                          tools |-> l.tools, reason |-> reason,
                                          usage |-> u]))

OpenAIChatUsage ==
  /\ Reading /\ dialect = "openai_chat"
  /\ sent.reason # "" /\ sent.usage = NoUsage
  /\ Take(Reports(sent, Usage(sent)),
          Chat!Convert(conv, [reasoning |-> <<>>, text |-> <<>>, tools |-> <<>>,
                              reason |-> "", usage |-> Usage(sent)]))

-----------------------------------------------------------------------------
GoogleResponse ==
  /\ Reading /\ dialect = "google" /\ sent.reason = ""
  /\ \E l \in PartLists(sent) :
     \E reason \in {""} \union GoogleReasons(l.sent, l.parts) :
     \E u \in {NoUsage, Usage(l.sent)} :
     \E bare \in {FALSE} \union IF "bare_stop" \in Quirks THEN {TRUE} ELSE {} :
       /\ bare => l.parts = <<>> /\ reason # ""
       /\ Take(Reports(Finishes([l.sent EXCEPT !.began = TRUE], reason), u),
               Google!Convert(conv, [hasContent |-> ~bare, parts |-> l.parts,
                                     reason |-> reason, usage |-> u]))

-----------------------------------------------------------------------------
(* Anthropic: one block at a time, numbered from 0.                        *)

InTurn(d) == Reading /\ dialect = d /\ sent.began /\ sent.reason = ""

AnthropicMessageStart ==
  /\ Reading /\ dialect = "anthropic" /\ ~sent.began
  /\ LET u == [in |-> 1, out |-> 0] IN
       Take(Reports([sent EXCEPT !.began = TRUE], u),
            Anthropic!OnMessageStart(conv, [usage |-> u]))

AnthropicBlockStart ==
  /\ InTurn("anthropic") /\ sent.block = <<>> /\ CanAdd(sent)
  /\ \E kind \in {"text", "reasoning", "tool", "opaque"}, text \in Texts(sent) :
     LET index == Len(sent.contents)
         call  == IF kind = "tool" THEN NextCall(sent) ELSE 0
         s     == Adds(sent, Content(kind, NoItem, call, text))
     IN \E sign \in (IF kind = "reasoning" THEN Texts(s) ELSE {<<>>}) :
       /\ kind = "tool" => text = <<>>
       /\ Take([Signs(s, Len(s.contents), sign) EXCEPT !.block = <<index>>],
               Anthropic!OnBlockStart(conv, [index |-> index, kind |-> kind,
                                             id |-> call, text |-> text,
                                             signature |-> sign]))

AnthropicBlockDelta ==
  /\ InTurn("anthropic") /\ sent.block # <<>> /\ CanWrite(sent)
  /\ LET index == Head(sent.block)
         k     == index + 1
         Delta(kind) == [index |-> index, kind |-> kind, text |-> Fragment(sent)]
     IN \/ /\ sent.contents[k].kind \in {"text", "reasoning"}
           /\ Take(Writes(sent, k, Fragment(sent)),
                   Anthropic!OnBlockDelta(conv, Delta("text")))
        \/ /\ sent.contents[k].kind = "reasoning"
           /\ Take(Signs(sent, k, Fragment(sent)),
                   Anthropic!OnBlockDelta(conv, Delta("signature")))
        \/ /\ sent.contents[k].kind = "tool"
           /\ Take(Writes(sent, k, Fragment(sent)),
                   Anthropic!OnBlockDelta(conv, Delta("tool")))

AnthropicBlockStop ==
  /\ InTurn("anthropic") /\ sent.block # <<>>
  /\ Take([sent EXCEPT !.block = <<>>],
          Anthropic!OnBlockStop(conv, [index |-> Head(sent.block)]))

\* It counts the output only; without a reason it is sent when that grew.
AnthropicMessageDelta ==
  /\ InTurn("anthropic") /\ sent.block = <<>>
  /\ \E reason \in {""} \union ReasonsOf(sent) :
     \E u \in {NoUsage, [Usage(sent) EXCEPT !.in = 0]} :
       /\ reason = "" => u.out > sent.usage.out
       /\ Take(Reports(Finishes(sent, reason), u),
               Anthropic!OnMessageDelta(conv, [reason |-> reason, usage |-> u]))

-----------------------------------------------------------------------------
(* OpenAI Responses: output items with parts.  An item is of a type, has   *)
(* an id, and its open part is the content at `part'.                      *)

ItemId(o) == <<"item", o>>

ResponsesCreated ==
  /\ Reading /\ dialect = "openai_responses" /\ ~sent.began
  /\ Take([sent EXCEPT !.began = TRUE], Responses!OnCreated(conv))

ItemIn(s, o) == [output |-> o, item |-> ItemId(o), type |-> s.items[o].type]
ItemDone(s, o, x) == [output |-> o, item |-> ItemId(o), type |-> s.items[o].type,
                      encrypted |-> x]
OpenItems    == {o \in DOMAIN sent.items : sent.items[o].state = "open"}

ResponsesItemAdded ==
  /\ InTurn("openai_responses") /\ CanAdd(sent)
  /\ LET o == Cardinality(DOMAIN sent.items) IN
     /\ o < MaxContents
     /\ Cardinality(OpenItems) <= IF "overlap" \in Quirks THEN 1 ELSE 0
     /\ \E type \in {"message", "reasoning", "function_call"}, textPhase \in {"text", "outcome"} :
        /\ type # "message" => textPhase = "text"
        /\ LET call == IF type = "function_call" THEN NextCall(sent) ELSE 0
               s == IF type = "function_call"
                    THEN Adds(sent, Content("tool", ItemId(o), call, <<>>))
                    ELSE sent
           IN Take([s EXCEPT !.items = Put(@, o, [type |-> type, phase |-> textPhase, state |-> "open",
                                                  part |-> IF type = "function_call"
                                                           THEN Len(s.contents) ELSE 0])],
                   Responses!OnItemAdded(conv, [output |-> o, item |-> ItemId(o),
                                                type |-> type, phase |-> textPhase,
                                                call |-> call]))

\* A text part of a message, a summary or a reasoning part of a reasoning item.
ResponsesPartAdded ==
  /\ InTurn("openai_responses") /\ CanAdd(sent)
  /\ \E o \in DOMAIN sent.items :
       LET item == sent.items[o]
           kind == IF item.type = "message" THEN item.phase ELSE "reasoning"
           s == [Adds(sent, Content(kind, ItemId(o), 0, <<>>))
                   EXCEPT !.items[o].part = Len(sent.contents) + 1]
           e == ItemIn(sent, o)
       IN /\ o \in OpenItems /\ item.part = 0
          /\ \/ item.type = "message"   /\ Take(s, Responses!OnTextPartAdded(conv, e))
             \/ item.type = "reasoning" /\ Take(s, Responses!OnReasoningPartAdded(conv, e))
             \/ item.type = "reasoning" /\ Take(s, Responses!OnSummaryPartAdded(conv, e))

ResponsesDelta ==
  /\ InTurn("openai_responses") /\ CanWrite(sent)
  /\ \E o \in DOMAIN sent.items :
       /\ sent.items[o].part # 0
       /\ Take(Writes(sent, sent.items[o].part, Fragment(sent)),
               Responses!OnDelta(conv, [output |-> o, text |-> Fragment(sent),
                 kind |-> IF sent.items[o].type = "function_call" THEN "tool" ELSE "text"]))

ResponsesPartDone ==
  /\ InTurn("openai_responses")
  /\ \E o \in DOMAIN sent.items :
       /\ sent.items[o].part # 0 /\ sent.items[o].type # "function_call"
       /\ Take([sent EXCEPT !.items[o].part = 0],
               Responses!OnPartDone(conv, ItemIn(sent, o)))

ResponsesItemDone ==
  /\ InTurn("openai_responses")
  /\ \E o \in DOMAIN sent.items :
       LET item == sent.items[o] IN
       /\ o \in OpenItems
       /\ item.type # "function_call" => item.part = 0
       /\ \E x \in (IF item.type = "reasoning" /\ CanAdd(sent) THEN Texts(sent) ELSE {<<>>}) :
          LET s == IF x = <<>> THEN sent
                   ELSE Adds(sent, Content("opaque", ItemId(o), 0, x))
          IN Take([s EXCEPT !.items[o].state = "done", !.items[o].part = 0],
                  Responses!OnItemDone(conv, ItemDone(sent, o, x)))

\* response.completed, .incomplete or .failed.
ResponsesTerminal ==
  /\ InTurn("openai_responses")
  /\ OpenItems = {}
  /\ \E reason \in Reasons \ {"calls"} :
       Take(Reports(Finishes(sent, reason), Usage(sent)),
            Responses!OnTerminal(conv, [reason |-> reason, usage |-> Usage(sent),
                                        calls  |-> Calls(sent) # {}]))

-----------------------------------------------------------------------------
(* The end of the upstream                                                 *)

\* Whether the provider has sent all of its turn.
Complete == sent.reason # ""

\* The response ends: the client emits what closes the turn.
UpstreamEnds ==
  /\ Reading
  /\ Complete \/ "eof" \in Quirks
  /\ phase' = "drained"
  /\ conv' = CASE dialect = "openai_chat"      -> Chat!Finish(conv)
               [] dialect = "openai_responses" -> Responses!Finish(conv)
               [] dialect = "anthropic"        -> Anthropic!Finish(conv)
               [] dialect = "google"           -> Google!Finish(conv)
  /\ UNCHANGED <<dialect, sent, resp, recorded, turn, event, count>>

\* The connection breaks, or the context is done while the client reads: the
\* error is yielded and ends the stream.  So does an error of the converter.
UpstreamFails ==
  /\ phase = "reading" /\ conv.out = <<>>
  /\ phase' = "failed"
  /\ UNCHANGED <<dialect, sent, conv, resp, recorded, turn, event, count>>

-----------------------------------------------------------------------------
(* ChatStream, the loop over the events                                    *)

Yielding == phase \in {"reading", "drained"} /\ conv.out # <<>>

\* The event is reduced and sent.
Deliver ==
  /\ Yielding
  /\ event' = Head(conv.out)
  /\ resp'  = Reduce(resp, event')
  /\ turn'  = After(turn, event')
  /\ count' = count + 1
  /\ conv'  = [conv EXCEPT !.out = Tail(@)]
  /\ UNCHANGED <<dialect, sent, phase, recorded>>

\* Sending fails: the event was reduced, and the usage is not recorded.
SendFails ==
  /\ Yielding
  /\ resp'  = Reduce(resp, Head(conv.out))
  /\ phase' = "failed"
  /\ UNCHANGED <<dialect, sent, conv, recorded, turn, event, count>>

\* The context was canceled: the loop is left, and what is known is recorded.
Canceled ==
  /\ Yielding
  /\ phase' = "canceled"
  /\ recorded' = Append(recorded, resp.usage)
  /\ UNCHANGED <<dialect, sent, conv, resp, turn, event, count>>

\* The iterator is exhausted.
Return ==
  /\ phase = "drained" /\ conv.out = <<>>
  /\ phase' = "ended"
  /\ recorded' = Append(recorded, resp.usage)
  /\ UNCHANGED <<dialect, sent, conv, resp, turn, event, count>>

-----------------------------------------------------------------------------
NewClient(d) ==
  CASE d = "openai_chat"      -> Chat!NewClient
    [] d = "openai_responses" -> Responses!NewClient
    [] d = "anthropic"        -> Anthropic!NewClient
    [] d = "google"           -> Google!NewClient

StreamInit ==
  /\ Init
  /\ dialect \in Dialects
  /\ sent = NewProvider
  /\ conv = NewClient(dialect)
  /\ resp = NewReducer
  /\ phase = "reading"
  /\ recorded = <<>>

StreamNext ==
  \/ OpenAIChatChunk \/ OpenAIChatUsage
  \/ GoogleResponse
  \/ AnthropicMessageStart \/ AnthropicBlockStart \/ AnthropicBlockDelta
  \/ AnthropicBlockStop \/ AnthropicMessageDelta
  \/ ResponsesCreated \/ ResponsesItemAdded \/ ResponsesPartAdded
  \/ ResponsesDelta \/ ResponsesPartDone \/ ResponsesItemDone
  \/ ResponsesTerminal
  \/ UpstreamEnds \/ UpstreamFails
  \/ Deliver \/ SendFails \/ Canceled \/ Return

StreamSpec == StreamInit /\ [][StreamNext]_vars

-----------------------------------------------------------------------------
(* Properties                                                              *)

TypeOK ==
  /\ dialect \in Dialects
  /\ turn \in Turns
  /\ phase \in {"reading", "drained", "ended", "failed", "canceled"}
  /\ recorded \in Seq([in : Nat, out : Nat]) /\ Len(recorded) <= 1
  /\ resp.status \in Statuses
  /\ Range(resp.blocks) = DOMAIN resp.contents
  /\ event.kind \in TextKinds \union DeltaKinds \union {"", "opaque"}

\* Whatever the dialect and however the provider cuts its turn into events,
\* the chat events are a stream as chat.proto promises it to the servers:
\* whatever error, end or cancellation cuts it short.
FollowsProtocol == Spec

\* Once the events of what was read are delivered, the response rebuilt from
\* them is what the provider wrote: the same contents in the same order, with
\* every fragment once, in its place and under the right id.
MessageIntact ==
  conv.out = <<>> /\ ~Broken => resp.contents = sent.contents

\* A turn that came to its end is accounted at the provider's last report,
\* though no event has all of the counters and the reports are spread over
\* the stream.
UsageAccounted ==
  phase = "ended" /\ Complete => recorded = <<sent.usage>>

\* A turn is reported completed only if the provider completed it, all of it
\* has arrived, and it does not wait for the result of a tool.
CompletedMeansComplete ==
  resp.status = "completed" =>
    /\ sent.reason = "stop"
    /\ Calls(sent) = {}
    /\ resp.contents = sent.contents

\* A turn that was opened is terminated when the stream ends without an error.
EveryTurnEnds ==
  phase = "ended" /\ turn.turn # "new" => turn.turn = "stopped"

\* The OpenAI clients terminate the turn even when the provider's response is
\* cut short, and then do not report it completed.
TruncationReported ==
  phase = "ended" /\ sent.began /\ dialect \in {"openai_chat", "openai_responses"}
    => /\ turn.turn = "stopped"
       /\ Complete \/ resp.status \in {"unspecified", "failed"}

=============================================================================
