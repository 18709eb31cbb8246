# neurouter: a verification project

neurouter is a Go program that takes chat and embedding requests in the
OpenAI, Anthropic, Ollama and gRPC dialects, elects a model among the configured
upstreams, forwards the request and streams the answer back in the caller's
dialect. This directory models the part of it that decides who runs, when, and
what is charged for it, the streams of events that carry the answers, and what
becomes of a conversation on its way through two dialects and back.

## 1. Inventory

| Component | Source | State | Operations | Interacts through |
|---|---|---|---|---|
| Daily limiters (RPD, TPD) | `internal/data/limiter/local/daily_quota.go` | used, reset time; per reservation: reserved, acquired, released | Probe, Reserve, Delay, Wait, Cancel, Complete, CompleteWithActual | a mutex per limiter, timers, contexts |
| Per-minute limiters (RPM, TPM) | `.../token_bucket.go` | tokens, last update; per reservation: ready time, released | the same | a mutex per bucket, timers |
| Concurrency limiter | `.../concurrency.go` | a weighted semaphore, an atomic estimate | the same | the semaphore's FIFO queue, no mutex of its own |
| Limiter groups, reservation sets | `internal/biz/model/limiter.go` | the limiters of an upstream or a model; the reservations of one request | probeDelay, tryReserveAll, wait, cancel, complete | calls the limiters, one after the other |
| Election | `internal/biz/model/election.go` | none of its own | probe, rank, reserve, wait, next candidate | the goroutine of each request |
| Elected models | `internal/biz/model/chat.go`, `embedding.go` | a reservation set | RecordUsage, Close | called by the use cases |
| Catalogue, aliases | `internal/biz/model/model.go` | models, alias map | NewModelUseCase, ListAvailableModels | read only after start-up |
| Chat and embedding use cases | `internal/biz/chat/chat.go`, `internal/biz/embedding/embedding.go` | none of their own | Chat, ChatStream, Embed | elector, upstream, server |
| Chat event reducer | `internal/biz/chat/accumulator.go` | the response so far, its contents by index | Reduce | called by ChatStream for each event |
| Protocol of chat events | `api/neurouter/v1/chat.proto` | | | what the upstream clients promise to the servers |
| Upstream clients | `internal/data/upstream/{openai,anthropic,google,neurouter}` | per stream: open blocks, indices, usage | one handler per provider event; conversion of requests and of whole responses | event iterators |
| Servers | `internal/server/{openai,anthropic,ollama}` | per stream: open and pending items, output order, usage | one handler per chat event; conversion of requests and of whole responses | HTTP responses |
| Metrics, telemetry, wiring, configuration | `internal/biz/model/metrics.go`, `internal/data/telemetry`, `internal/service`, `internal/conf`, `cmd` | counters | | |

A request probes every candidate model, ranks them, reserves every limiter of
the best one (the upstream's group first, then the model's), waits for the
reservations, runs, and releases them. Upstream limiters are shared by all
models of the upstream; each request has a goroutine, and nothing orders two of
them but the mutexes and the semaphores. What is hard:

* three critical sections (Reserve, Delay, Wait) read and write one counter, and
  other requests, refunds and midnights fall between them;
* a settlement may come on another day than its charge;
* buckets are refilled lazily, by whoever calls;
* `Acquire` and a context race; the estimate is updated by a load and a store;
* several limiters are held together, and any wait among them may fail;
* reservations are completed and then cancelled again by the deferred Close.

An answer that is streamed crosses three state machines in one goroutine: the
upstream client turns each provider event into some chat events, the use case
reduces and sends them one by one, the server writer turns each into events of
the caller's dialect. What is hard:

* each provider cuts a turn in its own way; blocks are opened and closed by the
  provider (Anthropic), by the converter (OpenAI chat, Google) or by both
  (Responses), and usage and status come in any of several events;
* the stream may fail, end too early, or lose its reader between any two events;
* the reducer must find with each delta the content it belongs to;
* a server must do so too, with the numbering of its own dialect, and must decide
  when an output item is done while a further part of it may still follow;
* the next request of the conversation brings the turn back in pieces: calls,
  their results, reasoning with its signatures and ids, for a provider that may
  speak another dialect, and settings that have no equal there.

What makes a component correct: a limiter counts every charge once and every
release once, admits no more than its limit, and wakes its waiters; a set of
reservations leaves nothing behind whichever step fails; the router refuses a
request only if no candidate could ever serve it, and answers every request; a
stream follows the protocol its readers rely on, loses and confuses nothing of
what the provider wrote, is charged what the provider reported, and says how the
turn ended; a client is told the same whatever its dialect and whether it
streams; a conversation comes back to a provider with every text, call and result
once, in order and in its role.

## 2. Modules

| Module | Models |
|---|---|
| `LimiterOps` | the state of one limiter of each kind and its methods' effect, as operators from state to state |
| `DailyQuota` | one RPD or TPD limiter, with requests and the clock as actors |
| `TokenBucket` | one RPM or TPM limiter; shown to implement `IdealBucket` |
| `IdealBucket` | the abstract bucket: a level that rises by one on every tick, no last update |
| `ConcurrencyLimiter` | one concurrency limiter, with goroutines that serve one request after another |
| `Catalogue` | models and aliases, the candidates of a request, its estimate |
| `Election` | the router over any catalogue and any configuration of the three kinds of limiters |
| `ChatEvents` | the events, the reducer, and the block bookkeeping that two converters share |
| `EventStream` | the abstract specification of a stream: the next event is one that chat.proto lets come next |
| `OpenAIChatStream`, `OpenAIResponsesStream`, `AnthropicStream`, `GoogleStream` | one upstream client each: its state, and a function of the state and a provider event for each kind of event it handles |
| `ProviderTurn` | a provider (external): what it may send next and what it means by it |
| `UpstreamStream` | a streamed turn: provider, upstream client, ChatStream and reducer; shown to implement `EventStream` |
| `UnaryTurn` | the same turn answered at once (`Chat` of each upstream), compared with the streamed one |
| `ChatRequests` | contents, messages and settings in the router's own terms, and of a client |
| `OpenAIChatUpstream`, `OpenAIResponsesUpstream`, `AnthropicUpstream`, `GoogleUpstream` | the other half of an upstream client: requests for the provider, and a response that is not streamed |
| `OpenAIChatServer`, `AnthropicServer` | one server each: requests, unary responses, the stream writer, and a client that reads the stream (external) |
| `OpenAIResponsesServer`, `OpenAIResponsesWriter` | the server of the Responses API: requests and unary responses; the stream writer and a client that reads it |
| `ServedTurn` | any stream of an upstream client, served by the three writers at once, and the client's next request converted for every provider |
| `MC...` | instances for TLC; `MCElection` holds the router configurations |
| `Lists` | loops over lists as recursive functions, so that proofs can expand them |
| `UpstreamClients` | the four upstream clients under the names of their dialects |
| `DailyQuotaProofs`, `TokenBucketProofs`, `ConcurrencyLimiterProofs` | the theorems about each limiter and their proofs |
| `LimiterProofs` | lemmas on the operators of `LimiterOps`, for the two modules that use them |
| `ElectionProofs` | the theorems about the router, with the lemmas on lists and catalogues they rest on |
| `StreamProofs` | what a reader makes of events that follow the protocol; what the writers of blocks emit |
| `ConverterProofs` | one lemma for each handler of each upstream client: the events it emits bring the reader to what the provider has sent |
| `UpstreamStreamProofs` | the theorems about streamed turns |

Definitions marked *(faulty)* are plausible mistakes; no specification uses
them. They show that each property can fail.

**Steps.** A method that holds the limiter's mutex throughout is one step. The
concurrency limiter has no mutex: each call of the semaphore and each access to
the atomic is a step. In `Election` a step is one call of one limiter, except
that the probes of one candidate, and the delays of one set of reservations, are
one step; they decide nothing but the ranking and whether `wait` returns at
once. The races inside a limiter are the subject of its own module, so
`Election` does without the transient slot of a Probe, the two accesses to the
estimate, and the grant that is put back because its context has expired.

**Time.** Deadlines are counted in ticks until they are due, so states do not
grow with the clock. The bucket's tick is the refill of one token. A daily
quota's `untilReset` is negative between midnight and the next flush; at 0 it is
exactly midnight, when the code does not flush yet (`After` is strict) and
answers a delay of 0.

**Requests.** In the modules of single limiters a request calls its reservation
in any order the router can produce, other limiters' part in the decision being
nondeterministic: `CheckDelay` may go to `Wait` even when this limiter answers
0, and `Cancel` may come right after `Reserve`.

**Semaphore.** `golang.org/x/sync/semaphore` is not part of this repository. It
is modelled with weight 1: `TryAcquire` fails if anyone queues, `Release` hands
slots to the head of the queue, a context that expires takes its waiter out of
the queue, and a waiter that was handed a slot with an expired context puts the
slot back.

**Streams.** An upstream client is a record; a provider event maps it to its
next state, with the chat events it yields in `out`. `UpstreamStream` delivers
them one per step, because `ChatStream` may be left between any two: by a
cancelled context, which it sees itself (`Canceled`), or by a failing `Send`.
The upstream's own end or failure comes between provider events, when `out` is
empty, since the iterator reads only then. A text is the sequence of the
numbered fragments the provider wrote, so a fragment that is lost, repeated or
put elsewhere shows. `sent` is what the provider means: it is updated with each
provider event, by the rules of the provider and not of the converter, and the
response rebuilt by the reducer is compared with it. Ids and metadata of
messages, which a later event overwrites, are left out; ids of items and calls
are kept.

**Providers.** Chat completions: a chunk has a reasoning and a text fragment and
up to two deltas of tool calls; calls are written one after the other; the
usage comes with the finishing chunk or in one after it, as the request asks
(`include_usage`). Anthropic: blocks one at a time, numbered from 0, with first
fragments or not; input tokens in `message_start`, output tokens in any
`message_delta`. Google: responses with up to two parts; usage with any of
them. Responses: output items, each with parts one at a time. What providers may
do beyond that is named in `Quirks`: end without finishing the turn (`eof`),
write two output items at the same time (`overlap`), finish in a response after
the function call (`late_stop`) or without a content (`bare_stop`).

**Served turns.** `ServedTurn` starts where `UpstreamStream` ends: its events are
those of `EventStream`, narrowed to what the upstream clients emit for the
dialect of the provider (`origin`): ids of output items only from the Responses
API, signatures only from Anthropic and Google, usage where each reports it,
overlapping blocks only through another router ("neurouter"), whose events are
passed on. A step is one event: the reducer and the writer of each server take
it, and the client of each reads what its server wrote. The three servers are
given the same stream so that one state space compares all. A client checks what
it reads (`ok`): items are added before they are written to, each is done once,
and what an item is said to hold when it is done is what was streamed. `Ask`
ends a behaviour: a client sends a first request, with every combination of
settings, or goes on after a whole turn with the results of its calls and a
follow-up. The request is converted by the client's server; what each provider
would be told is a function of it (`Told`, `SettingsTold`), for every upstream
and those of its options that move texts. Requests have one system text, one
user message of a text and an image, the replayed turn, and its results.

**Contents.** A text is a sequence of numbered fragments, as above; an id of a
call is a number; the id of an output item is a model value or none. Names of
tools are left out except where an id packs one (Google). What a conversion does
with a kind of content it does not know (nothing, or an error in the log) is
modelled by the content's absence.

## 3. What the runs show

| Run | Instance | Shows |
|---|---|---|
| `daily_quota` | 3 requests, limit 2, estimates 1 to 3, actual counts 0, 1 and 3, a day of 2 ticks | the account of a day balances; admission is bounded; the limit of a day is exceeded only in two named ways; sleepers wake by the reset; waiters are served |
| `daily_midnight` | the same | the limit of a day *is* exceeded by refunds after midnight (violated) |
| `daily_bypass` | the same | a request runs without being charged (violated) |
| `token_bucket` | 3 requests, burst 2, estimates 1 to 3, actual counts 1 and 3 | nobody runs on another's tokens; Probe agrees with Reserve; the lazy bucket implements the ideal one; waits end |
| `concurrency` | 4 goroutines, 2 slots, initial estimate 3, observed waits of 1 | slots are conserved; who runs holds a slot; the estimate stays within the evidence; waiters are served |
| `election` | 2 requests, 2 models of one upstream, limits of 1; a concurrency limit on the upstream, tokens per minute on one model, requests per day on the other; chats and embeddings of several sizes, by a name that is also an alias, and by an alias that is given twice and whose model cannot embed | nothing leaks whatever fails; who runs holds its slots; a refusal is final; whoever waits or runs does so on a model it meant and that can serve it; everyone is answered |
| `election_circular_wait` | one model with a concurrency limit of 1 under an upstream with one of 1 | two requests wait for each other (violated) |
| `election_fallback` | as `election` | a request blocks while candidates are untried (violated) |
| `upstream_streams` | the four dialects, 3 fragments, 3 contents, finish reasons stop, calls, length, with early ends and overlapping items | the chat events follow the protocol however the stream is cut short; the rebuilt message is the provider's, and the one a unary call would have returned; the usage recorded is the last report; completed means complete; OpenAI's truncated turns are reported |
| `google_bare_stop` | Google, final response without a content | the turn is never terminated (violated) |
| `google_late_stop` | Google, function call in an earlier response | a turn that waits for a tool is reported completed (violated) |
| `served_turns` | the streams of all four dialects and of another router, 3 fragments, 3 contents; every effort with every mode of thinking, budgets below and above Anthropic's least, both token limits of chat completions, tools, formats and sampling parameters | each client has read all and nothing else at every moment; output items are sound; unary and streamed answers agree; usage arrives; calls are answered, texts and roles kept, for every provider; a provider gets its own turn back intact; settings keep their meaning and their order, and tools their schemas |

**Bounds.** In the limiters and the router no action has an artificial bound: each request makes one
reservation, a bucket stops counting ticks when it overflows, and a quota nobody
touches for a day looks as after the first. Three requests are a waiter, a
competitor and one that settles; four goroutines on two slots are two holders,
a waiter and a probe. Estimates include one above the limit, actual counts are
below, at and above the estimates. A day of two ticks has a midnight, a middle
and an end. In `election` a limit of 1 makes every limiter contended, and the
estimate of 0 (an embedding request without text) skips the token limiters. The
initial estimate of 3 is 10 s in the code; observed waits are at least 1, as a
measured duration is; what matters is whether truncation can reach 0. The 512
tokens that a chat reserves for its answer are `OutputBuffer`, here 1, so that a
request of a character exceeds the bucket of 1 and one without text fits it; 768
tokens for an image are as in the code.

A turn is bounded by `MaxFragments` and `MaxContents`: three fragments make a
content that goes on after another was begun, three contents make a block that
is opened when another is closed and one that comes after both; two output items
are open at most, which is what it takes for one to close the other's block. In
`served_turns` the same bounds are an item with two parts and another item, two
calls that overlap and a text between them, or a summary, its encrypted content
and an answer.
Streams stop, so their configurations do not check for deadlock, and they have
no fairness: every property of theirs is a safety property.

**Fairness.** The clock advances, a goroutine that is not blocked goes on, and
an upstream call ends (in `DailyQuota` and `TokenBucket` not even that is
needed). Contexts need not expire: nothing in the router gives a gRPC stream a
deadline, so a property that needs one to make progress would not hold.
`ConcurrencyLimiter` needs no strong fairness because the queue is FIFO.
`WaitersServed` of `DailyQuota` is for finitely many requests: the code has no
queue, so with requests arriving for ever a waiter could lose every day's race.

**Disagreements found** (`findings` in PROJECT.json):

1. *Midnight refunds.* `Cancel` and `CompleteWithActual` do not flush and do not
   know the day of their charge. A reservation of yesterday, cancelled today,
   lowers today's counter. `DailyLimit` states the limit that does hold.
2. *Uncharged runs.* `wait` returns at once when every delay is 0; an unacquired
   daily reservation answers 0 once a refund has made room, or at the exact
   midnight. The request runs and nothing was taken for it.
3. *Circular wait.* With both an upstream and a model concurrency limit, one
   request may hold the model's slot and wait for the upstream's, another the
   reverse. Only an expiring context resolves it.
4. *No fallback before waiting.* The comment of `electFromCandidates` promises
   one; the code waits on the first candidate whose reservation is made, which
   never fails.
5. *A stop that is skipped.* Google's client skips a response without a content,
   also the one that finishes the turn: the reader gets no `message_stop`, the
   blocks stay open, and the usage of that response is lost.
6. *A call that is forgotten.* Google's client inspects the content of the
   finishing response for function calls; one that came earlier in the stream
   does not count, and the turn is reported completed.

Some behaviours are modelled as they are and no statement of the repository
speaks of them; where one limits a property, its definition says so. When
Responses output items overlap, opening the block of one closes that of the other, whose next delta then ends the stream with an error
("sent output text before the output text part"); `MessageIntact` says that
nothing is confused until then. Anthropic's and Google's clients emit nothing
when the response ends early; `TruncationReported` is a property of OpenAI's
clients, which do. The Anthropic server says `end_turn` of a failed or cancelled
turn. Unary and streamed answers differ in three corners (`UnarySaysTheSame`
names them): a unary chat completion keeps only the last reasoning, a unary
Responses output merges encrypted content without an id with the reasoning after
it, and a unary Anthropic message has no empty texts. Function results sent to
Google under an id of another provider lose their function's name
(`CallsAnswered` leaves foreign ids to Google out). Texts of an assistant
message that is joined into one (`prefer_string_content_for_assistant`) include
its reasoning; the properties join system and user messages. A second signed
part of a Google phase is appended to the first one's block, signatures
included. A schema asked of the answer is not passed on to Google. Parts of one
output item in blocks that overlap, which no upstream
client of the repository emits, would make the Responses writer finish the item
with the first; `ServedTurn` does not write such parts (`ItemsFor`), nor two
overlapping texts (`MayOpen`), which a chat completion cannot tell apart.

The repository's `README.md:196` says that rate limits are applied at model level
first; `limiter.go:140` reserves the upstream's first. No run depends on it but
the circular wait would exist in either order.

## 4. What is proved

Every theorem is for all values of the constants: any number of requests,
models, limiters, contents and fragments. What the runs check on small
instances and the theorems do not cover is named at the end of this section.

`DailyQuotaProofs` proves the safety properties of the run `daily_quota` for
every set of requests (finite or not), limit, set of estimates and actual
counts and length of the day. The only assumption is `DailyAssumption`: the
limit is positive (the constructor returns no limiter otherwise), estimates are
positive (the router skips token limiters otherwise), actual counts are natural
numbers, a day has a tick.

The properties are not inductive as they stand: that a charge keeps
`QuotaAccounted` needs the reservation not to be held already, so `IInv` adds
`Shape` (an idle request has no reservation, a released one is done), the
finiteness of the held units (so that they can be counted when there are
infinitely many requests), and the three inequalities of `Accounted` as one
statement. Units are pairs of a holder and a number; `UnitsAdd` and
`UnitsRemove` say that the count changes by the cost of the reservation that
joins or leaves. `FlushAccount` shows the account balances after a flush
(either nothing changed, or everything was carried over and today is empty),
`ChargeStep` that `Reserve` and `Wait` charge what fits, `ReleaseStep` that a
settlement, of today or of an earlier day, is booked where it belongs. There is
one lemma per action and `NextIInv` collects them. `WakeCorrect` is inductive
on top of `IInv`.

`TokenBucketProofs` proves the safety properties of `token_bucket` and that the
bucket implements `IdealBucket`. Everything is said of the level of the bucket,
what a call would find now: `LevelReserve`, `LevelAdjust` and `LevelTick` give
the effect of each operation on it, and show that the lazy refill loses nothing
(`TypeOK` bounds the tokens by the burst, without which a fill could lower
them). `PaidBeforeRun` is inductive with it; the refinement needs only that
each action changes the level as the ideal bucket does. The assumption is
`BucketAssumption`.

`ConcurrencyLimiterProofs` proves the safety properties of `concurrency`, for any
set of goroutines, even an infinite one (finitely many hold a slot at a time).
A release hands out as many slots as there are free, and those it resumes must
be as many goroutines: so the invariant says that the queue holds exactly the
goroutines at `queued`, each once (`QueueInv`), and that a goroutine with an
acquired reservation is not on its way through `Acquire` (`HolderInv`).
`EnqueueFacts`, `DequeueFacts` and `NotifyFacts` are about the queue as a
sequence, `HandOver` about every step that gives slots on. `RunningHoldsSlot`
needs the estimate to be positive, hence `EstimateInv`: the estimate, and every
value of it a goroutine has read and not stored yet, lies within the evidence.
The assumption is `ConcurrencyAssumption`.

`ElectionProofs` proves the seven safety properties of `election` for any
catalogue, aliases, groups of limiters and set of requests. The assumptions are
`CatalogueAssumption` (a model is configured once), `ElectionAssumption` (limits
are positive, estimates of waits too, costs are natural numbers) and
`GroupsAssumption` (a limiter has one kind, and no limiter is twice among those
of a model and its upstream, as the constructors make a new one for each entry
of the configuration). The inductive invariant has four parts.

* `JobInv` says of each goroutine alone what is true where it stands (`JobOK`):
  its candidates, probed, ranked or tried, are those that its request asked for,
  each once, and a candidate's delay is `Inf` just when it is hopeless
  (`EstimateInv`, `ProbeInv`, `OrderInv`); what it keeps and what it has still to
  reserve are together the limiters of its candidate; a semaphore it keeps and
  does not hold is one it has still to wait for; what it has still to release is
  what it holds (`PhaseInv`). `RefusalOK` says when it may be refused. The lemmas
  on jobs know nothing of other goroutines.
* `LimiterInv`: each limiter has the state of its kind, within its limit.
* `QueueInv`: the queue of a semaphore has exactly the goroutines that wait
  there, each once.
* `HolderInv`: a semaphore has as many slots out as there are goroutines that
  hold one.

`SlotsConserved` is `HolderInv`; `RunningHoldsItsSlots` follows because a
goroutine that is past its waits holds everything its candidate has.
`ReserveNeverRefused` and `RefusedOnlyIfHopeless` need the ranking: a candidate
is ranked only if every limiter's probe was finite, and a probe is infinite just
for a request larger than the limit, which no other goroutine can change. `Inf`
is a value that no delay takes, as `InfDuration` is. `RouteHonoured`
follows from the candidates being `CandidatesOf` the request: the lemmas on
`Only` show by the smallest counterexample that it returns the elements of a
list in their order, without repetition if the list has none. `Means`, the
other side of it, leaves out an alias that a later one of the same id replaces,
because the map of `NewModelUseCase` keeps the last.

`UpstreamStreamProofs` proves that a streamed turn implements `EventStream`
(`FollowsProtocol`) and the invariants of `upstream_streams` except one, for all
four dialects, any number of fragments and contents, any set of reasons and of
quirks. The converter's state alone does not tell why an event is legal: events
wait in `out` while the reader, which has not seen them, is behind. So the
invariant looks ahead:

* `Leads(t, q, out, u, p)` says that the waiting events, delivered one by one,
  are each legal and bring a reader from turn `t` and reply `q` to `u` and `p`;
  `Tells` is `Leads` to a reply with given contents, open blocks, status and
  usage. Emitting an event extends it at the end (`LeadsOn`), delivering one
  shortens it at the front (`LeadsFirst`), and with nothing waiting the reader
  is there (`LeadsEnds`).
* For each dialect `InStep` says that the waiting events tell exactly what the
  provider has sent, and which block the client believes open: the last content
  (chat completions, Google), the content of the provider's block (Anthropic),
  or the content of the open part of the output item that wrote last
  (Responses, where a client that had to give up is in step with nothing).
* `ConverterProofs` shows that each handler keeps `InStep`, `UpstreamStreamProofs`
  that each action of the provider calls it with an event the handler's lemma
  is about, that delivering an event keeps it, and that a stream that is cut
  short stays as it is (`PhaseMoves`). A stream whose `Send` failed is apart
  (`Abandoned`): its reply is one event ahead of the turn.

At `out = <<>>` the properties are read off. `StreamAccountsUsage` assumes
`"bare_stop" \notin Quirks`, `StreamCompletesWhole` `"late_stop" \notin Quirks`
and `StreamEndsTurn` no `bare_stop` and no `eof`: with those irregularities the
properties are false (`google_bare_stop`, `google_late_stop`), so the theorems
say that nothing else breaks them. The assumptions are those of the modules,
`ProviderAssumption` and `UpstreamStreamAssumption`, and that a provider behaves
as its actions say: a chunk with more than two tool calls, or a response with
more than two parts, is not covered. The proofs treat a loop over such a list
as the recursive function of `Lists`, expanded for lists of up to two.

`Leads` quantifies over sequences of states, so TLC cannot evaluate the invariant
of the streams; the run checks what follows from it.

Model-checked only: all liveness properties (`WaitersServed`, `WaitEnds`,
`EveryoneAnswered`), which need fairness and are beyond this prover;
`UnaryAgrees`, whose joins of texts are folds over lists of any length; and
everything about `ServedTurn`, whose properties compare what three writers and
their readers have put together, with folds over contents and messages of any
length: both need induction over data.

## 5. Not modelled

Not modelled: metrics, telemetry, HTTP and gRPC wiring, configuration,
`ListAvailableModels` and the Ollama server that lists models: they keep no state
that anything modelled reads. Of the servers, how the HTTP handlers end a stream: after a stream that
the client cancelled, or that the upstream just ended, `ChatStream` returns no
error, and the handlers write `[DONE]` or `message_stop`; the Anthropic writer
also ignores errors of writing. Of the conversions: values of sampling parameters
and of the fields of schemas, encodings of images, metadata, the counters of usage for cached and reasoning tokens (they
move with the two modelled), and the embedding calls, which map vectors one to
one. Token limits of 2^31 and more, which the Google client truncates, are
outside the integers TLC computes with. Fractions of a token and floating-point
rounding are abstracted to whole ticks. `tryReserveAll`'s error path is not an
action, because `ReserveNeverRefused` shows it is never taken.
