------------------------------ MODULE Election ------------------------------
(***************************************************************************)
(* The election of a model for a request, and the life of the request's    *)
(* reservations (internal/biz/model: election.go, limiter.go and the       *)
(* chatModel of chat.go), over the limiters of LimiterOps.                 *)
(*                                                                         *)
(* The actors are the requests, each served by a goroutine of its own, and *)
(* the clock.  A step of a request is one call of one limiter, so requests *)
(* interleave between two reservations, two waits and two releases.  The   *)
(* probes of one candidate are one step, and so are the delays of one set  *)
(* of reservations: they are reads.                                        *)
(***************************************************************************)
EXTENDS LimiterOps, Catalogue

CONSTANTS
  Requests,
  Asks,            \* what requests ask for: [need, model, chars, images]
  GroupsOf,        \* model -> <<upstream limiterGroup, model limiterGroup>>
  Semaphores,      \* the concurrency limiters
  Buckets,         \* the RPM and TPM limiters
  Quotas,          \* the RPD and TPD limiters
  LimitOf,         \* limiter -> its configured limit
  Actuals,         \* the token counts upstreams report
  Guesses,         \* the estimated delays of a concurrency limiter
  DayTicks

Limiters == Semaphores \union Buckets \union Quotas

TokenLimiters == UNION {Range(GroupsOf[m][g].token) : m \in Models, g \in 1..2}

\* Every estimate of a concurrency limiter is positive: ConcurrencyLimiter's
\* invariant, on which the router's reading of a Delay of 0 rests.
ASSUME ElectionAssumption ==
  /\ Actuals \subseteq Nat
  /\ Guesses \subseteq Nat \ {0}
  /\ \A l \in Limiters : LimitOf[l] \in Nat \ {0}
  /\ DayTicks \in Nat \ {0}
  /\ \A ask \in Asks : /\ ask.need \in {"chat", "embedding"}
                        /\ ask.chars \in Nat /\ ask.images \in Nat

VARIABLES
  sem,        \* the semaphore of each concurrency limiter
  bucket,     \* the bucket of each per-minute limiter
  quota,      \* the quota of each daily limiter
  job,        \* what the goroutine of each request is doing
  expired     \* the requests whose context is done

vars == <<sem, bucket, quota, job, expired>>

\* pc:     where the goroutine is
\* ask:    what the request asks for, once it has arrived
\* est:    estimatedTokens
\* todo:   the candidates not probed yet
\* scores: the candidates probed, with their delays
\* order:  the ranked candidates not tried yet
\* on:     the candidate being tried, or elected: a sequence of at most one
\* plan:   the limiters still to call in the current phase
\* kept:   the limiters with a reservation in the set, in the order made
\* held:   those whose reservation is acquired
\* due:    the timers: a bucket's readyAt, a daily Wait's sleep
\* used:   what the token reservations are completed with
NewJob == [pc |-> "idle", ask |-> {}, est |-> 0, todo |-> <<>>, scores |-> {},
           order |-> <<>>, on |-> <<>>, plan |-> <<>>, kept |-> <<>>,
           held |-> {}, due |-> [l \in Buckets \union Quotas |-> 0], used |-> 0]

Init ==
  /\ sem = [l \in Semaphores |-> NewSemaphore]
  /\ bucket = [l \in Buckets |-> NewBucket(LimitOf[l])]
  /\ quota = [l \in Quotas |-> NewQuota(DayTicks)]
  /\ job = [r \in Requests |-> NewJob]
  /\ expired = {}

Becomes(r, j) == job' = [job EXCEPT ![r] = j]

At(r, place) == job[r].pc = place

\* The limiter a request calls next.
Now(r) == Head(job[r].plan)

Calls(r, place, S) == At(r, place) /\ job[r].plan # <<>> /\ Now(r) \in S

Cost(r, l) == IF l \in TokenLimiters THEN job[r].est ELSE 1

Oversized(r, l) == l \in TokenLimiters /\ Cost(r, l) > LimitOf[l]

Flushed(l) == Flush(quota[l], DayTicks)

FlushAll(S) ==
  quota' = [l \in Quotas |-> IF l \in S THEN Flushed(l) ELSE quota[l]]

\* tryReserveAll reserves group by group, the upstream's first; the token
\* limiters are skipped for a request without an estimate.
ReserveOrder(est, m) ==
  LET Of(g) == g.request \o (IF est > 0 THEN g.token ELSE <<>>)
  IN  Of(GroupsOf[m][1]) \o Of(GroupsOf[m][2])

\* A limiter is of one kind, and made for one list of one group.
ASSUME GroupsAssumption ==
  /\ Semaphores \intersect (Buckets \union Quotas) = {}
  /\ Buckets \intersect Quotas = {}
  /\ TokenLimiters \intersect Semaphores = {}
  /\ \A m \in Models, est \in 0..1 :
       ReserveOrder(est, m) \in Seq(Limiters) /\ IsInjective(ReserveOrder(est, m))

\* A reservationSet keeps its request reservations before its token ones.
SetOrder(kept) ==
  Only(kept, Limiters \ TokenLimiters) \o Only(kept, TokenLimiters)

\* The reservations whose Wait has something to do, and those whose release
\* has: the others return at once.
ToWait(j) == Only(SetOrder(j.kept), Buckets \union (Limiters \ j.held))

\* (faulty) The token reservations of the set are forgotten.
ToReleaseRequests(j) == Only(SetOrder(j.kept), j.held \ TokenLimiters)

ToRelease(j) == Only(SetOrder(j.kept), j.held)

(* The job of a goroutine after it takes the next candidate, after one of  *)
(* its waits, and while it releases its reservations.                      *)

NextCandidate(j) ==
  IF j.order = <<>>
  THEN [j EXCEPT !.pc = "refused"]
  ELSE [j EXCEPT !.pc = "reserving",
                 !.on = <<Head(j.order)>>,
                 !.order = Tail(j.order),
                 !.plan = ReserveOrder(j.est, Head(j.order))]

AfterWait(j) ==
  [j EXCEPT !.pc = IF Len(j.plan) = 1 THEN "running" ELSE "waiting",
            !.plan = Tail(j.plan)]

\* A cancelled candidate is followed by the next one.
AfterSet(j) ==
  LET empty == [j EXCEPT !.kept = <<>>, !.on = <<>>, !.used = 0]
  IN  IF j.pc = "cancelling" THEN NextCandidate(empty)
      ELSE [empty EXCEPT !.pc = "done"]

StartRelease(j, place) ==
  LET s == [j EXCEPT !.pc = place, !.plan = ToRelease(j)]
  IN  IF s.plan = <<>> THEN AfterSet(s) ELSE s

AfterRelease(j) ==
  LET s == [j EXCEPT !.plan = Tail(@), !.held = @ \ {Head(j.plan)}]
  IN  IF s.plan = <<>> THEN AfterSet(s) ELSE s

\* A slot of l is returned by r, and those it is handed to go on with their
\* next wait.
ReturnSlot(r, l) ==
  LET freed == FreeSlot(sem[l])
      lucky == Granted(freed, LimitOf[l])
  IN  /\ sem' = [sem EXCEPT ![l] = Notify(freed, LimitOf[l])]
      /\ job' = [q \in Requests |->
                   IF q = r THEN AfterRelease(job[q])
                   ELSE IF q \in lucky
                   THEN AfterWait([job[q] EXCEPT !.held = @ \union {l}])
                   ELSE job[q]]

-----------------------------------------------------------------------------
(* Phase 1: probe and rank                                                 *)

Arrive(r) ==
  /\ At(r, "idle")
  /\ \E ask \in Asks :
       Becomes(r, [job[r] EXCEPT
         !.pc = IF CandidatesOf(ask) = <<>> THEN "refused" ELSE "probing",
         !.ask = {ask}, !.est = EstimateTokens(ask), !.todo = CandidatesOf(ask)])
  /\ UNCHANGED <<sem, bucket, quota, expired>>

\* Probe() of one limiter; a busy semaphore answers its estimate.
ProbeOf(r, l, guess) ==
  CASE l \in Semaphores -> IF HasRoom(sem[l], LimitOf[l]) THEN 0 ELSE guess
    [] l \in Buckets    -> BucketProbe(bucket[l], Cost(r, l), LimitOf[l])
    [] l \in Quotas     -> IF Oversized(r, l) THEN Inf
                           ELSE QuotaDelay(Flushed(l), Cost(r, l), LimitOf[l])

\* probeModelDelay: the longest of the candidate's delays.
LongestOf(delays) == IF Inf \in delays THEN Inf ELSE Max(delays \union {0})

ProbeNext(r) ==
  /\ At(r, "probing")
  /\ job[r].todo # <<>>
  /\ LET m == Head(job[r].todo)
         asked == Range(ReserveOrder(job[r].est, m))
     IN  /\ \E guess \in Guesses :
              LET delay == LongestOf({ProbeOf(r, l, guess) : l \in asked})
              IN  Becomes(r, [job[r] EXCEPT !.todo = Tail(@),
                                            !.scores = @ \union {<<m, delay>>}])
         /\ FlushAll({l \in asked : ~Oversized(r, l)})
  /\ UNCHANGED <<sem, bucket, expired>>

\* (faulty) Only the available candidates are worth a try.
WorthATryNow(scores) == {s \in scores : s[2] = 0}

\* (faulty) A candidate whose limits the request exceeds is tried last.
WorthAnyTry(scores) == scores

\* Nothing waits for an infinite delay.
WorthATry(scores) == {s \in scores : s[2] # Inf}

\* The available candidates in any order, then the others by their delay.
Rankings(tried) ==
  LET n == Cardinality(tried)
  IN  {o \in [1..n -> tried] :
         /\ Range(o) = tried
         /\ \A i, j \in 1..n : i < j => o[i][2] <= o[j][2]}

Rank(r) ==
  /\ At(r, "probing")
  /\ job[r].todo = <<>>
  /\ \E o \in Rankings(WorthATry(job[r].scores)) :
       Becomes(r, NextCandidate([job[r] EXCEPT
                    !.scores = {}, !.order = [i \in DOMAIN o |-> o[i][1]]]))
  /\ UNCHANGED <<sem, bucket, quota, expired>>

-----------------------------------------------------------------------------
(* Phase 2: tryReserveAll, for the best candidate left.  Its error path is *)
(* never taken (ReserveNeverRefused) and is not modelled.                  *)

\* The job with the reservation of its next limiter made.
Reserved(j, acquired) ==
  [j EXCEPT !.plan = Tail(@),
            !.kept = Append(@, Head(j.plan)),
            !.held = IF acquired THEN @ \union {Head(j.plan)} ELSE @]

ReserveSlot(r) ==
  /\ Calls(r, "reserving", Semaphores)
  /\ LET l == Now(r)
         room == HasRoom(sem[l], LimitOf[l])
     IN  /\ sem' = IF room THEN [sem EXCEPT ![l] = AcquireSlot(@)] ELSE sem
         /\ Becomes(r, Reserved(job[r], room))
  /\ UNCHANGED <<bucket, quota, expired>>

ReserveRate(r) ==
  /\ Calls(r, "reserving", Buckets)
  /\ ~Oversized(r, Now(r))
  /\ LET l == Now(r)
         charged == BucketReserve(bucket[l], Cost(r, l), LimitOf[l])
     IN  /\ bucket' = [bucket EXCEPT ![l] = charged]
         /\ Becomes(r, [Reserved(job[r], TRUE) EXCEPT
                          !.due[l] = ReadyIn(charged, Cost(r, l))])
  /\ UNCHANGED <<sem, quota, expired>>

ReserveQuota(r) ==
  /\ Calls(r, "reserving", Quotas)
  /\ ~Oversized(r, Now(r))
  /\ LET l == Now(r)
         fits == Fits(Flushed(l), Cost(r, l), LimitOf[l])
     IN  /\ quota' = [quota EXCEPT ![l] =
                        IF fits THEN Take(Flushed(l), Cost(r, l)) ELSE Flushed(l)]
         /\ Becomes(r, Reserved(job[r], fits))
  /\ UNCHANGED <<sem, bucket, expired>>

-----------------------------------------------------------------------------
(* Phase 3: wait                                                           *)

DelayOf(r, l, guess) ==
  CASE l \in Buckets    -> job[r].due[l]
    [] l \in Semaphores -> IF l \in job[r].held THEN 0 ELSE guess
    [] l \in Quotas     -> IF l \in job[r].held THEN 0
                           ELSE QuotaDelay(Flushed(l), Cost(r, l), LimitOf[l])

\* (faulty) A busy semaphore is not waited for.
CheckRates(r) ==
  /\ At(r, "reserving")
  /\ job[r].plan = <<>>
  /\ IF \A l \in Range(job[r].kept) \ Semaphores : DelayOf(r, l, 0) = 0
     THEN Becomes(r, [job[r] EXCEPT !.pc = "running"])
     ELSE Becomes(r, [job[r] EXCEPT !.pc = "waiting", !.plan = ToWait(job[r])])
  /\ FlushAll(Range(job[r].kept) \ job[r].held)
  /\ UNCHANGED <<sem, bucket, expired>>

\* wait() returns at once when maxDelay() is 0.
CheckDelay(r) ==
  /\ At(r, "reserving")
  /\ job[r].plan = <<>>
  /\ \E guess \in Guesses :
       IF \A l \in Range(job[r].kept) : DelayOf(r, l, guess) = 0
       THEN Becomes(r, [job[r] EXCEPT !.pc = "running"])
       ELSE Becomes(r, [job[r] EXCEPT !.pc = "waiting", !.plan = ToWait(job[r])])
  /\ FlushAll(Range(job[r].kept) \ job[r].held)
  /\ UNCHANGED <<sem, bucket, expired>>

\* Acquire looks at the context before it looks at the semaphore.
WaitSlot(r) ==
  /\ Calls(r, "waiting", Semaphores)
  /\ r \notin expired
  /\ LET l == Now(r)
     IN  \/ /\ HasRoom(sem[l], LimitOf[l])
            /\ sem' = [sem EXCEPT ![l] = AcquireSlot(@)]
            /\ Becomes(r, AfterWait([job[r] EXCEPT !.held = @ \union {l}]))
         \/ /\ ~HasRoom(sem[l], LimitOf[l])
            /\ sem' = [sem EXCEPT ![l] = Enqueue(@, r)]
            /\ Becomes(r, [job[r] EXCEPT !.pc = "queued"])
  /\ UNCHANGED <<bucket, quota, expired>>

WaitRate(r) ==
  /\ Calls(r, "waiting", Buckets)
  /\ job[r].due[Now(r)] = 0
  /\ Becomes(r, AfterWait(job[r]))
  /\ UNCHANGED <<sem, bucket, quota, expired>>

WaitQuota(r) ==
  /\ Calls(r, "waiting", Quotas)
  /\ LET l == Now(r)
     IN  \/ /\ Fits(Flushed(l), Cost(r, l), LimitOf[l])
            /\ quota' = [quota EXCEPT ![l] = Take(Flushed(l), Cost(r, l))]
            /\ Becomes(r, AfterWait([job[r] EXCEPT !.held = @ \union {l}]))
         \/ /\ ~Fits(Flushed(l), Cost(r, l), LimitOf[l])
            /\ quota' = [quota EXCEPT ![l] = Flushed(l)]
            /\ Becomes(r, [job[r] EXCEPT
                             !.pc = "sleeping",
                             !.due[l] = SleepTime(Flushed(l), DayTicks)])
  /\ UNCHANGED <<sem, bucket, expired>>

TimerFires(r) ==
  /\ At(r, "sleeping")
  /\ job[r].due[Now(r)] = 0
  /\ Becomes(r, [job[r] EXCEPT !.pc = "waiting"])
  /\ UNCHANGED <<sem, bucket, quota, expired>>

\* A blocking wait notices that the context is done: the semaphore when it is
\* called or while it queues, the others in their select.  What was reserved
\* is cancelled.  When a context expires, only this tells.
WaitFails(r) ==
  /\ \/ At(r, "queued")
     \/ At(r, "sleeping")
     \/ Calls(r, "waiting", Semaphores \union Buckets)
  /\ expired' = expired \union {r}
  /\ sem' = [l \in Semaphores |->
               IF At(r, "queued") /\ l = Now(r) THEN Dequeue(sem[l], r) ELSE sem[l]]
  /\ Becomes(r, StartRelease([job[r] EXCEPT !.due = [l \in DOMAIN @ |->
                                IF l \in Quotas THEN 0 ELSE @[l]]], "cancelling"))
  /\ UNCHANGED <<bucket, quota>>

-----------------------------------------------------------------------------
(* The request, and what becomes of its reservations                       *)

\* The upstream answered in full, with or without a token count, and
\* RecordUsage completes the reservations.  Embed passes on no count.
Answered(r) ==
  /\ At(r, "running")
  /\ \E used \in {u \in Actuals : u = 0 \/ \A ask \in job[r].ask : ask.need = "chat"} :
       Becomes(r, StartRelease([job[r] EXCEPT
                    !.used = IF used > 0 THEN used ELSE job[r].est], "completing"))
  /\ UNCHANGED <<sem, bucket, quota, expired>>

\* The call failed, at its start or in the middle of a stream, and Close
\* cancels the reservations.
Failed(r) ==
  /\ At(r, "running")
  /\ Becomes(r, StartRelease(job[r], "closing"))
  /\ UNCHANGED <<sem, bucket, quota, expired>>

Releases(r, S) ==
  /\ job[r].pc \in {"cancelling", "completing", "closing"}
  /\ job[r].plan # <<>>
  /\ Now(r) \in S

\* What the release of a reservation of l charges in the end.
Final(r, l) ==
  IF ~At(r, "completing") THEN 0
  ELSE IF l \in TokenLimiters THEN job[r].used ELSE 1

\* (faulty) Completing a request leaves its slots to Close, which finds the
\* set empty.
ReleaseSlotOnCancel(r) ==
  /\ Releases(r, Semaphores)
  /\ IF At(r, "completing")
     THEN UNCHANGED sem /\ Becomes(r, AfterRelease(job[r]))
     ELSE ReturnSlot(r, Now(r))
  /\ UNCHANGED <<bucket, quota, expired>>

ReleaseSlot(r) ==
  /\ Releases(r, Semaphores)
  /\ ReturnSlot(r, Now(r))
  /\ UNCHANGED <<bucket, quota, expired>>

ReleaseRate(r) ==
  /\ Releases(r, Buckets)
  /\ LET l == Now(r)
         diff == Cost(r, l) - Final(r, l)
     IN  /\ bucket' = IF diff = 0 THEN bucket
                      ELSE [bucket EXCEPT ![l] = Adjust(@, diff, LimitOf[l])]
         /\ Becomes(r, AfterRelease([job[r] EXCEPT !.due[l] = 0]))
  /\ UNCHANGED <<sem, quota, expired>>

ReleaseQuota(r) ==
  /\ Releases(r, Quotas)
  /\ quota' = [quota EXCEPT ![Now(r)] = Settle(@, Cost(r, Now(r)), Final(r, Now(r)))]
  /\ Becomes(r, AfterRelease(job[r]))
  /\ UNCHANGED <<sem, bucket, expired>>

-----------------------------------------------------------------------------
Tick ==
  /\ bucket' = [l \in Buckets |-> BucketTick(bucket[l], LimitOf[l])]
  /\ quota' = [l \in Quotas |-> QuotaTick(quota[l], DayTicks)]
  /\ job' = [r \in Requests |->
               [job[r] EXCEPT !.due = [l \in DOMAIN @ |->
                                         IF @[l] > 0 THEN @[l] - 1 ELSE 0]]]
  /\ UNCHANGED <<sem, expired>>

\* What the goroutine of r does when it is not blocked and not in a call of
\* the upstream.
Proceed(r) ==
  \/ ProbeNext(r) \/ Rank(r)
  \/ ReserveSlot(r) \/ ReserveRate(r) \/ ReserveQuota(r) \/ CheckDelay(r)
  \/ WaitSlot(r) \/ WaitRate(r) \/ WaitQuota(r) \/ TimerFires(r)
  \/ ReleaseSlot(r) \/ ReleaseRate(r) \/ ReleaseQuota(r)

Next ==
  \/ Tick
  \/ \E r \in Requests :
       Arrive(r) \/ Proceed(r) \/ WaitFails(r) \/ Answered(r) \/ Failed(r)

\* The clock runs, goroutines that can go on do, and upstream calls end.  A
\* context need not expire: a gRPC stream has no deadline of its own.
Fairness ==
  /\ WF_vars(Tick)
  /\ \A r \in Requests :
       /\ WF_vars(Proceed(r) \/ (r \in expired /\ WaitFails(r)))
       /\ WF_vars(Answered(r) \/ Failed(r))

Spec == Init /\ [][Next]_vars /\ Fairness

-----------------------------------------------------------------------------
(* Properties                                                              *)

TypeOK ==
  /\ \A l \in Semaphores : sem[l] \in [cur : 0..LimitOf[l], queue : Seq(Requests)]
  /\ \A l \in Buckets : bucket[l].tokens \in Int /\ bucket[l].since \in Nat
  /\ quota \in [Quotas -> [used : Nat, untilReset : -DayTicks..DayTicks]]
  /\ \A r \in Requests :
       /\ job[r].ask \subseteq Asks
       /\ job[r].est \in {EstimateTokens(ask) : ask \in Asks} \union {0}
       /\ job[r].on \in Seq(Models) /\ Len(job[r].on) <= 1
       /\ job[r].held \subseteq Range(job[r].kept)
       /\ job[r].due \in [Buckets \union Quotas -> Nat]
  /\ expired \subseteq Requests

\* The slots in use are the slots some request holds, whatever failed on the
\* way: a later limiter, a wait, the upstream call, or nothing.
SlotsConserved ==
  \A l \in Semaphores :
    sem[l].cur = Cardinality({r \in Requests : l \in job[r].held})

\* A request that runs holds a slot of every concurrency limiter of the model
\* it runs on and of that model's upstream, although wait may have returned
\* without waiting.
RunningHoldsItsSlots ==
  \A r \in Requests :
    At(r, "running") =>
      \A l \in Semaphores \intersect Range(ReserveOrder(job[r].est, job[r].on[1])) :
        l \in job[r].held

\* A request that has left a candidate, or the router, has left nothing
\* behind: no slot, no reservation, no place in a queue that would be handed
\* a slot nobody returns.
NothingLeftBehind ==
  \A r \in Requests :
    /\ job[r].pc \in {"refused", "done"} => job[r].held = {}
    /\ \A l \in Semaphores :
         r \in Range(sem[l].queue) <=> At(r, "queued") /\ Now(r) = l

\* tryReserveAll never meets a limiter that refuses: the limits do not change,
\* and the ranking has dropped every candidate whose limits the request
\* exceeds.  Its error path is not taken.
ReserveNeverRefused ==
  \A r \in Requests : Calls(r, "reserving", Limiters) => ~Oversized(r, Now(r))

\* ErrNoUpstream is not a matter of timing: while its context lives, a request
\* is refused only if no candidate could ever serve it.
RefusedOnlyIfHopeless ==
  \A r \in Requests :
    At(r, "refused") =>
      \/ r \in expired
      \/ \A ask \in job[r].ask : \A m \in Range(CandidatesOf(ask)) :
           \E l \in Range(ReserveOrder(job[r].est, m)) : Oversized(r, l)

StandsFor(a, m) ==
  a.model = SpecOf[m].id /\ a.upstream \in {"", SpecOf[m].upstream}

\* Whether the configuration means m by a name: its own, or that of an alias
\* which no later alias replaces.
Means(m, name) ==
  \/ SpecOf[m].id = name
  \/ \E i \in DOMAIN AliasConfigs :
       /\ AliasConfigs[i].id = name /\ StandsFor(AliasConfigs[i], m)
       /\ \A k \in DOMAIN AliasConfigs :
            k > i /\ AliasConfigs[k].id = name =>
              \A n \in Models : ~StandsFor(AliasConfigs[k], n)

\* Through every detour of the election, a request waits for and runs on a
\* model that has the capability it needs, and on one that is meant by its
\* name, directly or as an alias, if any capable model is; no candidate is
\* tried twice.
RouteHonoured ==
  \A r \in Requests : \A ask \in job[r].ask :
    LET left == job[r].on \o job[r].order IN
    /\ \A m \in Range(left) :
         /\ Serves(m, ask)
         /\ (\E n \in Models : Serves(n, ask) /\ Means(n, ask.model)) => Means(m, ask.model)
    /\ IsInjective(left) /\ IsInjective(job[r].todo)

\* Every request is answered in the end, without the help of its context.
EveryoneAnswered ==
  \A r \in Requests :
    ~At(r, "idle") ~> job[r].pc \in {"done", "refused"}

-----------------------------------------------------------------------------
(* Statements of the repository that the code does not keep.               *)

\* "if reservation fails or waiting is needed, fall back to the next
\* candidate" (election.go:25): nobody blocks while candidates are untried.
FallsBackBeforeWaiting ==
  \A r \in Requests :
    job[r].pc \in {"queued", "sleeping"} => job[r].order = <<>>

=============================================================================
