----------------------------- MODULE LimiterOps -----------------------------
(***************************************************************************)
(* The state of one limiter of internal/data/limiter/local, and what each  *)
(* of its methods does to it.  Every method runs under the limiter's own   *)
(* mutex, so a method is one operator from state to state.  The modules    *)
(* DailyQuota, TokenBucket, ConcurrencyLimiter and Election build their    *)
(* actions from these operators.                                           *)
(*                                                                         *)
(* Time is relative: a deadline is the number of ticks until it is due.    *)
(***************************************************************************)
EXTENDS Integers, Sequences

Larger(a, b)  == IF a >= b THEN a ELSE b
Smaller(a, b) == IF a <= b THEN a ELSE b

\* repository.InfDuration: a probe's answer when waiting cannot help, and not
\* the length of any wait.
Inf == -1

-----------------------------------------------------------------------------
(* Daily quota: used units and the ticks until the next reset.  The reset  *)
(* time is in the past, and the quota not yet flushed, iff the latter is   *)
(* negative; day is the length of a day.                                   *)

NewQuota(left) == [used |-> 0, untilReset |-> left]

\* The next midnight, seen lag ticks after the last one.
NextMidnight(lag, day) == day - (lag % day)

Expired(q) == q.untilReset < 0

Flush(q, day) ==
  IF Expired(q)
  THEN NewQuota(NextMidnight(-q.untilReset, day))
  ELSE q

\* (faulty) The request limiter's test, applied to a reservation of tokens.
FitsAnother(q, cost, limit) == q.used < limit

Fits(q, cost, limit) == q.used + cost <= limit

\* (faulty) The request limiter's increment, applied to tokens.
TakeOne(q, cost) == [q EXCEPT !.used = @ + 1]

Take(q, cost) == [q EXCEPT !.used = @ + cost]

\* (faulty) The counter is not kept from going below zero.
SettleUnclamped(q, reserved, actual) ==
  [q EXCEPT !.used = @ - reserved + actual]

\* Cancel is Settle with an actual use of 0.
Settle(q, reserved, actual) ==
  [q EXCEPT !.used = Larger(0, @ - reserved + actual)]

\* What a limiter's Probe and an unacquired reservation's Delay answer, of a
\* flushed quota.
QuotaDelay(q, cost, limit) ==
  IF Fits(q, cost, limit) THEN 0 ELSE q.untilReset

\* (faulty) A whole day, wherever in the day the wait started.
SleepOfADay(q, day) == day

\* How long Wait sleeps before it looks again.
SleepTime(q, day) == q.untilReset

\* One tick of the clock.  Lags that are a day apart are the same lag.
QuotaTick(q, day) ==
  [q EXCEPT !.untilReset = IF @ = -day THEN -1 ELSE @ - 1]

-----------------------------------------------------------------------------
(* Token bucket: the tokens at the last update and the ticks since then.   *)
(* A tick is the time one token takes to refill, so the rate is one; the   *)
(* ticks since the update stop counting once the bucket overflows.         *)

NewBucket(burst) == [tokens |-> burst, since |-> 0]

\* The tokens a fill would find now.
Level(b, burst) == Smaller(burst, b.tokens + b.since)

Fill(b, burst) == [tokens |-> Level(b, burst), since |-> 0]

\* (faulty) The probe looks at the tokens of the last update.
ProbeUnfilled(b, cost, burst) ==
  IF cost > burst THEN Inf ELSE Larger(0, cost - b.tokens)

BucketProbe(b, cost, burst) ==
  IF cost > burst THEN Inf ELSE Larger(0, cost - Level(b, burst))

BucketReserve(b, cost, burst) == [Fill(b, burst) EXCEPT !.tokens = @ - cost]

\* (faulty) The wait covers the deficit that was there before the charge.
ReadyEarly(b, cost) == Larger(0, -(b.tokens + cost))

\* The wait of the reservation that has just taken cost and left b.
ReadyIn(b, cost) == Larger(0, -b.tokens)

\* (faulty) A refund is not capped.
AdjustUncapped(b, diff, burst) == [Fill(b, burst) EXCEPT !.tokens = @ + diff]

Adjust(b, diff, burst) ==
  [Fill(b, burst) EXCEPT !.tokens = Smaller(burst, @ + diff)]

BucketTick(b, burst) ==
  IF b.tokens + b.since > burst THEN b ELSE [b EXCEPT !.since = @ + 1]

-----------------------------------------------------------------------------
(* golang.org/x/sync/semaphore.Weighted, every acquire of weight one: the  *)
(* slots in use and the queue of the waiters in Acquire.                   *)

NewSemaphore == [cur |-> 0, queue |-> <<>>]

\* TryAcquire succeeds, and Acquire does not queue.
HasRoom(s, limit) == s.cur < limit /\ s.queue = <<>>

AcquireSlot(s) == [s EXCEPT !.cur = @ + 1]

FreeSlot(s) == [s EXCEPT !.cur = @ - 1]

\* notifyWaiters: the free slots go to the waiters at the head of the queue.
Grants(s, limit) == Smaller(Len(s.queue), Larger(0, limit - s.cur))

Granted(s, limit) == {s.queue[i] : i \in 1..Grants(s, limit)}

Notify(s, limit) ==
  [cur   |-> s.cur + Grants(s, limit),
   queue |-> SubSeq(s.queue, Grants(s, limit) + 1, Len(s.queue))]

Enqueue(s, r) == [s EXCEPT !.queue = Append(@, r)]

\* Where in the queue r waits.
PlaceOf(s, r) == CHOOSE i \in 1..Len(s.queue) : s.queue[i] = r

Dequeue(s, r) ==
  [s EXCEPT !.queue = SubSeq(@, 1, PlaceOf(s, r) - 1)
                        \o SubSeq(@, PlaceOf(s, r) + 1, Len(@))]

\* recordWaitTime: 0.3 * observed + 0.7 * old, truncated.
\* (faulty) Each term is truncated on its own.
SmoothedByTerms(observed, old) == ((3 * observed) \div 10) + ((7 * old) \div 10)

Smoothed(observed, old) == (3 * observed + 7 * old) \div 10

=============================================================================
