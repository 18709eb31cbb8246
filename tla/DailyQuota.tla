----------------------------- MODULE DailyQuota -----------------------------
(***************************************************************************)
(* One daily limiter (internal/data/limiter/local/daily_quota.go): the RPD *)
(* limiter when Costs = {1}, the TPD limiter otherwise; the two share      *)
(* dailyQuotaState and differ in the cost of a reservation and in how it   *)
(* is settled.  The actors are the requests, each holding one reservation  *)
(* in the order the router calls it (internal/biz/model/limiter.go), and   *)
(* the clock.  A call that takes the mutex is one step.                    *)
(***************************************************************************)
EXTENDS LimiterOps, FiniteSets

CONSTANTS
  Requests,   \* the requests; each makes at most one reservation
  Limit,      \* dailyQuotaState.limit
  Costs,      \* the token estimates a request may reserve
  Actuals,    \* the token counts an upstream may report
  DayTicks    \* the length of a day

ASSUME DailyAssumption ==
  /\ Limit \in Nat \ {0}
  /\ Costs \subseteq Nat \ {0}
  /\ Actuals \subseteq Nat
  /\ DayTicks \in Nat \ {0}

VARIABLES
  quota,      \* the shared dailyQuotaState
  pc,         \* where each request is
  cost,       \* dailyTokenReservation.reserved
  acquired,   \* the requests whose reservation was charged
  released,   \* the requests whose reservation was cancelled or completed
  wake,       \* the timer of a sleeping Wait
  carried,    \* (history) acquired reservations charged on an earlier day
  today       \* (history) what the settlements of this day did

state   == <<quota, pc, cost, acquired, released, wake>>
history == <<carried, today>>
vars    == <<state, history>>

Places == {"idle", "rejected", "reserved", "waiting", "sleeping", "failed",
           "running", "done"}

\* spent:  the units consumed by today's reservations that have completed
\* excess: the part of the units charged today beyond the reserved ones
\* in:     the excess charged today by the reservations of earlier days
\* out:    the units refunded today by the reservations of earlier days
NoTraffic == [spent |-> 0, excess |-> 0, in |-> 0, out |-> 0]

Init ==
  /\ \E left \in 1..DayTicks : quota = NewQuota(left)
  /\ pc = [r \in Requests |-> "idle"]
  /\ cost = [r \in Requests |-> 0]
  /\ acquired = {}
  /\ released = {}
  /\ wake = [r \in Requests |-> 0]
  /\ carried = {}
  /\ today = NoTraffic

-----------------------------------------------------------------------------
(* Every call but the releases starts with flush.                          *)

Flushed == Flush(quota, DayTicks)

HistoryOfFlush ==
  IF Expired(quota)
  THEN carried' = acquired /\ today' = NoTraffic
  ELSE UNCHANGED history

Goto(r, place) == pc' = [pc EXCEPT ![r] = place]

\* Probe(tokens): its answer goes to the ranking, what it writes is the flush.
Probe ==
  /\ quota' = Flushed
  /\ HistoryOfFlush
  /\ UNCHANGED <<pc, cost, acquired, released, wake>>

\* Reserve(tokens) refuses what no day's quota can hold.
RejectOversized(r) ==
  /\ pc[r] = "idle"
  /\ \E c \in Costs : c > Limit
  /\ Goto(r, "rejected")
  /\ UNCHANGED <<quota, cost, acquired, released, wake, history>>

\* The charge of a reservation that fits, on Reserve or in Wait's loop.
ChargeOrNot(r, c) ==
  IF Fits(Flushed, c, Limit)
  THEN quota' = Take(Flushed, c) /\ acquired' = acquired \union {r}
  ELSE quota' = Flushed /\ UNCHANGED acquired

\* (faulty) The estimate is not compared with the limit.
ReserveUnchecked(r) ==
  /\ pc[r] = "idle"
  /\ \E c \in Costs :
       /\ cost' = [cost EXCEPT ![r] = c]
       /\ ChargeOrNot(r, c)
  /\ HistoryOfFlush
  /\ Goto(r, "reserved")
  /\ UNCHANGED <<released, wake>>

Reserve(r) ==
  /\ pc[r] = "idle"
  /\ \E c \in Costs :
       /\ c <= Limit
       /\ cost' = [cost EXCEPT ![r] = c]
       /\ ChargeOrNot(r, c)
  /\ HistoryOfFlush
  /\ Goto(r, "reserved")
  /\ UNCHANGED <<released, wake>>

\* Delay().  The router skips Wait when every reservation of the request
\* answers 0, and calls it otherwise, whatever this one answered.
CheckDelay(r) ==
  /\ pc[r] = "reserved"
  /\ IF r \in acquired
     THEN UNCHANGED <<quota, history>>
     ELSE quota' = Flushed /\ HistoryOfFlush
  /\ \/ Goto(r, "waiting")
     \/ /\ r \in acquired \/ QuotaDelay(Flushed, cost[r], Limit) = 0
        /\ Goto(r, "running")
  /\ UNCHANGED <<cost, acquired, released, wake>>

\* One turn of Wait's loop; an acquired reservation returns at once.
WaitTurn(r) ==
  /\ pc[r] = "waiting"
  /\ IF r \in acquired
     THEN /\ Goto(r, "running")
          /\ UNCHANGED <<quota, acquired, wake, history>>
     ELSE /\ ChargeOrNot(r, cost[r])
          /\ HistoryOfFlush
          /\ IF Fits(Flushed, cost[r], Limit)
             THEN Goto(r, "running") /\ UNCHANGED wake
             ELSE /\ Goto(r, "sleeping")
                  /\ wake' = [wake EXCEPT ![r] = SleepTime(Flushed, DayTicks)]
  /\ UNCHANGED <<cost, released>>

\* The two branches of Wait's select.
TimerFires(r) ==
  /\ pc[r] = "sleeping"
  /\ wake[r] = 0
  /\ Goto(r, "waiting")
  /\ UNCHANGED <<quota, cost, acquired, released, wake, history>>

ContextDone(r) ==
  /\ pc[r] = "sleeping"
  /\ Goto(r, "failed")
  /\ wake' = [wake EXCEPT ![r] = 0]
  /\ UNCHANGED <<quota, cost, acquired, released, history>>

-----------------------------------------------------------------------------
(* The releases do not flush: they act on whatever window is open.         *)

Positive(n) == IF n > 0 THEN n ELSE 0

HistoryOfSettle(r, actual) ==
  LET more == Positive(actual - cost[r])
      less == Positive(cost[r] - actual)
  IN  /\ today' = IF r \in carried
                  THEN [today EXCEPT !.in = @ + more, !.out = @ + less]
                  ELSE [today EXCEPT !.spent = @ + actual, !.excess = @ + more]
      /\ UNCHANGED carried

\* (faulty) Nothing remembers that the reservation was released.
ReleaseAgain(r, actual) ==
  /\ IF r \in acquired
     THEN /\ quota' = Settle(quota, cost[r], actual)
          /\ HistoryOfSettle(r, actual)
     ELSE UNCHANGED <<quota, history>>
  /\ released' = released \union {r}
  /\ Goto(r, "done")
  /\ UNCHANGED <<cost, acquired, wake>>

Release(r, actual) ==
  /\ IF r \in acquired \ released
     THEN /\ quota' = Settle(quota, cost[r], actual)
          /\ HistoryOfSettle(r, actual)
     ELSE UNCHANGED <<quota, history>>
  /\ released' = released \union {r}
  /\ Goto(r, "done")
  /\ UNCHANGED <<cost, acquired, wake>>

\* Cancel: another reservation of the request failed, the wait failed, or the
\* request ended without recording its usage.  Close calls it again, after
\* the reservation was settled.
Cancel(r) ==
  /\ pc[r] \in {"reserved", "failed", "running", "done"}
  /\ Release(r, 0)

\* Complete, of a request reservation, leaves the charge alone.
Complete(r) ==
  /\ pc[r] = "running"
  /\ Release(r, cost[r])

CompleteWithActual(r) ==
  /\ pc[r] = "running"
  /\ \E actual \in Actuals : Release(r, actual)

Tick ==
  /\ quota' = QuotaTick(quota, DayTicks)
  /\ wake' = [r \in Requests |-> Positive(wake[r] - 1)]
  /\ UNCHANGED <<pc, cost, acquired, released, history>>

-----------------------------------------------------------------------------
Next ==
  \/ Probe
  \/ Tick
  \/ \E r \in Requests :
       \/ RejectOversized(r)
       \/ Reserve(r)
       \/ CheckDelay(r)
       \/ WaitTurn(r)
       \/ TimerFires(r)
       \/ ContextDone(r)
       \/ Cancel(r)
       \/ Complete(r)
       \/ CompleteWithActual(r)

\* The clock runs, and a goroutine that can go on does; a request may never
\* arrive, a context may never expire, and an upstream may never answer.
Fairness ==
  /\ WF_vars(Tick)
  /\ \A r \in Requests :
       WF_vars(CheckDelay(r)) /\ WF_vars(WaitTurn(r)) /\ WF_vars(TimerFires(r))

Spec == Init /\ [][Next]_vars /\ Fairness

-----------------------------------------------------------------------------
(* Properties                                                              *)

TypeOK ==
  /\ quota \in [used : Nat, untilReset : -DayTicks..DayTicks]
  /\ pc \in [Requests -> Places]
  /\ cost \in [Requests -> 0..Limit]
  /\ acquired \subseteq Requests
  /\ released \subseteq Requests
  /\ wake \in [Requests -> 0..DayTicks]
  /\ carried \subseteq acquired
  /\ today \in [spent : Nat, excess : Nat, in : Nat, out : Nat]

\* The units a set of requests holds, each a pair of its holder and a number.
Units(S) == UNION {{r} \X (1..cost[r]) : r \in S}

\* The units of today that are reserved and not yet settled.
Held == Cardinality(Units(acquired \ (carried \union released)))

\* Today's account.  The used counter is exactly what today's reservations
\* hold and have spent, but for what the reservations of earlier days moved:
\* no acquire is lost or counted twice, and no release applied twice, however
\* the calls and the midnights interleave.
QuotaAccounted ==
  /\ quota.used <= Held + today.spent + today.in
  /\ Held + today.spent + today.in <= quota.used + today.out

\* Admission.  The counter exceeds the limit only by what the settlements
\* charged beyond their estimates: Reserve and Wait never admit past it.
AdmissionBounded ==
  quota.used <= Limit + today.excess + today.in

\* The limit of a day, with the two ways the code has of exceeding it named:
\* settlements above the estimate, and refunds of an earlier day's units.
DailyLimit ==
  Held + today.spent <= Limit + today.excess + today.out

\* A sleeping Wait is woken no later than the reset it waits for, even if
\* another request flushes the quota first.
WakesByReset ==
  \A r \in Requests :
    pc[r] = "sleeping" => wake[r] <= Positive(quota.untilReset)

\* With finitely many requests a waiting one gets its quota without the help
\* of its context: the reset after the last competitor serves it.
WaitersServed ==
  \A r \in Requests :
    (pc[r] \in {"waiting", "sleeping"}) ~> (pc[r] \notin {"waiting", "sleeping"})

-----------------------------------------------------------------------------
(* Statements of the repository that the code does not keep.               *)

\* "limit int64 // Maximum units per day" (daily_quota.go:36), settlements
\* above the estimate granted.  A reservation of yesterday that is cancelled
\* after midnight lowers today's counter, which then admits the same units
\* once more.
MaximumUnitsPerDay == Held + today.spent <= Limit + today.excess

\* "wait blocks until all reservations are ready" (biz/model/limiter.go:82):
\* a running request was charged.  A refund between Reserve and Delay lets
\* Delay answer 0 for a reservation that holds nothing, and the request runs.
RunningIsCharged == \A r \in Requests : pc[r] = "running" => r \in acquired

=============================================================================
