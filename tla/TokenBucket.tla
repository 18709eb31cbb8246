---------------------------- MODULE TokenBucket ----------------------------
(***************************************************************************)
(* One per-minute limiter (internal/data/limiter/local/token_bucket.go):   *)
(* the RPM limiter when Costs = {1}, the TPM limiter otherwise.  The       *)
(* actors are the requests, each holding one reservation, and the clock.   *)
(* Every method takes the bucket's mutex once and is one step.             *)
(***************************************************************************)
EXTENDS LimiterOps, FiniteSets

CONSTANTS
  Requests,   \* the requests; each makes at most one reservation
  Burst,      \* tokenBucket.burst, the limit per minute
  Costs,      \* the token estimates a request may reserve
  Actuals     \* the token counts an upstream may report

ASSUME BucketAssumption ==
  /\ Burst \in Nat \ {0}
  /\ Costs \subseteq Nat \ {0}
  /\ Actuals \subseteq Nat

VARIABLES
  bucket,     \* the shared tokenBucket
  pc,         \* where each request is
  cost,       \* tokenReservation.tokens
  ready,      \* the ticks until the reservation's readyAt
  released,   \* the requests whose reservation was cancelled or completed
  later       \* (history) what was charged after the reservation of a request

vars == <<bucket, pc, cost, ready, released, later>>

Places == {"idle", "rejected", "reserved", "waiting", "failed", "running",
           "done"}

Init ==
  /\ bucket = NewBucket(Burst)
  /\ pc = [r \in Requests |-> "idle"]
  /\ cost = [r \in Requests |-> 0]
  /\ ready = [r \in Requests |-> 0]
  /\ released = {}
  /\ later = [r \in Requests |-> 0]

Goto(r, place) == pc' = [pc EXCEPT ![r] = place]

\* The reservations made and not yet settled.
Open == {r \in Requests : pc[r] \in {"reserved", "waiting", "failed", "running"}}

\* What is charged now comes after every open reservation but r's own.
ChargedLater(r, amount) ==
  later' = [q \in Requests |->
              IF q \in Open \ {r} /\ amount > 0 THEN later[q] + amount
              ELSE later[q]]

-----------------------------------------------------------------------------
RejectOversized(r) ==
  /\ pc[r] = "idle"
  /\ \E c \in Costs : c > Burst
  /\ Goto(r, "rejected")
  /\ UNCHANGED <<bucket, cost, ready, released, later>>

Reserve(r) ==
  /\ pc[r] = "idle"
  /\ \E c \in Costs :
       /\ c <= Burst
       /\ cost' = [cost EXCEPT ![r] = c]
       /\ bucket' = BucketReserve(bucket, c, Burst)
       /\ ready' = [ready EXCEPT ![r] = ReadyIn(bucket', c)]
       /\ ChargedLater(r, c)
  /\ Goto(r, "reserved")
  /\ UNCHANGED released

\* Delay().  The router skips Wait when every reservation of the request
\* answers 0, and calls it otherwise.
CheckDelay(r) ==
  /\ pc[r] = "reserved"
  /\ \/ Goto(r, "waiting")
     \/ ready[r] = 0 /\ Goto(r, "running")
  /\ UNCHANGED <<bucket, cost, ready, released, later>>

\* The two branches of Wait's select.
\* (faulty) The wait polls for the tokens it already holds, and for one more.
TimerFiresOnBalance(r) ==
  /\ pc[r] = "waiting"
  /\ Level(bucket, Burst) > cost[r]
  /\ Goto(r, "running")
  /\ UNCHANGED <<bucket, cost, ready, released, later>>

TimerFires(r) ==
  /\ pc[r] = "waiting"
  /\ ready[r] = 0
  /\ Goto(r, "running")
  /\ UNCHANGED <<bucket, cost, ready, released, later>>

ContextDone(r) ==
  /\ pc[r] = "waiting"
  /\ Goto(r, "failed")
  /\ UNCHANGED <<bucket, cost, ready, released, later>>

\* (faulty) Nothing remembers that the reservation was released.
SettleAgain(r, actual) ==
  /\ bucket' = Adjust(bucket, cost[r] - actual, Burst)
  /\ ChargedLater(r, actual - cost[r])
  /\ released' = released \union {r}
  /\ Goto(r, "done")
  /\ UNCHANGED <<cost, ready>>

\* CompleteWithActual; nothing is adjusted when the estimate was exact.
SettleOnce(r, actual) ==
  /\ IF r \in released \/ actual = cost[r]
     THEN UNCHANGED <<bucket, later>>
     ELSE /\ bucket' = Adjust(bucket, cost[r] - actual, Burst)
          /\ ChargedLater(r, actual - cost[r])
  /\ released' = released \union {r}
  /\ Goto(r, "done")
  /\ UNCHANGED <<cost, ready>>

\* Cancel: another reservation of the request failed, the wait failed, or the
\* request ended without recording its usage.  Close calls it again, after
\* the reservation was settled.
Cancel(r) ==
  /\ pc[r] \in {"reserved", "failed", "running", "done"}
  /\ SettleOnce(r, 0)

Complete(r) ==
  /\ pc[r] = "running"
  /\ SettleOnce(r, cost[r])

CompleteWithActual(r) ==
  /\ pc[r] = "running"
  /\ \E actual \in Actuals : SettleOnce(r, actual)

Tick ==
  /\ bucket' = BucketTick(bucket, Burst)
  /\ ready' = [r \in Requests |-> IF ready[r] > 0 THEN ready[r] - 1 ELSE 0]
  /\ UNCHANGED <<pc, cost, released, later>>

-----------------------------------------------------------------------------
Next ==
  \/ Tick
  \/ \E r \in Requests :
       \/ RejectOversized(r)
       \/ Reserve(r)
       \/ CheckDelay(r)
       \/ TimerFires(r)
       \/ ContextDone(r)
       \/ Cancel(r)
       \/ Complete(r)
       \/ CompleteWithActual(r)

\* The clock runs, and a goroutine that can go on does.
Fairness ==
  /\ WF_vars(Tick)
  /\ \A r \in Requests : WF_vars(CheckDelay(r)) /\ WF_vars(TimerFires(r))

Spec == Init /\ [][Next]_vars /\ Fairness

-----------------------------------------------------------------------------
(* Properties                                                              *)

TypeOK ==
  /\ bucket \in [tokens : Int, since : Nat]
  /\ bucket.tokens <= Burst
  /\ pc \in [Requests -> Places]
  /\ cost \in [Requests -> 0..Burst]
  /\ ready \in [Requests -> Nat]
  /\ released = {r \in Requests : pc[r] = "done"}
  /\ later \in [Requests -> Nat]

\* A request runs on tokens of its own.  When the wait of a reservation is
\* over, whatever the bucket still lacks was charged after it: refilling
\* lazily, refunds and surcharges in between included, no reservation is let
\* through on the tokens of an earlier one.
PaidBeforeRun ==
  \A r \in Open : Level(bucket, Burst) + ready[r] + later[r] >= 0

\* Probe and Reserve compute the wait by different code; at every moment they
\* agree, so the ranking of the candidates is the ranking of their waits.
ProbeMatchesReserve ==
  \A c \in Costs :
    c <= Burst =>
      BucketProbe(bucket, c, Burst) =
        ReadyIn(BucketReserve(bucket, c, Burst), c)

\* The lazy bucket implements the eager one: nobody can tell that tokens are
\* only counted when somebody calls, and a reservation is charged once and
\* settled once.
Ideal == INSTANCE IdealBucket WITH
  level   <- Level(bucket, Burst),
  open    <- Open,
  settled <- released,
  price   <- cost

ImplementsIdeal == Ideal!Spec

\* A wait ends by the refill alone, without the help of the context.
WaitEnds == \A r \in Requests : pc[r] = "waiting" ~> pc[r] # "waiting"

=============================================================================
