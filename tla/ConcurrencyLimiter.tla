------------------------- MODULE ConcurrencyLimiter -------------------------
(***************************************************************************)
(* One concurrency limiter (internal/data/limiter/local/concurrency.go): a *)
(* weighted semaphore and a smoothed estimate of the waiting time, kept in *)
(* an atomic.  There is no common mutex: a step is one call of the         *)
(* semaphore or one access to the atomic, so a Probe can be seen holding   *)
(* its slot and two goroutines can record their waits at the same time.    *)
(*                                                                         *)
(* The actors are goroutines, each serving one request after another.      *)
(***************************************************************************)
EXTENDS LimiterOps, FiniteSets

CONSTANTS
  Requests,       \* the goroutines
  Limit,          \* the size of the semaphore
  DefaultDelay,   \* defaultConcurrencyDelay
  WaitTimes       \* the waiting times a clock may observe; never zero

ASSUME ConcurrencyAssumption ==
  /\ Limit \in Nat \ {0}
  /\ DefaultDelay \in Nat \ {0}
  /\ WaitTimes \subseteq Nat \ {0}

VARIABLES
  sem,            \* the semaphore
  estimate,       \* ConcurrencyLimiter.estimatedDelay
  pc,             \* where each goroutine is
  acquired,       \* the goroutines whose reservation has acquired set
  loaded          \* the estimate read by a recordWaitTime in progress

vars == <<sem, estimate, pc, acquired, loaded>>

Places == {"idle", "probing", "probed", "reserved", "waiting", "queued",
           "granted", "recording", "storing", "failed", "running"}

Init ==
  /\ sem = NewSemaphore
  /\ estimate = DefaultDelay
  /\ pc = [r \in Requests |-> "idle"]
  /\ acquired = {}
  /\ loaded = [r \in Requests |-> 0]

Goto(r, place) == pc' = [pc EXCEPT ![r] = place]

\* A slot of r goes back, the waiters it is handed to are resumed, and r goes
\* on at place.
GiveBack(r, place) ==
  LET freed == FreeSlot(sem)
  IN  /\ sem' = Notify(freed, Limit)
      /\ pc' = [q \in Requests |->
                  IF q = r THEN place
                  ELSE IF q \in Granted(freed, Limit) THEN "granted"
                  ELSE pc[q]]

-----------------------------------------------------------------------------
(* Probe, Reserve, Delay                                                   *)

ProbeTakes(r) ==
  /\ pc[r] = "idle"
  /\ IF HasRoom(sem, Limit)
     THEN sem' = AcquireSlot(sem) /\ Goto(r, "probing")
     ELSE UNCHANGED sem /\ Goto(r, "probed")
  /\ UNCHANGED <<estimate, acquired, loaded>>

ProbeReturns(r) ==
  /\ pc[r] = "probing"
  /\ GiveBack(r, "probed")
  /\ UNCHANGED <<estimate, acquired, loaded>>

\* The ranking preferred another candidate.
NotChosen(r) ==
  /\ pc[r] = "probed"
  /\ Goto(r, "idle")
  /\ UNCHANGED <<sem, estimate, acquired, loaded>>

Reserve(r) ==
  /\ pc[r] = "probed"
  /\ IF HasRoom(sem, Limit)
     THEN sem' = AcquireSlot(sem) /\ acquired' = acquired \union {r}
     ELSE UNCHANGED <<sem, acquired>>
  /\ Goto(r, "reserved")
  /\ UNCHANGED <<estimate, loaded>>

\* (faulty) Delay() answers 0 when there is room, as Probe does.
CheckRoom(r) ==
  /\ pc[r] = "reserved"
  /\ \/ Goto(r, "waiting")
     \/ /\ r \in acquired \/ HasRoom(sem, Limit)
        /\ Goto(r, "running")
  /\ UNCHANGED <<sem, estimate, acquired, loaded>>

\* Delay().  The router skips Wait when every reservation of the request
\* answers 0, and calls it otherwise, whatever this one answered.
CheckDelay(r) ==
  /\ pc[r] = "reserved"
  /\ \/ Goto(r, "waiting")
     \/ /\ r \in acquired \/ estimate = 0
        /\ Goto(r, "running")
  /\ UNCHANGED <<sem, estimate, acquired, loaded>>

-----------------------------------------------------------------------------
(* Wait: semaphore.Acquire, then recordWaitTime                            *)

WaitAcquired(r) ==
  /\ pc[r] = "waiting"
  /\ r \in acquired
  /\ Goto(r, "running")
  /\ UNCHANGED <<sem, estimate, acquired, loaded>>

AcquireStarts(r) ==
  /\ pc[r] = "waiting"
  /\ r \notin acquired
  /\ \/ /\ HasRoom(sem, Limit)
        /\ sem' = AcquireSlot(sem)
        /\ Goto(r, "recording")
     \/ /\ ~HasRoom(sem, Limit)
        /\ sem' = Enqueue(sem, r)
        /\ Goto(r, "queued")
  /\ UNCHANGED <<estimate, acquired, loaded>>

\* Acquire found the context expired before it tried.
AcquireTooLate(r) ==
  /\ pc[r] = "waiting"
  /\ r \notin acquired
  /\ Goto(r, "failed")
  /\ UNCHANGED <<sem, estimate, acquired, loaded>>

\* The context expires in the queue.  The slots that are free then, if any,
\* go to those behind.
LeaveQueue(r) ==
  /\ pc[r] = "queued"
  /\ LET left == Dequeue(sem, r)
     IN  /\ sem' = Notify(left, Limit)
         /\ pc' = [q \in Requests |->
                     IF q = r THEN "failed"
                     ELSE IF q \in Granted(left, Limit) THEN "granted"
                     ELSE pc[q]]
  /\ UNCHANGED <<estimate, acquired, loaded>>

GrantTaken(r) ==
  /\ pc[r] = "granted"
  /\ Goto(r, "recording")
  /\ UNCHANGED <<sem, estimate, acquired, loaded>>

\* (faulty) Acquire fails and keeps the slot.
GrantLost(r) ==
  /\ pc[r] = "granted"
  /\ Goto(r, "failed")
  /\ UNCHANGED <<sem, estimate, acquired, loaded>>

\* The context of a waiter that was handed a slot has expired as well:
\* Acquire puts the slot back and fails.
GrantTooLate(r) ==
  /\ pc[r] = "granted"
  /\ GiveBack(r, "failed")
  /\ UNCHANGED <<estimate, acquired, loaded>>

RecordLoads(r) ==
  /\ pc[r] = "recording"
  /\ loaded' = [loaded EXCEPT ![r] = estimate]
  /\ Goto(r, "storing")
  /\ UNCHANGED <<sem, estimate, acquired>>

RecordStores(r) ==
  /\ pc[r] = "storing"
  /\ \E observed \in WaitTimes : estimate' = Smoothed(observed, loaded[r])
  /\ loaded' = [loaded EXCEPT ![r] = 0]
  /\ acquired' = acquired \union {r}
  /\ Goto(r, "running")
  /\ UNCHANGED sem

-----------------------------------------------------------------------------
\* (faulty) A reservation that was never acquired is released as well.
ReleaseUnchecked(r) ==
  /\ pc[r] \in {"reserved", "failed", "running"}
  /\ GiveBack(r, "idle")
  /\ acquired' = acquired \ {r}
  /\ UNCHANGED <<estimate, loaded>>

\* (faulty) The reservation is marked released before its slot is returned.
ReleaseForgets(r) ==
  /\ pc[r] \in {"reserved", "failed", "running"}
  /\ Goto(r, "idle")
  /\ acquired' = acquired \ {r}
  /\ UNCHANGED <<sem, estimate, loaded>>

\* Cancel, of a reservation that failed, was given up, or whose request has
\* ended; Complete is Cancel.
Release(r) ==
  /\ pc[r] \in {"reserved", "failed", "running"}
  /\ IF r \in acquired
     THEN GiveBack(r, "idle")
     ELSE UNCHANGED sem /\ Goto(r, "idle")
  /\ acquired' = acquired \ {r}
  /\ UNCHANGED <<estimate, loaded>>

Next ==
  \E r \in Requests :
    \/ ProbeTakes(r)
    \/ ProbeReturns(r)
    \/ NotChosen(r)
    \/ Reserve(r)
    \/ CheckDelay(r)
    \/ WaitAcquired(r)
    \/ AcquireStarts(r)
    \/ AcquireTooLate(r)
    \/ LeaveQueue(r)
    \/ GrantTaken(r)
    \/ GrantTooLate(r)
    \/ RecordLoads(r)
    \/ RecordStores(r)
    \/ Release(r)

\* A goroutine that can go on does, and an upstream call ends; a context may
\* never expire.
Fairness ==
  \A r \in Requests :
    /\ WF_vars(ProbeReturns(r))
    /\ WF_vars(CheckDelay(r))
    /\ WF_vars(WaitAcquired(r) \/ AcquireStarts(r))
    /\ WF_vars(GrantTaken(r))
    /\ WF_vars(RecordLoads(r))
    /\ WF_vars(RecordStores(r))
    /\ WF_vars(Release(r))

Spec == Init /\ [][Next]_vars /\ Fairness

-----------------------------------------------------------------------------
(* Properties                                                              *)

TypeOK ==
  /\ sem \in [cur : 0..Limit, queue : Seq(Requests)]
  /\ estimate \in Nat
  /\ pc \in [Requests -> Places]
  /\ acquired \subseteq Requests
  /\ loaded \in [Requests -> Nat]

\* The goroutines that own a slot: a Probe in progress, a waiter that was
\* handed one, and the reservations that are acquired.
Holders ==
  {r \in Requests : pc[r] \in {"probing", "granted", "recording", "storing"}}
    \union acquired

\* No slot leaks and none is released twice: the semaphore counts its
\* holders, whichever way each of them left Acquire.
SlotsConserved == sem.cur = Cardinality(Holders)

\* The limit is kept by the requests themselves: one that runs holds a slot,
\* whichever way the router came to run it.  That needs the estimate never
\* to be 0, since wait takes a Delay of 0 for an acquired reservation.
RunningHoldsSlot ==
  /\ \A r \in Requests : pc[r] = "running" => r \in acquired
  /\ Cardinality({r \in Requests : pc[r] = "running"}) <= Limit

\* The estimate stays between the shortest and the longest wait there is any
\* evidence of, although updates are lost and each is truncated.  In
\* particular a busy limiter never answers a delay of 0, which the router
\* would take for an acquired reservation (Election assumes it).
EstimateFromEvidence ==
  LET evidence == WaitTimes \union {DefaultDelay}
  IN  /\ \E w \in evidence : w <= estimate
      /\ \E w \in evidence : estimate <= w

\* A waiter is served although its context never expires.
WaitersServed == \A r \in Requests : pc[r] = "queued" ~> pc[r] # "queued"

=============================================================================
