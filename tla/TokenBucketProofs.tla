------------------------- MODULE TokenBucketProofs -------------------------
(***************************************************************************)
(* The safety properties of TokenBucket and its refinement of IdealBucket, *)
(* for every number of requests, burst, set of estimates and set of        *)
(* reported counts.                                                        *)
(***************************************************************************)
EXTENDS TokenBucket, TLAPS

\* The tokens a call would find now.
Now == Level(bucket, Burst)

-----------------------------------------------------------------------------
(* The operations on a bucket, as its level sees them                      *)

Buckets == {b \in [tokens : Int, since : Nat] : b.tokens <= Burst}

LEMMA LevelType ==
  ASSUME NEW b \in Buckets
  PROVE  Level(b, Burst) \in Int /\ Level(b, Burst) <= Burst
BY BucketAssumption DEF Level, Smaller, Buckets

LEMMA LevelReserve ==
  ASSUME NEW b \in Buckets, NEW c \in Nat
  PROVE  /\ BucketReserve(b, c, Burst) \in Buckets
         /\ Level(BucketReserve(b, c, Burst), Burst) = Level(b, Burst) - c
         /\ BucketReserve(b, c, Burst).tokens = Level(b, Burst) - c
<1>1. Level(b, Burst) \in Int /\ Level(b, Burst) <= Burst
  BY LevelType
<1>2. BucketReserve(b, c, Burst) = [tokens |-> Level(b, Burst) - c, since |-> 0]
  BY DEF BucketReserve, Fill
<1>3. BucketReserve(b, c, Burst) \in Buckets
  BY <1>1, <1>2, BucketAssumption DEF Buckets
<1>4. Smaller(Burst, Level(b, Burst) - c + 0) = Level(b, Burst) - c
  BY <1>1, BucketAssumption DEF Smaller
<1>5. Level([tokens |-> Level(b, Burst) - c, since |-> 0], Burst)
        = Smaller(Burst, Level(b, Burst) - c + 0)
  BY DEF Level
<1> QED BY <1>2, <1>3, <1>4, <1>5

LEMMA LevelAdjust ==
  ASSUME NEW b \in Buckets, NEW d \in Int
  PROVE  /\ Adjust(b, d, Burst) \in Buckets
         /\ Level(Adjust(b, d, Burst), Burst) = Smaller(Burst, Level(b, Burst) + d)
<1> DEFINE t == Smaller(Burst, Level(b, Burst) + d)
<1>1. Level(b, Burst) \in Int /\ Level(b, Burst) <= Burst
  BY LevelType
<1>2. t \in Int /\ t <= Burst
  BY <1>1, BucketAssumption DEF Smaller
<1>3. Adjust(b, d, Burst) = [tokens |-> t, since |-> 0]
  BY DEF Adjust, Fill
<1> HIDE DEF t
<1>4. Adjust(b, d, Burst) \in Buckets
  BY <1>2, <1>3 DEF Buckets
<1>5. Level([tokens |-> t, since |-> 0], Burst) = t
  BY <1>2, BucketAssumption DEF Level, Smaller
<1> QED BY <1>3, <1>4, <1>5 DEF t

LEMMA LevelTick ==
  ASSUME NEW b \in Buckets
  PROVE  /\ BucketTick(b, Burst) \in Buckets
         /\ Level(BucketTick(b, Burst), Burst) =
              IF Level(b, Burst) < Burst THEN Level(b, Burst) + 1 ELSE Level(b, Burst)
<1>1. b.tokens \in Int /\ b.since \in Nat /\ b.tokens <= Burst
  BY DEF Buckets
<1>2. CASE b.tokens + b.since > Burst
  <2>1. BucketTick(b, Burst) = b
    BY <1>2 DEF BucketTick
  <2> QED BY <1>1, <1>2, <2>1, BucketAssumption DEF Level, Smaller
<1>3. CASE ~(b.tokens + b.since > Burst)
  <2>1. BucketTick(b, Burst) = [b EXCEPT !.since = @ + 1]
    BY <1>3 DEF BucketTick
  <2>2. /\ BucketTick(b, Burst) \in Buckets
        /\ BucketTick(b, Burst).tokens = b.tokens
        /\ BucketTick(b, Burst).since = b.since + 1
    BY <1>1, <2>1 DEF Buckets
  <2> QED BY <1>1, <1>3, <2>2, BucketAssumption DEF Level, Smaller
<1> QED BY <1>2, <1>3

-----------------------------------------------------------------------------
(* The inductive invariant                                                 *)

IInv == TypeOK /\ PaidBeforeRun

LEMMA TypeFacts ==
  ASSUME TypeOK
  PROVE  /\ bucket \in Buckets
         /\ Now \in Int
         /\ Now <= Burst
BY LevelType DEF TypeOK, Buckets, Now

\* Later charges only add to what a reservation need not have paid for.
LEMMA LaterType ==
  ASSUME TypeOK, NEW r \in Requests, NEW n \in Int, ChargedLater(r, n)
  PROVE  /\ later' \in [Requests -> Nat]
         /\ \A q \in Open \ {r} : later'[q] >= later[q] /\ later'[q] >= later[q] + n
         /\ later'[r] = later[r]
BY DEF TypeOK, ChargedLater, Open

LEMMA InitIInv == Init => IInv
<1> SUFFICES ASSUME Init PROVE IInv
  OBVIOUS
<1>1. TypeOK
  BY BucketAssumption DEF Init, TypeOK, NewBucket, Places
<1>2. Open = {}
  BY DEF Init, Open
<1> QED BY <1>1, <1>2 DEF IInv, PaidBeforeRun

\* The steps of a request that neither charge nor settle.
LEMMA MoveStep ==
  ASSUME IInv, NEW r \in Requests,
         RejectOversized(r) \/ CheckDelay(r) \/ TimerFires(r) \/ ContextDone(r)
  PROVE  /\ IInv'
         /\ UNCHANGED <<bucket, cost, ready, released, later>>
         /\ Open' = Open
<1>1. /\ UNCHANGED <<bucket, cost, ready, released, later>>
      /\ \E p \in Places \ {"idle", "done"} : pc' = [pc EXCEPT ![r] = p]
      /\ pc[r] # "done"
  BY DEF RejectOversized, CheckDelay, TimerFires, ContextDone, Goto, Places
<1>2. TypeOK'
  BY <1>1 DEF IInv, TypeOK
<1>3. Open' = Open
  BY DEF IInv, TypeOK, RejectOversized, CheckDelay, TimerFires, ContextDone, Goto, Open
<1> QED BY <1>1, <1>2, <1>3 DEF IInv, PaidBeforeRun

LEMMA ReserveStep ==
  ASSUME IInv, NEW r \in Requests, Reserve(r)
  PROVE  IInv' /\ Ideal!Reserve(r)
<1>1. PICK c \in Costs : /\ c <= Burst
                         /\ cost' = [cost EXCEPT ![r] = c]
                         /\ bucket' = BucketReserve(bucket, c, Burst)
                         /\ ready' = [ready EXCEPT ![r] = ReadyIn(bucket', c)]
                         /\ ChargedLater(r, c)
  BY DEF Reserve
<1>2. /\ pc[r] = "idle" /\ pc' = [pc EXCEPT ![r] = "reserved"]
      /\ UNCHANGED released
  BY DEF Reserve, Goto
<1>3. c \in Nat /\ c \in 0..Burst
  BY <1>1, BucketAssumption
<1>4. bucket \in Buckets /\ Now \in Int /\ Now <= Burst
  BY TypeFacts DEF IInv
<1>5. bucket' \in Buckets /\ Now' = Now - c /\ bucket'.tokens = Now - c
  BY <1>1, <1>3, <1>4, LevelReserve DEF Now
<1>6. ready'[r] \in Nat /\ Now' + ready'[r] >= 0
      /\ ready' = [ready EXCEPT ![r] = ready'[r]]
  BY <1>1, <1>3, <1>4, <1>5 DEF ReadyIn, Larger, IInv, TypeOK
<1>7. /\ later' \in [Requests -> Nat]
      /\ \A q \in Open \ {r} : later'[q] >= later[q] + c
  BY <1>1, <1>3, LaterType DEF IInv
<1>8. Open' = Open \union {r} /\ r \notin Open /\ r \notin released
  BY <1>2 DEF IInv, TypeOK, Open
<1>9. TypeOK'
  BY <1>1, <1>2, <1>3, <1>5, <1>6, <1>7 DEF IInv, TypeOK, Places, Buckets
<1>10. PaidBeforeRun'
  <2> SUFFICES ASSUME NEW q \in Open' PROVE Now' + ready'[q] + later'[q] >= 0
    BY DEF PaidBeforeRun, Now
  <2>1. q \in Requests /\ later'[q] \in Nat /\ later[q] \in Nat /\ ready[q] \in Nat
    BY <1>7 DEF Open, IInv, TypeOK
  <2>2. CASE q = r
    BY <1>4, <1>5, <1>6, <2>1, <2>2, <1>3
  <2>3. CASE q # r
    <3>1. q \in Open /\ ready'[q] = ready[q] /\ later'[q] >= later[q] + c
      BY <1>1, <1>7, <1>8, <2>1, <2>3 DEF IInv, TypeOK
    <3>2. Now + ready[q] + later[q] >= 0
      BY <3>1 DEF IInv, PaidBeforeRun, Now
    <3> QED BY <1>3, <1>4, <1>5, <2>1, <3>1, <3>2
  <2> QED BY <2>2, <2>3
<1>11. Ideal!Reserve(r)
  <2>1. /\ r \notin Open \union released
        /\ Open' = Open \union {r}
        /\ released' = released
    BY <1>2, <1>8
  <2>2. Level(bucket, Burst)' = Level(bucket, Burst) - c
    BY <1>5 DEF Now
  <2> QED BY <1>1, <2>1, <2>2 DEF Ideal!Reserve
<1> QED BY <1>9, <1>10, <1>11 DEF IInv

\* A settlement of an open reservation, of what it used.
LEMMA SettleStep ==
  ASSUME IInv, NEW r \in Open, NEW a \in Nat,
         a \in Actuals \union {0, cost[r]}, SettleOnce(r, a)
  PROVE  IInv' /\ Ideal!Settle(r)
<1>1. /\ r \in Requests /\ r \notin released
      /\ released' = released \union {r}
      /\ pc' = [pc EXCEPT ![r] = "done"]
      /\ UNCHANGED <<cost, ready>>
  BY DEF SettleOnce, Goto, Open, IInv, TypeOK
<1>2. cost[r] \in Nat
  BY <1>1, BucketAssumption DEF IInv, TypeOK
<1>3. bucket \in Buckets /\ Now \in Int /\ Now <= Burst
  BY TypeFacts DEF IInv
<1>4. /\ bucket' \in Buckets
      /\ Now' = Smaller(Burst, Now + (cost[r] - a))
      /\ later' \in [Requests -> Nat]
      /\ \A q \in Open \ {r} : /\ later'[q] >= later[q]
                               /\ later'[q] >= later[q] + (a - cost[r])
  <2>1. CASE a = cost[r]
    <3>1. UNCHANGED <<bucket, later>>
      BY <2>1 DEF SettleOnce
    <3> QED
      BY <1>2, <1>3, <2>1, <3>1, BucketAssumption
      DEF Smaller, IInv, TypeOK, Now, Open
  <2>2. CASE a # cost[r]
    <3>1. /\ bucket' = Adjust(bucket, cost[r] - a, Burst)
          /\ ChargedLater(r, a - cost[r])
      BY <1>1, <2>2 DEF SettleOnce
    <3>2. cost[r] - a \in Int /\ a - cost[r] \in Int
      BY <1>2
    <3>3. bucket' \in Buckets /\ Now' = Smaller(Burst, Now + (cost[r] - a))
      BY <1>3, <3>1, <3>2, LevelAdjust DEF Now
    <3> QED BY <1>1, <3>1, <3>2, <3>3, LaterType DEF IInv
  <2> QED BY <2>1, <2>2
<1>5. Open' = Open \ {r}
  BY <1>1 DEF IInv, TypeOK, Open
<1>6. TypeOK'
  BY <1>1, <1>4 DEF IInv, TypeOK, Places, Buckets
<1>7. PaidBeforeRun'
  <2> SUFFICES ASSUME NEW q \in Open' PROVE Now' + ready'[q] + later'[q] >= 0
    BY DEF PaidBeforeRun, Now
  <2>1. q \in Requests /\ later'[q] \in Nat /\ later[q] \in Nat /\ ready[q] \in Nat
    BY <1>4, <1>5 DEF Open, IInv, TypeOK
  <2>2. q \in Open \ {r} /\ ready'[q] = ready[q]
    BY <1>1, <1>5
  <2>3. Now + ready[q] + later[q] >= 0
    BY <2>2 DEF IInv, PaidBeforeRun, Now
  <2>4. Now' \in Int /\ (Now' >= Now \/ Now' = Now - (a - cost[r]))
    BY <1>2, <1>3, <1>4, BucketAssumption DEF Smaller
  <2>5. later'[q] >= later[q] /\ later'[q] >= later[q] + (a - cost[r])
    BY <1>4, <2>2
  <2> QED BY <1>2, <1>3, <2>1, <2>2, <2>3, <2>4, <2>5
<1>8. Ideal!Settle(r)
  <2>1. Level(bucket, Burst)' =
          IF Now + cost[r] - a < Burst THEN Now + cost[r] - a ELSE Burst
    BY <1>2, <1>3, <1>4, BucketAssumption DEF Smaller, Now
  <2>2. /\ Open' = Open \ {r} /\ released' = released \union {r} /\ cost' = cost
    BY <1>1, <1>5
  <2> QED BY <2>1, <2>2 DEF Ideal!Settle, Now
<1> QED BY <1>6, <1>7, <1>8 DEF IInv

\* A settlement of a reservation that is settled already.
LEMMA SettledStep ==
  ASSUME IInv, NEW r \in Requests, pc[r] = "done", NEW a, SettleOnce(r, a)
  PROVE  UNCHANGED vars
<1>1. r \in released
  BY DEF IInv, TypeOK
<1>2. UNCHANGED <<bucket, later, cost, ready>> /\ released' = released
  BY <1>1 DEF SettleOnce
<1>3. pc' = pc
  BY DEF SettleOnce, Goto, IInv, TypeOK
<1> QED BY <1>2, <1>3 DEF vars

LEMMA TickStep == ASSUME IInv, Tick PROVE IInv' /\ [Ideal!Refill]_(Ideal!vars)
<1>1. /\ bucket' = BucketTick(bucket, Burst)
      /\ ready' = [r \in Requests |-> IF ready[r] > 0 THEN ready[r] - 1 ELSE 0]
      /\ UNCHANGED <<pc, cost, released, later>>
  BY DEF Tick
<1>2. bucket \in Buckets /\ Now \in Int /\ Now <= Burst
  BY TypeFacts DEF IInv
<1>3. bucket' \in Buckets /\ Now' = IF Now < Burst THEN Now + 1 ELSE Now
  BY <1>1, <1>2, LevelTick DEF Now
<1>4. Open' = Open
  BY <1>1 DEF Open
<1>5. TypeOK'
  BY <1>1, <1>3 DEF IInv, TypeOK, Buckets
<1>6. PaidBeforeRun'
  <2> SUFFICES ASSUME NEW q \in Open' PROVE Now' + ready'[q] + later'[q] >= 0
    BY DEF PaidBeforeRun, Now
  <2>1. q \in Requests /\ later[q] \in Nat /\ later'[q] = later[q] /\ ready[q] \in Nat
    BY <1>1, <1>4 DEF Open, IInv, TypeOK
  <2>2. Now + ready[q] + later[q] >= 0
    BY <1>4 DEF IInv, PaidBeforeRun, Now
  <2>3. ready'[q] = IF ready[q] > 0 THEN ready[q] - 1 ELSE 0
    BY <1>1, <2>1
  <2> QED BY <1>2, <1>3, <2>1, <2>2, <2>3, BucketAssumption
<1>7. Ideal!Refill
  BY <1>1, <1>3, <1>4 DEF Ideal!Refill, Now
<1> QED BY <1>5, <1>6, <1>7 DEF IInv

-----------------------------------------------------------------------------
(* Every step keeps the invariant and is a step of the ideal bucket        *)

LEMMA NextIInv == IInv /\ [Next]_vars => IInv' /\ [Ideal!Next]_(Ideal!vars)
<1> SUFFICES ASSUME IInv, [Next]_vars PROVE IInv' /\ [Ideal!Next]_(Ideal!vars)
  OBVIOUS
<1>1. CASE Tick
  BY <1>1, TickStep DEF Ideal!Next
<1>2. ASSUME NEW r \in Requests,
             RejectOversized(r) \/ CheckDelay(r) \/ TimerFires(r) \/ ContextDone(r)
      PROVE  IInv' /\ UNCHANGED (Ideal!vars)
  BY <1>2, MoveStep DEF Ideal!vars
<1>3. ASSUME NEW r \in Requests, Reserve(r)
      PROVE  IInv' /\ Ideal!Next
  BY <1>3, ReserveStep DEF Ideal!Next
<1>4. ASSUME NEW r \in Requests,
             Cancel(r) \/ Complete(r) \/ CompleteWithActual(r)
      PROVE  IInv' /\ [Ideal!Next]_(Ideal!vars)
  <2>1. cost[r] \in Nat
    BY BucketAssumption DEF IInv, TypeOK
  <2>2. PICK a \in Actuals \union {0, cost[r]} : SettleOnce(r, a)
    BY <1>4 DEF Cancel, Complete, CompleteWithActual
  <2>3. a \in Nat
    BY <2>1, BucketAssumption
  <2>4. pc[r] = "done" \/ r \in Open
    BY <1>4 DEF Cancel, Complete, CompleteWithActual, Open
  <2>5. CASE r \in Open
    BY <2>2, <2>3, <2>5, SettleStep DEF Ideal!Next
  <2>6. CASE pc[r] = "done"
    <3>1. UNCHANGED vars
      BY <2>2, <2>6, SettledStep
    <3> QED
      BY <3>1 DEF vars, IInv, TypeOK, PaidBeforeRun, Open, Ideal!vars
  <2> QED BY <2>4, <2>5, <2>6
<1>5. CASE UNCHANGED vars
  BY <1>5 DEF vars, IInv, TypeOK, PaidBeforeRun, Open, Ideal!vars
<1> QED BY <1>1, <1>2, <1>3, <1>4, <1>5 DEF Next

LEMMA Invariance == Spec => []IInv
<1>1. IInv /\ [Next]_vars => IInv'
  BY NextIInv
<1> QED BY <1>1, InitIInv, PTL DEF Spec

-----------------------------------------------------------------------------
(* Theorems                                                                *)

\* The state of a bucket has its type: never more tokens than the burst, and
\* exactly the reservations that are over are released.
THEOREM TypeCorrect == Spec => []TypeOK
<1>1. IInv => TypeOK
  BY DEF IInv
<1> QED BY <1>1, Invariance, PTL

\* Whatever the bucket still lacks when the wait of a reservation is over was
\* charged after it, through every refill, refund and surcharge in between.
THEOREM PaidCorrect == Spec => []PaidBeforeRun
<1>1. IInv => PaidBeforeRun
  BY DEF IInv
<1> QED BY <1>1, Invariance, PTL

\* probe answers the wait that reserve would give at the same moment.
THEOREM ProbeCorrect == Spec => []ProbeMatchesReserve
<1>1. IInv => ProbeMatchesReserve
  <2> SUFFICES ASSUME IInv, NEW c \in Costs, c <= Burst
               PROVE  BucketProbe(bucket, c, Burst) =
                        ReadyIn(BucketReserve(bucket, c, Burst), c)
    BY DEF ProbeMatchesReserve
  <2>1. bucket \in Buckets /\ Now \in Int /\ c \in Nat
    BY TypeFacts, BucketAssumption DEF IInv
  <2>2. BucketReserve(bucket, c, Burst).tokens = Now - c
    BY <2>1, LevelReserve DEF Now
  <2>3. BucketProbe(bucket, c, Burst) = Larger(0, c - Now)
    BY <2>1, BucketAssumption DEF BucketProbe, Now
  <2>4. -(Now - c) = c - Now
    BY <2>1
  <2> QED BY <2>2, <2>3, <2>4 DEF ReadyIn
<1> QED BY <1>1, Invariance, PTL

\* Nobody can tell the lazy bucket from one that gains a token on every tick,
\* is charged once per reservation and corrected once.
THEOREM Refinement == Spec => ImplementsIdeal
<1>1. Init => Ideal!Init
  <2> SUFFICES ASSUME Init PROVE Ideal!Init
    OBVIOUS
  <2>1. Level(bucket, Burst) = Burst
    BY BucketAssumption DEF Init, NewBucket, Level, Smaller
  <2>2. Open = {}
    BY DEF Init, Open
  <2> QED BY <2>1, <2>2 DEF Init, Ideal!Init
<1>2. IInv /\ [Next]_vars => [Ideal!Next]_(Ideal!vars)
  BY NextIInv
<1> QED BY <1>1, <1>2, Invariance, PTL DEF Spec, ImplementsIdeal, Ideal!Spec

=============================================================================
