-------------------------- MODULE DailyQuotaProofs --------------------------
(***************************************************************************)
(* The safety properties of DailyQuota, for every number of requests,      *)
(* limit, set of estimates, set of reported counts and length of the day.  *)
(*                                                                         *)
(* The account of a day counts units, so the proof needs the number of     *)
(* units held by a set of reservations to grow and shrink by the cost of   *)
(* the one that joins or leaves it (UnitsAdd, UnitsRemove).                *)
(***************************************************************************)
EXTENDS DailyQuota, LimiterProofs

-----------------------------------------------------------------------------
(* Units                                                                   *)

UnitsOf(S, c) == UNION {{r} \X (1..c[r]) : r \in S}

\* The units of one reservation are as many as its cost.
LEMMA UnitsOfOne ==
  ASSUME NEW r, NEW n \in Nat
  PROVE  IsFiniteSet({r} \X (1..n)) /\ Cardinality({r} \X (1..n)) = n
<1>1. IsFiniteSet({r}) /\ Cardinality({r}) = 1
  BY FS_Singleton
<1>2. IsFiniteSet(1..n) /\ Cardinality(1..n) = n
  BY FS_Interval
<1>3. /\ IsFiniteSet({r} \X (1..n))
      /\ Cardinality({r} \X (1..n)) = Cardinality({r}) * Cardinality(1..n)
  BY <1>1, <1>2, FS_Product
<1> QED BY <1>1, <1>2, <1>3

\* A reservation that joins a set brings its cost.
LEMMA UnitsAdd ==
  ASSUME NEW S, NEW c, NEW r, r \notin S, c[r] \in Nat, IsFiniteSet(UnitsOf(S, c))
  PROVE  /\ IsFiniteSet(UnitsOf(S \union {r}, c))
         /\ Cardinality(UnitsOf(S \union {r}, c)) = Cardinality(UnitsOf(S, c)) + c[r]
<1> DEFINE Own == {r} \X (1..c[r])
<1>1. IsFiniteSet(Own) /\ Cardinality(Own) = c[r]
  BY UnitsOfOne
<1>2. UnitsOf(S \union {r}, c) = UnitsOf(S, c) \union Own
  BY DEF UnitsOf
<1>3. UnitsOf(S, c) \intersect Own = {}
  BY DEF UnitsOf
<1>4. Cardinality(UnitsOf(S, c) \intersect Own) = 0
  BY <1>3, FS_EmptySet
<1>5. Cardinality(UnitsOf(S, c)) \in Nat
  BY FS_CardinalityType
<1>6. /\ IsFiniteSet(UnitsOf(S, c) \union Own)
      /\ Cardinality(UnitsOf(S, c) \union Own) =
           Cardinality(UnitsOf(S, c)) + Cardinality(Own)
             - Cardinality(UnitsOf(S, c) \intersect Own)
  BY <1>1, FS_Union
<1>7. Cardinality(UnitsOf(S, c) \union Own) = Cardinality(UnitsOf(S, c)) + c[r]
  <2> HIDE DEF Own
  <2> QED BY <1>1, <1>4, <1>5, <1>6
<1> QED BY <1>2, <1>6, <1>7

\* A reservation that leaves a set takes its cost with it.
LEMMA UnitsRemove ==
  ASSUME NEW S, NEW c, NEW r \in S, c[r] \in Nat, IsFiniteSet(UnitsOf(S, c))
  PROVE  /\ IsFiniteSet(UnitsOf(S \ {r}, c))
         /\ Cardinality(UnitsOf(S \ {r}, c)) \in Nat
         /\ Cardinality(UnitsOf(S, c)) = Cardinality(UnitsOf(S \ {r}, c)) + c[r]
<1>1. UnitsOf(S \ {r}, c) \in SUBSET UnitsOf(S, c)
  BY DEF UnitsOf
<1>2. IsFiniteSet(UnitsOf(S \ {r}, c))
  BY <1>1, FS_Subset
<1>3. (S \ {r}) \union {r} = S
  OBVIOUS
<1>4. Cardinality(UnitsOf((S \ {r}) \union {r}, c)) =
        Cardinality(UnitsOf(S \ {r}, c)) + c[r]
  BY <1>2, UnitsAdd
<1> QED BY <1>2, <1>3, <1>4, FS_CardinalityType

\* Only the costs of the members count.
LEMMA UnitsSame ==
  ASSUME NEW S, NEW c, NEW d, \A r \in S : c[r] = d[r]
  PROVE  UnitsOf(S, c) = UnitsOf(S, d)
BY DEF UnitsOf

LEMMA UnitsOfNone ==
  ASSUME NEW c
  PROVE  /\ IsFiniteSet(UnitsOf({}, c))
         /\ Cardinality(UnitsOf({}, c)) = 0
<1>1. UnitsOf({}, c) = {}
  BY DEF UnitsOf
<1> QED BY <1>1, FS_EmptySet

-----------------------------------------------------------------------------
(* The inductive invariant                                                 *)

\* Where a request is tells whether its reservation is made and released.
Shape ==
  \A r \in Requests :
    /\ pc[r] = "idle" => r \notin acquired /\ r \notin released
    /\ r \in released => pc[r] = "done"

OpenToday == acquired \ (carried \union released)

\* What the account needs, of a quota, a number of held units and a history.
Accounted(used, held, t) ==
  /\ used <= held + t.spent + t.in
  /\ held + t.spent + t.in <= used + t.out
  /\ used <= Limit + t.excess + t.in

IInv ==
  /\ TypeOK
  /\ Shape
  /\ IsFiniteSet(UnitsOf(OpenToday, cost))
  /\ Accounted(quota.used, Cardinality(UnitsOf(OpenToday, cost)), today)

Traffic == [spent : Nat, excess : Nat, in : Nat, out : Nat]

LEMMA FlushType ==
  ASSUME TypeOK
  PROVE  /\ Flushed \in [used : Nat, untilReset : -DayTicks..DayTicks]
         /\ Flushed.untilReset >= 0
<1>1. quota \in QuotaOf(DayTicks) /\ Flushed = Flush(quota, DayTicks)
  BY DEF TypeOK, QuotaOf, Flushed
<1> QED BY <1>1, DailyAssumption, FlushFacts DEF QuotaOf

-----------------------------------------------------------------------------
(* Flush leaves an account that balances: the one of the day, or an empty  *)
(* one.                                                                    *)

LEMMA FlushAccount ==
  ASSUME IInv, HistoryOfFlush
  PROVE  LET open == acquired \ (carried' \union released)
         IN  /\ carried' \subseteq acquired
             /\ today' \in Traffic
             /\ IsFiniteSet(UnitsOf(open, cost))
             /\ Accounted(Flushed.used, Cardinality(UnitsOf(open, cost)), today')
<1>1. CASE Expired(quota)
  <2>1. carried' = acquired /\ today' = NoTraffic
    BY <1>1 DEF HistoryOfFlush
  <2>2. acquired \ (carried' \union released) = {}
    BY <2>1
  <2>3. Flushed.used = 0
    BY <1>1 DEF Flushed, Flush, NewQuota
  <2>4. Accounted(0, 0, NoTraffic)
    BY DailyAssumption DEF Accounted, NoTraffic
  <2>5. NoTraffic \in Traffic
    BY DEF NoTraffic, Traffic
  <2> QED BY <2>1, <2>2, <2>3, <2>4, <2>5, UnitsOfNone
<1>2. CASE ~Expired(quota)
  <2>1. carried' = carried /\ today' = today
    BY <1>2 DEF HistoryOfFlush, history
  <2>2. Flushed = quota
    BY <1>2 DEF Flushed, Flush
  <2> QED BY <2>1, <2>2 DEF IInv, TypeOK, OpenToday, Traffic
<1> QED BY <1>1, <1>2

\* A charge that fits keeps the account.
LEMMA ChargeAccount ==
  ASSUME NEW used \in Nat, NEW held \in Nat, NEW t \in Traffic, NEW c \in Nat,
         Accounted(used, held, t), used + c <= Limit
  PROVE  Accounted(used + c, held + c, t)
BY DailyAssumption DEF Accounted, Traffic

\* Reserve and Wait charge what fits, after the flush.
LEMMA ChargeStep ==
  ASSUME IInv, NEW r \in Requests, r \notin acquired, r \notin released,
         NEW c \in 0..Limit, ChargeOrNot(r, c), HistoryOfFlush,
         released' = released, cost' = [cost EXCEPT ![r] = c]
  PROVE  /\ quota' \in [used : Nat, untilReset : -DayTicks..DayTicks]
         /\ acquired' \subseteq Requests
         /\ acquired' \subseteq acquired \union {r}
         /\ carried' \subseteq acquired'
         /\ today' \in Traffic
         /\ IsFiniteSet(UnitsOf(OpenToday', cost'))
         /\ Accounted(quota'.used, Cardinality(UnitsOf(OpenToday', cost')), today')
<1> DEFINE open == acquired \ (carried' \union released)
<1>1. /\ carried' \subseteq acquired
      /\ today' \in Traffic
      /\ IsFiniteSet(UnitsOf(open, cost))
      /\ Accounted(Flushed.used, Cardinality(UnitsOf(open, cost)), today')
  BY FlushAccount
<1>2. Flushed \in [used : Nat, untilReset : -DayTicks..DayTicks]
  BY FlushType DEF IInv
<1>3. UnitsOf(open, cost) = UnitsOf(open, cost')
  <2>1. \A q \in open : cost[q] = cost'[q]
    BY DEF IInv, TypeOK
  <2> QED BY <2>1, UnitsSame
<1>4. cost'[r] = c /\ c \in Nat
  BY DailyAssumption DEF IInv, TypeOK
<1>5. Cardinality(UnitsOf(open, cost')) \in Nat
  BY <1>1, <1>3, FS_CardinalityType
<1>6. CASE Fits(Flushed, c, Limit)
  <2>1. quota' = Take(Flushed, c) /\ acquired' = acquired \union {r}
    BY <1>6 DEF ChargeOrNot
  <2>2. OpenToday' = open \union {r} /\ r \notin open
    BY <1>1, <2>1 DEF OpenToday
  <2>3. /\ IsFiniteSet(UnitsOf(open \union {r}, cost'))
        /\ Cardinality(UnitsOf(open \union {r}, cost')) =
             Cardinality(UnitsOf(open, cost')) + c
    <3> HIDE DEF open
    <3> DEFINE d == cost'
    <3>1. r \notin open /\ d[r] = c /\ d[r] \in Nat /\ IsFiniteSet(UnitsOf(open, d))
      BY <1>1, <1>3, <1>4, <2>2
    <3> HIDE DEF d
    <3>2. /\ IsFiniteSet(UnitsOf(open \union {r}, d))
          /\ Cardinality(UnitsOf(open \union {r}, d)) =
               Cardinality(UnitsOf(open, d)) + d[r]
      BY <3>1, UnitsAdd, Zenon
    <3> QED BY <3>1, <3>2 DEF d
  <2>4. Flushed.used + c <= Limit
    BY <1>6 DEF Fits
  <2>5. Accounted(Flushed.used + c, Cardinality(UnitsOf(open, cost')) + c, today')
    BY <1>1, <1>2, <1>3, <1>4, <1>5, <2>4, ChargeAccount
  <2>6. /\ quota'.used = Flushed.used + c
        /\ quota' \in [used : Nat, untilReset : -DayTicks..DayTicks]
    BY <1>2, <1>4, <2>1 DEF Take
  <2> HIDE DEF open
  <2> QED BY <1>1, <2>1, <2>2, <2>3, <2>5, <2>6 DEF IInv, TypeOK
<1>7. CASE ~Fits(Flushed, c, Limit)
  <2>1. quota' = Flushed /\ acquired' = acquired
    BY <1>7 DEF ChargeOrNot
  <2>2. OpenToday' = open
    BY <2>1 DEF OpenToday
  <2> QED BY <1>1, <1>2, <1>3, <2>1, <2>2 DEF IInv, TypeOK
<1> QED BY <1>6, <1>7

\* A step that only flushes keeps the account.
LEMMA FlushStep ==
  ASSUME IInv, quota' = Flushed, HistoryOfFlush,
         UNCHANGED <<cost, acquired, released>>
  PROVE  /\ quota' \in [used : Nat, untilReset : -DayTicks..DayTicks]
         /\ carried' \subseteq acquired'
         /\ today' \in Traffic
         /\ IsFiniteSet(UnitsOf(OpenToday', cost'))
         /\ Accounted(quota'.used, Cardinality(UnitsOf(OpenToday', cost')), today')
<1>1. OpenToday' = acquired \ (carried' \union released)
  BY DEF OpenToday
<1> QED BY <1>1, FlushAccount, FlushType DEF IInv

\* What a settlement does to the account, in the two cases of its history.
LEMMA SettleCarried ==
  ASSUME NEW used \in Nat, NEW held \in Nat, NEW t \in Traffic,
         NEW c \in Nat, NEW a \in Nat, Accounted(used, held, t)
  PROVE  Accounted(Larger(0, used - c + a), held,
                   [t EXCEPT !.in = @ + Positive(a - c), !.out = @ + Positive(c - a)])
BY DailyAssumption DEF Accounted, Traffic, Larger, Positive

LEMMA SettleToday ==
  ASSUME NEW used \in Nat, NEW held \in Nat, NEW t \in Traffic,
         NEW c \in Nat, NEW a \in Nat, Accounted(used, held + c, t)
  PROVE  Accounted(Larger(0, used - c + a), held,
                   [t EXCEPT !.spent = @ + a, !.excess = @ + Positive(a - c)])
BY DailyAssumption DEF Accounted, Traffic, Larger, Positive

\* Both keep the type of the history.
LEMMA TrafficGrows ==
  ASSUME NEW t \in Traffic, NEW m \in Nat, NEW n \in Nat
  PROVE  /\ [t EXCEPT !.in = @ + m, !.out = @ + n] \in Traffic
         /\ [t EXCEPT !.spent = @ + m, !.excess = @ + n] \in Traffic
<1>1. t.in + m \in Nat /\ t.out + n \in Nat /\ t.spent + m \in Nat /\ t.excess + n \in Nat
  BY DEF Traffic
<1> QED BY <1>1 DEF Traffic

\* Cancel, Complete and CompleteWithActual.
LEMMA ReleaseStep ==
  ASSUME IInv, NEW r \in Requests, pc[r] # "idle", NEW a \in Nat, Release(r, a)
  PROVE  IInv'
<1>0. /\ released' = released \union {r}
      /\ pc' = [pc EXCEPT ![r] = "done"]
      /\ UNCHANGED <<cost, acquired, wake>>
  BY DEF Release, Goto
<1>1. Shape'
  BY <1>0 DEF IInv, TypeOK, Shape
<1>2. pc' \in [Requests -> Places]
  BY <1>0 DEF IInv, TypeOK, Places
<1>3. cost[r] \in Nat /\ quota.used \in Nat /\ today \in Traffic
  BY DailyAssumption DEF IInv, TypeOK, Traffic
<1>4. Cardinality(UnitsOf(OpenToday, cost)) \in Nat
  BY FS_CardinalityType DEF IInv
<1>5. CASE r \notin acquired \ released
  <2>1. UNCHANGED <<quota, carried, today>>
    BY <1>5 DEF Release, history
  <2>2. OpenToday' = OpenToday
    BY <1>0, <1>5, <2>1 DEF OpenToday
  <2> QED BY <1>0, <1>1, <1>2, <2>1, <2>2 DEF IInv, TypeOK
<1>6. CASE r \in acquired \ released
  <2>1. quota' = [quota EXCEPT !.used = Larger(0, @ - cost[r] + a)]
    BY <1>6 DEF Release, Settle
  <2>2. /\ quota'.used = Larger(0, quota.used - cost[r] + a)
        /\ quota' \in [used : Nat, untilReset : -DayTicks..DayTicks]
    BY <2>1, <1>3 DEF IInv, TypeOK, Larger
  <2>3. HistoryOfSettle(r, a)
    BY <1>6 DEF Release
  <2>4. CASE r \in carried
    <3>1. /\ carried' = carried
          /\ today' = [today EXCEPT !.in = @ + Positive(a - cost[r]),
                                    !.out = @ + Positive(cost[r] - a)]
      BY <2>3, <2>4 DEF HistoryOfSettle
    <3>2. OpenToday' = OpenToday
      BY <1>0, <2>4, <3>1 DEF OpenToday
    <3>3. Accounted(Larger(0, quota.used - cost[r] + a),
                    Cardinality(UnitsOf(OpenToday, cost)),
                    [today EXCEPT !.in = @ + Positive(a - cost[r]),
                                  !.out = @ + Positive(cost[r] - a)])
      BY <1>3, <1>4, SettleCarried DEF IInv
    <3>4. Accounted(quota'.used, Cardinality(UnitsOf(OpenToday', cost')), today')
      BY <1>0, <2>2, <3>1, <3>2, <3>3
    <3>5. Positive(a - cost[r]) \in Nat /\ Positive(cost[r] - a) \in Nat
      BY <1>3 DEF Positive
    <3>6. today' \in Traffic
      BY <1>3, <3>1, <3>5, TrafficGrows
    <3>7. IsFiniteSet(UnitsOf(OpenToday', cost'))
      BY <1>0, <3>2 DEF IInv
    <3> QED BY <1>0, <1>1, <1>2, <2>2, <3>1, <3>4, <3>6, <3>7 DEF IInv, TypeOK, Traffic
  <2>5. CASE r \notin carried
    <3>1. /\ carried' = carried
          /\ today' = [today EXCEPT !.spent = @ + a,
                                    !.excess = @ + Positive(a - cost[r])]
      BY <2>3, <2>5 DEF HistoryOfSettle
    <3>2. OpenToday' = OpenToday \ {r} /\ r \in OpenToday
      BY <1>0, <1>6, <2>5, <3>1 DEF OpenToday
    <3>3. /\ IsFiniteSet(UnitsOf(OpenToday \ {r}, cost))
          /\ Cardinality(UnitsOf(OpenToday \ {r}, cost)) \in Nat
          /\ Cardinality(UnitsOf(OpenToday, cost)) =
               Cardinality(UnitsOf(OpenToday \ {r}, cost)) + cost[r]
      BY <1>3, <3>2, UnitsRemove DEF IInv
    <3>4. Accounted(Larger(0, quota.used - cost[r] + a),
                    Cardinality(UnitsOf(OpenToday \ {r}, cost)),
                    [today EXCEPT !.spent = @ + a,
                                  !.excess = @ + Positive(a - cost[r])])
      BY <1>3, <3>3, SettleToday DEF IInv
    <3>5. Accounted(quota'.used, Cardinality(UnitsOf(OpenToday', cost')), today')
      BY <1>0, <2>2, <3>1, <3>2, <3>4
    <3>6. Positive(a - cost[r]) \in Nat
      BY <1>3 DEF Positive
    <3>7. today' \in Traffic
      BY <1>3, <3>1, <3>6, TrafficGrows
    <3>8. IsFiniteSet(UnitsOf(OpenToday', cost'))
      BY <1>0, <3>2, <3>3
    <3> QED BY <1>0, <1>1, <1>2, <2>2, <3>1, <3>5, <3>7, <3>8 DEF IInv, TypeOK, Traffic
  <2> QED BY <2>4, <2>5
<1> QED BY <1>5, <1>6

-----------------------------------------------------------------------------
(* Every step keeps the invariant                                          *)

\* The account of a state whose quota, costs and reservations do not change.
LEMMA AccountKept ==
  ASSUME IInv, UNCHANGED <<quota, cost, acquired, released, history>>
  PROVE  /\ IsFiniteSet(UnitsOf(OpenToday', cost'))
         /\ Accounted(quota'.used, Cardinality(UnitsOf(OpenToday', cost')), today')
<1>1. OpenToday' = OpenToday
  BY DEF OpenToday, history
<1> QED BY <1>1 DEF IInv, history

LEMMA InitIInv == Init => IInv
<1> SUFFICES ASSUME Init PROVE IInv
  OBVIOUS
<1>1. TypeOK
  BY DailyAssumption DEF Init, TypeOK, NewQuota, NoTraffic, Places
<1>2. Shape
  BY DEF Init, Shape
<1>3. OpenToday = {}
  BY DEF Init, OpenToday
<1>4. quota.used = 0 /\ today = NoTraffic
  BY DEF Init, NewQuota
<1>5. Accounted(0, 0, NoTraffic)
  BY DailyAssumption DEF Accounted, NoTraffic
<1> QED BY <1>1, <1>2, <1>3, <1>4, <1>5, UnitsOfNone DEF IInv

LEMMA ProbeStep == ASSUME IInv, Probe PROVE IInv'
<1>1. UNCHANGED <<cost, acquired, released>> /\ quota' = Flushed /\ HistoryOfFlush
  BY DEF Probe
<1>2. TypeOK'
  BY <1>1, FlushStep DEF IInv, TypeOK, Probe, Traffic
<1>3. Shape'
  BY DEF IInv, Shape, Probe
<1> QED BY <1>1, <1>2, <1>3, FlushStep DEF IInv

LEMMA ReserveStep == ASSUME IInv, NEW r \in Requests, Reserve(r) PROVE IInv'
<1>1. PICK c \in Costs : /\ c <= Limit
                         /\ cost' = [cost EXCEPT ![r] = c]
                         /\ ChargeOrNot(r, c)
  BY DEF Reserve
<1>2. c \in 0..Limit
  BY <1>1, DailyAssumption
<1>3. r \notin acquired /\ r \notin released
  BY DEF IInv, Shape, Reserve
<1>4. /\ HistoryOfFlush /\ UNCHANGED <<released, wake>>
      /\ pc' = [pc EXCEPT ![r] = "reserved"]
  BY DEF Reserve, Goto
<1>5. /\ quota' \in [used : Nat, untilReset : -DayTicks..DayTicks]
      /\ acquired' \subseteq Requests
      /\ acquired' \subseteq acquired \union {r}
      /\ carried' \subseteq acquired'
      /\ today' \in Traffic
      /\ IsFiniteSet(UnitsOf(OpenToday', cost'))
      /\ Accounted(quota'.used, Cardinality(UnitsOf(OpenToday', cost')), today')
  BY <1>1, <1>2, <1>3, <1>4, ChargeStep
<1>6. TypeOK'
  BY <1>1, <1>2, <1>4, <1>5 DEF IInv, TypeOK, Places, Traffic
<1>7. Shape'
  BY <1>3, <1>4, <1>5 DEF IInv, TypeOK, Shape
<1> QED BY <1>5, <1>6, <1>7 DEF IInv

LEMMA CheckDelayStep == ASSUME IInv, NEW r \in Requests, CheckDelay(r) PROVE IInv'
<1>1. /\ pc[r] = "reserved"
      /\ UNCHANGED <<cost, acquired, released, wake>>
      /\ pc' = [pc EXCEPT ![r] = "waiting"] \/ pc' = [pc EXCEPT ![r] = "running"]
  BY DEF CheckDelay, Goto
<1>2. /\ quota' \in [used : Nat, untilReset : -DayTicks..DayTicks]
      /\ carried' \subseteq acquired'
      /\ today' \in Traffic
      /\ IsFiniteSet(UnitsOf(OpenToday', cost'))
      /\ Accounted(quota'.used, Cardinality(UnitsOf(OpenToday', cost')), today')
  <2>1. CASE r \in acquired
    <3>1. UNCHANGED <<quota, history>>
      BY <2>1 DEF CheckDelay
    <3> QED BY <1>1, <3>1, AccountKept DEF IInv, TypeOK, Traffic, history
  <2>2. CASE r \notin acquired
    <3>1. quota' = Flushed /\ HistoryOfFlush
      BY <2>2 DEF CheckDelay
    <3> QED BY <1>1, <3>1, FlushStep
  <2> QED BY <2>1, <2>2
<1>3. TypeOK'
  BY <1>1, <1>2 DEF IInv, TypeOK, Places, Traffic
<1>4. Shape'
  BY <1>1 DEF IInv, TypeOK, Shape
<1> QED BY <1>2, <1>3, <1>4 DEF IInv

LEMMA WaitTurnStep == ASSUME IInv, NEW r \in Requests, WaitTurn(r) PROVE IInv'
<1>1. pc[r] = "waiting" /\ UNCHANGED <<cost, released>>
  BY DEF WaitTurn
<1>2. CASE r \in acquired
  <2>1. /\ pc' = [pc EXCEPT ![r] = "running"]
        /\ UNCHANGED <<quota, acquired, wake, history>>
    BY <1>2 DEF WaitTurn, Goto
  <2>2. TypeOK'
    BY <1>1, <2>1 DEF IInv, TypeOK, Places, history
  <2>3. Shape'
    BY <1>1, <2>1 DEF IInv, TypeOK, Shape
  <2> QED BY <1>1, <2>1, <2>2, <2>3, AccountKept DEF IInv
<1>3. CASE r \notin acquired
  <2>1. /\ ChargeOrNot(r, cost[r])
        /\ HistoryOfFlush
        /\ \/ pc' = [pc EXCEPT ![r] = "running"] /\ UNCHANGED wake
           \/ /\ pc' = [pc EXCEPT ![r] = "sleeping"]
              /\ wake' = [wake EXCEPT ![r] = Flushed.untilReset]
    BY <1>3 DEF WaitTurn, Goto, SleepTime
  <2>2. r \notin released /\ cost[r] \in 0..Limit
    BY <1>1 DEF IInv, TypeOK, Shape
  <2>3. cost' = [cost EXCEPT ![r] = cost[r]]
    BY <1>1 DEF IInv, TypeOK
  <2>4. /\ quota' \in [used : Nat, untilReset : -DayTicks..DayTicks]
        /\ acquired' \subseteq Requests
        /\ acquired' \subseteq acquired \union {r}
        /\ carried' \subseteq acquired'
        /\ today' \in Traffic
        /\ IsFiniteSet(UnitsOf(OpenToday', cost'))
        /\ Accounted(quota'.used, Cardinality(UnitsOf(OpenToday', cost')), today')
    BY <1>1, <1>3, <2>1, <2>2, <2>3, ChargeStep
  <2>5. Flushed.untilReset \in 0..DayTicks
    BY FlushType, DailyAssumption DEF IInv
  <2>6. TypeOK'
    BY <1>1, <2>1, <2>4, <2>5 DEF IInv, TypeOK, Places, Traffic
  <2>7. Shape'
    BY <1>1, <2>1, <2>4 DEF IInv, TypeOK, Shape
  <2> QED BY <2>4, <2>6, <2>7 DEF IInv
<1> QED BY <1>2, <1>3

\* The steps of a request that touch neither the quota nor its reservation.
LEMMA MoveStep ==
  ASSUME IInv, NEW r \in Requests, RejectOversized(r) \/ TimerFires(r) \/ ContextDone(r)
  PROVE  IInv'
<1>1. /\ UNCHANGED <<quota, cost, acquired, released, history>>
      /\ \E p \in Places \ {"idle", "done"} : pc' = [pc EXCEPT ![r] = p]
      /\ wake' = wake \/ wake' = [wake EXCEPT ![r] = 0]
      /\ pc[r] # "done"
  BY DEF RejectOversized, TimerFires, ContextDone, Goto, Places
<1>2. TypeOK'
  BY <1>1, DailyAssumption DEF IInv, TypeOK, history
<1>3. Shape'
  BY <1>1 DEF IInv, TypeOK, Shape
<1> QED BY <1>1, <1>2, <1>3, AccountKept DEF IInv

LEMMA TickStep == ASSUME IInv, Tick PROVE IInv'
<1>1. UNCHANGED <<pc, cost, acquired, released, history>>
  BY DEF Tick
<1>2. /\ quota' \in [used : Nat, untilReset : -DayTicks..DayTicks]
      /\ quota'.used = quota.used
  BY DailyAssumption DEF Tick, QuotaTick, IInv, TypeOK
<1>3. wake' \in [Requests -> 0..DayTicks]
  BY DailyAssumption DEF Tick, Positive, IInv, TypeOK
<1>4. TypeOK'
  BY <1>1, <1>2, <1>3 DEF IInv, TypeOK, history
<1>5. Shape'
  BY <1>1 DEF IInv, Shape
<1>6. OpenToday' = OpenToday
  BY <1>1 DEF OpenToday, history
<1> QED BY <1>1, <1>2, <1>4, <1>5, <1>6 DEF IInv, history

\* The actions that end a reservation are releases of a natural amount.
LEMMA EndStep ==
  ASSUME IInv, NEW r \in Requests,
         Cancel(r) \/ Complete(r) \/ CompleteWithActual(r)
  PROVE  IInv'
<1>1. CASE Cancel(r)
  BY <1>1, ReleaseStep DEF Cancel
<1>2. CASE Complete(r)
  <2>1. cost[r] \in Nat
    BY DailyAssumption DEF IInv, TypeOK
  <2> QED BY <1>2, <2>1, ReleaseStep DEF Complete
<1>3. CASE CompleteWithActual(r)
  <2>1. PICK a \in Actuals : Release(r, a)
    BY <1>3 DEF CompleteWithActual
  <2> QED BY <1>3, <2>1, ReleaseStep, DailyAssumption DEF CompleteWithActual
<1> QED BY <1>1, <1>2, <1>3

LEMMA NextIInv == IInv /\ [Next]_vars => IInv'
<1> SUFFICES ASSUME IInv, [Next]_vars PROVE IInv'
  OBVIOUS
<1>1. CASE Probe
  BY <1>1, ProbeStep
<1>2. CASE Tick
  BY <1>2, TickStep
<1>3. ASSUME NEW r \in Requests,
             RejectOversized(r) \/ TimerFires(r) \/ ContextDone(r)
      PROVE  IInv'
  BY <1>3, MoveStep
<1>4. ASSUME NEW r \in Requests, Reserve(r) PROVE IInv'
  BY <1>4, ReserveStep
<1>5. ASSUME NEW r \in Requests, CheckDelay(r) PROVE IInv'
  BY <1>5, CheckDelayStep
<1>6. ASSUME NEW r \in Requests, WaitTurn(r) PROVE IInv'
  BY <1>6, WaitTurnStep
<1>7. ASSUME NEW r \in Requests,
             Cancel(r) \/ Complete(r) \/ CompleteWithActual(r)
      PROVE  IInv'
  BY <1>7, EndStep
<1>8. CASE UNCHANGED vars
  <2>1. UNCHANGED <<quota, pc, cost, acquired, released, wake, history>>
    BY <1>8 DEF vars, state
  <2>2. TypeOK' /\ Shape'
    BY <2>1 DEF IInv, TypeOK, Shape, history
  <2> QED BY <2>1, <2>2, AccountKept DEF IInv
<1> QED BY <1>1, <1>2, <1>3, <1>4, <1>5, <1>6, <1>7, <1>8 DEF Next

LEMMA Invariance == Spec => []IInv
BY InitIInv, NextIInv, PTL DEF Spec

-----------------------------------------------------------------------------
(* Theorems                                                                *)

LEMMA HeldIsCounted == Held = Cardinality(UnitsOf(OpenToday, cost))
BY DEF Held, Units, UnitsOf, OpenToday

\* The state of a daily limiter has its type: a counter that settlements and
\* refunds never take below zero, a reset at most a day away, and a history
\* about acquired reservations only.
THEOREM TypeCorrect == Spec => []TypeOK
<1>1. IInv => TypeOK
  BY DEF IInv
<1> QED BY <1>1, Invariance, PTL

\* Calls of Reserve, Wait, Cancel, Complete and CompleteWithActual, in any
\* order the router makes them and with midnight between any two, keep the
\* account: a charge is neither lost, nor counted twice, nor refunded twice.
THEOREM AccountCorrect == Spec => []QuotaAccounted
<1>1. IInv => QuotaAccounted
  <2> SUFFICES ASSUME IInv PROVE QuotaAccounted
    OBVIOUS
  <2>1. Accounted(quota.used, Held, today)
    BY HeldIsCounted DEF IInv
  <2> QED BY <2>1 DEF Accounted, QuotaAccounted
<1> QED BY <1>1, Invariance, PTL

\* Reserve and Wait never admit past the limit: what the counter has above it
\* was put there by settlements that cost more than their estimates.
THEOREM AdmissionCorrect == Spec => []AdmissionBounded
<1>1. IInv => AdmissionBounded
  BY DEF IInv, Accounted, AdmissionBounded
<1> QED BY <1>1, Invariance, PTL

\* The units held and spent in a day exceed the limit only in the two ways
\* the code has: settlements above the estimate, refunds of an earlier day.
THEOREM DailyLimitCorrect == Spec => []DailyLimit
<1>1. IInv => DailyLimit
  <2> SUFFICES ASSUME IInv PROVE DailyLimit
    OBVIOUS
  <2>1. Accounted(quota.used, Held, today)
    BY HeldIsCounted DEF IInv
  <2>2. Held \in Nat
    BY HeldIsCounted, FS_CardinalityType DEF IInv
  <2>3. /\ quota.used \in Nat /\ today.spent \in Nat /\ today.excess \in Nat
        /\ today.in \in Nat /\ today.out \in Nat
    BY DEF IInv, TypeOK
  <2> QED BY <2>1, <2>2, <2>3, DailyAssumption DEF Accounted, DailyLimit
<1> QED BY <1>1, Invariance, PTL

-----------------------------------------------------------------------------
(* Sleeping                                                                *)

LEMMA WakeStep == IInv /\ WakesByReset /\ [Next]_vars => WakesByReset'
<1> SUFFICES ASSUME IInv, WakesByReset, [Next]_vars PROVE WakesByReset'
  OBVIOUS
<1> USE DEF WakesByReset
<1>0. /\ quota.untilReset \in Int
      /\ pc \in [Requests -> Places]
      /\ wake \in [Requests -> Nat]
  BY DailyAssumption DEF IInv, TypeOK
<1>a. /\ Flushed.untilReset \in Nat
      /\ Flushed.untilReset >= Positive(quota.untilReset)
  <2>1. Flushed.untilReset \in Nat
    BY FlushType, DailyAssumption DEF IInv
  <2>2. CASE Expired(quota)
    BY <1>0, <2>1, <2>2 DEF Expired, Positive
  <2>3. CASE ~Expired(quota)
    BY <1>0, <2>1, <2>3 DEF Flushed, Flush, Positive, Expired
  <2> QED BY <2>1, <2>2, <2>3
<1>b. ASSUME quota'.untilReset = quota.untilReset \/ quota' = Flushed,
             \A r \in Requests : pc'[r] = "sleeping" => pc[r] = "sleeping",
             \A r \in Requests : pc'[r] = "sleeping" => wake'[r] = wake[r]
      PROVE  WakesByReset'
  BY <1>0, <1>a, <1>b DEF Positive
<1>c. ASSUME NEW r \in Requests, NEW c, ChargeOrNot(r, c)
      PROVE  quota'.untilReset = Flushed.untilReset
  <2>1. Flushed \in [used : Nat, untilReset : -DayTicks..DayTicks]
    BY FlushType DEF IInv
  <2> QED BY <1>c, <2>1 DEF ChargeOrNot, Take
<1>1. CASE Probe
  BY <1>1, <1>b DEF Probe
<1>2. CASE Tick
  <2>1. pc' = pc /\ wake' = [r \in Requests |-> Positive(wake[r] - 1)]
    BY <1>2 DEF Tick
  <2>2. quota'.untilReset = IF quota.untilReset = -DayTicks THEN -1
                            ELSE quota.untilReset - 1
    BY <1>2 DEF Tick, QuotaTick, IInv, TypeOK
  <2> QED BY <1>0, <2>1, <2>2, DailyAssumption DEF Positive
<1>3. ASSUME NEW r \in Requests, RejectOversized(r) \/ TimerFires(r) \/ ContextDone(r)
      PROVE  WakesByReset'
  BY <1>0, <1>3, <1>b DEF RejectOversized, TimerFires, ContextDone, Goto
<1>4. ASSUME NEW r \in Requests, Reserve(r) PROVE WakesByReset'
  BY <1>0, <1>4, <1>a, <1>c DEF Reserve, Goto, Positive
<1>5. ASSUME NEW r \in Requests, CheckDelay(r) PROVE WakesByReset'
  BY <1>0, <1>5, <1>b DEF CheckDelay, Goto
<1>6. ASSUME NEW r \in Requests, WaitTurn(r) PROVE WakesByReset'
  <2>1. CASE r \in acquired
    BY <1>0, <1>6, <1>b, <2>1 DEF WaitTurn, Goto
  <2>2. CASE r \notin acquired
    <3>1. quota'.untilReset = Flushed.untilReset
      BY <1>6, <1>c, <2>2 DEF WaitTurn
    <3> QED BY <1>0, <1>6, <1>a, <2>2, <3>1 DEF WaitTurn, Goto, SleepTime, Positive
  <2> QED BY <2>1, <2>2
<1>7. ASSUME NEW r \in Requests, NEW a, Release(r, a) PROVE WakesByReset'
  <2>1. quota'.untilReset = quota.untilReset
    BY <1>7 DEF Release, Settle, IInv, TypeOK
  <2> QED BY <1>0, <1>7, <1>b, <2>1 DEF Release, Goto
<1>8. CASE UNCHANGED vars
  BY <1>8, <1>b DEF vars, state
<1> QED
  BY <1>1, <1>2, <1>3, <1>4, <1>5, <1>6, <1>7, <1>8
  DEF Next, Cancel, Complete, CompleteWithActual

\* A Wait that sleeps is due no later than the reset it sleeps for, whoever
\* flushes the quota or settles a reservation meanwhile.
THEOREM WakeCorrect == Spec => []WakesByReset
<1>1. Init => WakesByReset
  BY DEF Init, WakesByReset
<1> QED BY <1>1, WakeStep, Invariance, PTL DEF Spec

=============================================================================
