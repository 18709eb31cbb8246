---------------------- MODULE ConcurrencyLimiterProofs ----------------------
(***************************************************************************)
(* The safety properties of ConcurrencyLimiter, for every number of        *)
(* goroutines, limit, initial estimate and set of observed waits.          *)
(*                                                                         *)
(* A release hands slots to as many waiters as it frees slots for, so the  *)
(* proof needs the queue never to hold a goroutine twice (Distinct).       *)
(***************************************************************************)
EXTENDS ConcurrencyLimiter, LimiterProofs

Semaphore == SemaphoreOf(Limit, Requests)

-----------------------------------------------------------------------------
(* The estimate                                                            *)

Supported(e) ==
  /\ \E w \in WaitTimes \union {DefaultDelay} : w <= e
  /\ \E w \in WaitTimes \union {DefaultDelay} : e <= w

\* A smoothed wait lies between the two it is made of, and is not 0.
LEMMA SmoothedFacts ==
  ASSUME NEW observed \in WaitTimes, NEW old \in Nat, Supported(old)
  PROVE  Smoothed(observed, old) \in Nat /\ Supported(Smoothed(observed, old))
<1> DEFINE e == Smoothed(observed, old)
<1>1. observed \in Nat /\ WaitTimes \union {DefaultDelay} \subseteq Nat
  BY ConcurrencyAssumption
<1>2. /\ e \in Nat
      /\ observed <= e \/ old <= e
      /\ e <= observed \/ e <= old
  BY <1>1 DEF Smoothed
<1> HIDE DEF e
<1>3. Supported(e)
  BY <1>1, <1>2 DEF Supported
<1> QED BY <1>2, <1>3 DEF e

LEMMA SupportedPositive ==
  ASSUME NEW e \in Nat, Supported(e)
  PROVE  e # 0
BY ConcurrencyAssumption DEF Supported

-----------------------------------------------------------------------------
(* The inductive invariant                                                 *)

Holding == {"probing", "granted", "recording", "storing"}

\* The queue holds the goroutines that wait in it, each once.
QueueInv ==
  /\ Distinct(sem.queue)
  /\ \A r \in Requests : pc[r] = "queued" <=> r \in Members(sem.queue)

\* A goroutine whose reservation has a slot holds no other one.
HolderInv ==
  /\ \A r \in acquired : pc[r] \in {"reserved", "waiting", "running"}
  /\ \A r \in Requests : pc[r] = "running" => r \in acquired
  /\ IsFiniteSet(Holders)
  /\ SlotsConserved

\* So is every estimate that a goroutine has read and not yet stored.
EstimateInv ==
  /\ Supported(estimate)
  /\ \A r \in Requests : pc[r] = "storing" => Supported(loaded[r])

IInv == TypeOK /\ QueueInv /\ HolderInv /\ EstimateInv

\* A goroutine outside the queue moves, and stays outside.
LEMMA QueueKept ==
  ASSUME QueueInv, NEW r \in Requests, sem'.queue = sem.queue,
         pc[r] # "queued", pc'[r] # "queued",
         \A q \in Requests \ {r} : pc'[q] = pc[q]
  PROVE  QueueInv'
<1>1. Members(sem.queue)' = Members(sem.queue)
  BY DEF Members
<1>2. Distinct(sem.queue)'
  BY DEF QueueInv, Distinct
<1>3. \A q \in Requests : pc'[q] = "queued" <=> pc[q] = "queued"
  OBVIOUS
<1> QED BY <1>1, <1>2, <1>3 DEF QueueInv

LEMMA InitIInv == Init => IInv
<1> SUFFICES ASSUME Init PROVE IInv
  OBVIOUS
<1>1. TypeOK
  BY ConcurrencyAssumption DEF Init, TypeOK, NewSemaphore, Places
<1>2. QueueInv
  <2>1. Members(sem.queue) = {}
    BY DEF Init, NewSemaphore, Members
  <2>2. Distinct(sem.queue)
    BY DEF Init, NewSemaphore, Distinct
  <2> QED BY <2>1, <2>2 DEF Init, QueueInv
<1>3. HolderInv
  <2>1. Holders = {}
    BY DEF Init, Holders
  <2> QED BY <2>1, FS_EmptySet DEF Init, NewSemaphore, HolderInv, SlotsConserved
<1>4. EstimateInv
  BY ConcurrencyAssumption DEF Init, EstimateInv, Supported
<1> QED BY <1>1, <1>2, <1>3, <1>4 DEF IInv

\* The steps that leave the semaphore alone and move no slot.
LEMMA MoveStep ==
  ASSUME IInv, NEW r \in Requests,
         \/ NotChosen(r) \/ CheckDelay(r) \/ WaitAcquired(r)
         \/ AcquireTooLate(r) \/ GrantTaken(r) \/ RecordLoads(r)
  PROVE  IInv'
<1> USE DEF NotChosen, CheckDelay, WaitAcquired, AcquireTooLate, GrantTaken,
            RecordLoads
<1>1. /\ UNCHANGED <<sem, estimate, acquired>>
      /\ \E p \in Places : pc' = [pc EXCEPT ![r] = p]
      /\ loaded' = loaded \/ loaded' = [loaded EXCEPT ![r] = estimate]
  BY DEF Goto, Places
<1>2. TypeOK'
  BY <1>1 DEF IInv, TypeOK
<1>3. QueueInv'
  <2>1. /\ pc[r] # "queued" /\ pc'[r] # "queued"
        /\ \A q \in Requests \ {r} : pc'[q] = pc[q]
    BY DEF Goto, IInv, TypeOK
  <2> QED BY <1>1, <2>1, QueueKept DEF IInv
<1>4. HolderInv'
  <2>1. Holders' = Holders
    BY DEF Holders, Goto, IInv, TypeOK
  <2>2. estimate # 0
    BY SupportedPositive DEF IInv, EstimateInv, TypeOK
  <2>3. (\A q \in acquired : pc[q] \in {"reserved", "waiting", "running"})'
    BY <1>1 DEF Goto, IInv, TypeOK, HolderInv
  <2>4. (\A q \in Requests : pc[q] = "running" => q \in acquired)'
    BY <1>1, <2>2 DEF Goto, IInv, TypeOK, HolderInv
  <2> QED BY <1>1, <2>1, <2>3, <2>4 DEF IInv, HolderInv, SlotsConserved
<1>5. EstimateInv'
  <2>1. Supported(estimate)'
    BY <1>1 DEF IInv, EstimateInv, Supported
  <2> SUFFICES ASSUME NEW q \in Requests, pc'[q] = "storing"
               PROVE  Supported(loaded'[q])
    BY <2>1 DEF EstimateInv, Supported
  <2>2. CASE RecordLoads(r)
    BY <2>2 DEF Goto, IInv, TypeOK, EstimateInv
  <2>3. CASE ~RecordLoads(r)
    BY <2>3 DEF Goto, IInv, TypeOK, EstimateInv
  <2> QED BY <2>2, <2>3
<1> QED BY <1>2, <1>3, <1>4, <1>5 DEF IInv

\* RecordStores: every wait it may observe is evidence.
LEMMA StoreStep ==
  ASSUME IInv, NEW r \in Requests, RecordStores(r)
  PROVE  IInv'
<1>1. /\ pc[r] = "storing"
      /\ UNCHANGED sem
      /\ pc' = [pc EXCEPT ![r] = "running"]
      /\ loaded' = [loaded EXCEPT ![r] = 0]
      /\ acquired' = acquired \union {r}
  BY DEF RecordStores, Goto
<1>2. PICK observed \in WaitTimes : estimate' = Smoothed(observed, loaded[r])
  BY DEF RecordStores
<1>3. loaded[r] \in Nat /\ Supported(loaded[r])
  BY <1>1 DEF IInv, TypeOK, EstimateInv
<1>4. estimate' \in Nat /\ Supported(estimate')
  BY <1>2, <1>3, SmoothedFacts
<1>5. TypeOK'
  BY <1>1, <1>4 DEF IInv, TypeOK, Places
<1>6. QueueInv'
  <2>1. /\ pc[r] # "queued" /\ pc'[r] # "queued"
        /\ \A q \in Requests \ {r} : pc'[q] = pc[q]
    BY <1>1 DEF IInv, TypeOK
  <2> QED BY <1>1, <2>1, QueueKept DEF IInv
<1>7. HolderInv'
  <2>1. Holders' = Holders
    BY <1>1 DEF Holders, IInv, TypeOK
  <2>2. (\A q \in acquired : pc[q] \in {"reserved", "waiting", "running"})'
    BY <1>1 DEF IInv, TypeOK, HolderInv
  <2>3. (\A q \in Requests : pc[q] = "running" => q \in acquired)'
    BY <1>1 DEF IInv, TypeOK, HolderInv
  <2> QED BY <1>1, <2>1, <2>2, <2>3 DEF IInv, HolderInv, SlotsConserved
<1>8. EstimateInv'
  <2>1. \A q \in Requests : pc'[q] = "storing" => q # r /\ pc[q] = "storing"
                                                  /\ loaded'[q] = loaded[q]
    BY <1>1 DEF IInv, TypeOK
  <2> QED BY <1>4, <2>1 DEF IInv, EstimateInv, Supported
<1> QED BY <1>5, <1>6, <1>7, <1>8 DEF IInv

\* The steps that find room and take a slot.
LEMMA TakeStep ==
  ASSUME IInv, NEW r \in Requests, HasRoom(sem, Limit),
         sem' = AcquireSlot(sem), UNCHANGED <<estimate, loaded>>,
         \/ /\ pc[r] = "idle"
            /\ Goto(r, "probing") /\ UNCHANGED acquired
         \/ /\ pc[r] = "probed"
            /\ Goto(r, "reserved") /\ acquired' = acquired \union {r}
         \/ /\ pc[r] = "waiting" /\ r \notin acquired
            /\ Goto(r, "recording") /\ UNCHANGED acquired
  PROVE  IInv'
<1> USE DEF Goto
<1>1. /\ sem.cur \in Nat /\ sem.cur < Limit
      /\ sem' = [cur |-> sem.cur + 1, queue |-> sem.queue]
  BY ConcurrencyAssumption DEF IInv, TypeOK, HasRoom, AcquireSlot
<1>2. TypeOK'
  <2>1. sem' \in [cur : 0..Limit, queue : Seq(Requests)]
    BY <1>1, ConcurrencyAssumption DEF IInv, TypeOK
  <2> QED BY <2>1 DEF IInv, TypeOK, Places
<1>3. QueueInv'
  <2>1. /\ pc[r] # "queued" /\ pc'[r] # "queued"
        /\ \A q \in Requests \ {r} : pc'[q] = pc[q]
    BY DEF IInv, TypeOK
  <2> QED BY <1>1, <2>1, QueueKept DEF IInv
<1>4. HolderInv'
  <2>1. r \notin Holders
    BY DEF Holders, IInv, HolderInv
  <2>2. Holders' = Holders \union {r}
    BY DEF Holders, IInv, TypeOK
  <2>3. IsFiniteSet(Holders') /\ Cardinality(Holders') = Cardinality(Holders) + 1
    BY <2>1, <2>2, FS_AddElement DEF IInv, HolderInv
  <2>4. (\A q \in acquired : pc[q] \in {"reserved", "waiting", "running"})'
    BY DEF IInv, TypeOK, HolderInv
  <2>5. (\A q \in Requests : pc[q] = "running" => q \in acquired)'
    BY DEF IInv, TypeOK, HolderInv
  <2>6. SlotsConserved'
    BY <1>1, <2>3 DEF IInv, HolderInv, SlotsConserved
  <2> QED BY <2>3, <2>4, <2>5, <2>6 DEF HolderInv
<1>5. EstimateInv'
  BY DEF IInv, TypeOK, EstimateInv, Supported
<1> QED BY <1>2, <1>3, <1>4, <1>5 DEF IInv

\* Reserve and ProbeTakes without room: only the goroutine moves.
LEMMA NoRoomStep ==
  ASSUME IInv, NEW r \in Requests,
         UNCHANGED <<sem, estimate, acquired, loaded>>,
         \/ pc[r] = "idle" /\ Goto(r, "probed")
         \/ pc[r] = "probed" /\ Goto(r, "reserved")
         \/ /\ pc[r] \in {"reserved", "failed", "running"}
            /\ r \notin acquired /\ Goto(r, "idle")
  PROVE  IInv'
<1> USE DEF Goto
<1>1. TypeOK'
  BY DEF IInv, TypeOK, Places
<1>2. QueueInv'
  <2>1. /\ pc[r] # "queued" /\ pc'[r] # "queued"
        /\ \A q \in Requests \ {r} : pc'[q] = pc[q]
    BY DEF IInv, TypeOK
  <2> QED BY <2>1, QueueKept DEF IInv
<1>3. HolderInv'
  <2>1. Holders' = Holders
    BY DEF Holders, IInv, TypeOK
  <2>2. (\A q \in acquired : pc[q] \in {"reserved", "waiting", "running"})'
    BY DEF IInv, TypeOK, HolderInv
  <2>3. (\A q \in Requests : pc[q] = "running" => q \in acquired)'
    BY DEF IInv, TypeOK, HolderInv
  <2> QED BY <2>1, <2>2, <2>3 DEF IInv, HolderInv, SlotsConserved
<1>4. EstimateInv'
  BY DEF IInv, TypeOK, EstimateInv, Supported
<1> QED BY <1>1, <1>2, <1>3, <1>4 DEF IInv

\* AcquireStarts without room: the goroutine joins the queue.
LEMMA QueueStep ==
  ASSUME IInv, NEW r \in Requests, pc[r] = "waiting", r \notin acquired,
         sem' = Enqueue(sem, r), Goto(r, "queued"),
         UNCHANGED <<estimate, acquired, loaded>>
  PROVE  IInv'
<1> USE DEF Goto
<1>1. sem \in Semaphore /\ Members(sem.queue) \subseteq Requests
  BY MembersType, ConcurrencyAssumption DEF IInv, TypeOK, Semaphore, SemaphoreOf
<1>2. Distinct(sem.queue) /\ r \notin Members(sem.queue)
  BY DEF IInv, QueueInv
<1>3. /\ sem' \in Semaphore /\ sem'.cur = sem.cur /\ Distinct(sem'.queue)
      /\ Members(sem'.queue) = Members(sem.queue) \union {r}
  BY <1>1, <1>2, EnqueueFacts, ConcurrencyAssumption DEF Semaphore
<1>4. TypeOK'
  BY <1>3 DEF IInv, TypeOK, Places, Semaphore, SemaphoreOf
<1>5. QueueInv'
  <2>1. \A q \in Requests : pc'[q] = "queued" <=> q \in Members(sem'.queue)
    BY <1>1, <1>3 DEF IInv, QueueInv, TypeOK
  <2>2. Distinct(sem.queue)' /\ Members(sem.queue)' = Members(sem'.queue)
    BY <1>3 DEF Distinct, Members
  <2> QED BY <2>1, <2>2 DEF QueueInv
<1>6. HolderInv'
  <2>1. Holders' = Holders
    BY DEF Holders, IInv, TypeOK
  <2>2. (\A q \in acquired : pc[q] \in {"reserved", "waiting", "running"})'
    BY DEF IInv, TypeOK, HolderInv
  <2>3. (\A q \in Requests : pc[q] = "running" => q \in acquired)'
    BY DEF IInv, TypeOK, HolderInv
  <2> QED BY <1>3, <2>1, <2>2, <2>3 DEF IInv, HolderInv, SlotsConserved
<1>7. EstimateInv'
  BY DEF IInv, TypeOK, EstimateInv, Supported
<1> QED BY <1>4, <1>5, <1>6, <1>7 DEF IInv

-----------------------------------------------------------------------------
(* Slots that are handed on                                                *)

\* r leaves for place, with its slot or its place in the queue, and the slots
\* that are free in s, the semaphore without r, go to its waiters.
LEMMA HandOver ==
  ASSUME IInv, NEW r \in Requests, NEW s \in Semaphore,
         NEW place \in {"probed", "failed", "idle"},
         Distinct(s.queue), Members(s.queue) = Members(sem.queue) \ {r},
         s.cur = Cardinality(Holders \ {r}),
         sem' = Notify(s, Limit),
         pc' = [q \in Requests |->
                  IF q = r THEN place
                  ELSE IF q \in Granted(s, Limit) THEN "granted"
                  ELSE pc[q]],
         acquired' = acquired \ {r}, UNCHANGED <<estimate, loaded>>
  PROVE  IInv'
<1> DEFINE G == Granted(s, Limit)
<1> DEFINE H == Holders \ {r}
<1>1. /\ sem' \in Semaphore /\ IsFiniteSet(G)
      /\ sem'.cur = Cardinality(H) + Cardinality(G)
      /\ Distinct(sem'.queue)
      /\ G \subseteq Members(s.queue)
      /\ Members(sem'.queue) = Members(s.queue) \ G
  BY NotifyFacts, ConcurrencyAssumption DEF Semaphore
<1>2. Members(sem.queue) \subseteq Requests
  BY MembersType, ConcurrencyAssumption DEF IInv, TypeOK, Semaphore, SemaphoreOf
<1>3. /\ G \subseteq Requests /\ r \notin G
      /\ \A q \in G : pc[q] = "queued" /\ q \notin acquired
  BY <1>1, <1>2 DEF IInv, QueueInv, HolderInv
<1> HIDE DEF G
<1>4. pc' = [q \in Requests |->
               IF q = r THEN place ELSE IF q \in G THEN "granted" ELSE pc[q]]
  BY DEF G
<1>5. TypeOK'
  <2>1. \A q \in Requests : pc'[q] \in Places
    BY <1>4 DEF IInv, TypeOK, Places
  <2> QED BY <1>1, <1>4, <2>1 DEF IInv, TypeOK, Semaphore, SemaphoreOf
<1>6. QueueInv'
  <2>1. \A q \in Requests : pc'[q] = "queued" <=> q \in Members(sem'.queue)
    BY <1>1, <1>2, <1>4 DEF IInv, QueueInv
  <2> QED BY <1>1, <2>1 DEF QueueInv, Distinct, Members
<1>7. HolderInv'
  <2>1. Holders' = H \union G
    <3>1. \A q \in Requests : q \in Holders' <=> q \in H \/ q \in G
      BY <1>3, <1>4 DEF Holders
    <3>2. Holders \subseteq Requests /\ Holders' \subseteq Requests
      BY <1>5 DEF Holders, IInv, TypeOK
    <3> QED BY <1>3, <3>1, <3>2
  <2>2. H \intersect G = {}
    BY <1>3 DEF Holders
  <2>3. IsFiniteSet(H) /\ Cardinality(H) \in Nat
    BY FS_RemoveElement, FS_CardinalityType DEF IInv, HolderInv
  <2>4. /\ IsFiniteSet(H \union G)
        /\ Cardinality(H \union G)
             = Cardinality(H) + Cardinality(G) - Cardinality(H \intersect G)
    BY <1>1, <2>3, FS_Union
  <2>5. Cardinality(G) \in Nat /\ Cardinality(H \intersect G) = 0
    BY <1>1, <2>2, FS_CardinalityType, FS_EmptySet
  <2>6. IsFiniteSet(Holders') /\ sem'.cur = Cardinality(Holders')
    BY <1>1, <2>1, <2>3, <2>4, <2>5
  <2>7. (\A q \in acquired : pc[q] \in {"reserved", "waiting", "running"})'
    BY <1>3, <1>4 DEF IInv, TypeOK, HolderInv
  <2>8. (\A q \in Requests : pc[q] = "running" => q \in acquired)'
    BY <1>3, <1>4 DEF IInv, TypeOK, HolderInv
  <2> QED BY <2>6, <2>7, <2>8 DEF HolderInv, SlotsConserved
<1>8. EstimateInv'
  <2>1. \A q \in Requests : pc'[q] = "storing" => pc[q] = "storing"
    BY <1>4
  <2> QED BY <2>1 DEF IInv, EstimateInv, Supported
<1> QED BY <1>5, <1>6, <1>7, <1>8 DEF IInv

\* A holder gives its slot back.
LEMMA GiveBackStep ==
  ASSUME IInv, NEW r \in Requests, r \in Holders, pc[r] # "queued",
         NEW place \in {"probed", "failed", "idle"}, GiveBack(r, place),
         acquired' = acquired \ {r}, UNCHANGED <<estimate, loaded>>
  PROVE  IInv'
<1> DEFINE s == FreeSlot(sem)
<1>1. /\ IsFiniteSet(Holders) /\ sem.cur = Cardinality(Holders)
      /\ sem \in Semaphore
  BY DEF IInv, HolderInv, SlotsConserved, TypeOK, Semaphore, SemaphoreOf
<1>2. /\ Cardinality(Holders \ {r}) = sem.cur - 1
      /\ Cardinality(Holders \ {r}) \in Nat
  BY <1>1, FS_RemoveElement, FS_CardinalityType
<1>3. s = [cur |-> sem.cur - 1, queue |-> sem.queue]
  BY <1>1 DEF FreeSlot, Semaphore, SemaphoreOf
<1>4. s \in Semaphore
  BY <1>1, <1>2, <1>3, ConcurrencyAssumption DEF Semaphore, SemaphoreOf
<1>5. /\ Distinct(s.queue) /\ s.cur = Cardinality(Holders \ {r})
      /\ Members(s.queue) = Members(sem.queue) \ {r}
  BY <1>2, <1>3 DEF IInv, QueueInv
<1>6. /\ sem' = Notify(s, Limit)
      /\ pc' = [q \in Requests |->
                  IF q = r THEN place
                  ELSE IF q \in Granted(s, Limit) THEN "granted"
                  ELSE pc[q]]
  BY DEF GiveBack
<1> HIDE DEF s
<1> QED BY <1>4, <1>5, <1>6, HandOver

LEMMA LeaveStep ==
  ASSUME IInv, NEW r \in Requests, LeaveQueue(r)
  PROVE  IInv'
<1> DEFINE s == Dequeue(sem, r)
<1>1. sem \in Semaphore /\ Distinct(sem.queue) /\ r \in Members(sem.queue)
  BY DEF LeaveQueue, IInv, QueueInv, TypeOK, Semaphore, SemaphoreOf
<1>2. /\ s \in Semaphore /\ s.cur = sem.cur /\ Distinct(s.queue)
      /\ Members(s.queue) = Members(sem.queue) \ {r}
  BY <1>1, DequeueFacts, ConcurrencyAssumption DEF Semaphore
<1>3. r \notin Holders /\ acquired \ {r} = acquired
  BY DEF LeaveQueue, Holders, IInv, HolderInv
<1>4. s.cur = Cardinality(Holders \ {r})
  <2>1. Holders \ {r} = Holders
    BY <1>3
  <2> QED BY <1>2, <2>1 DEF IInv, HolderInv, SlotsConserved
<1>5. /\ sem' = Notify(s, Limit)
      /\ pc' = [q \in Requests |->
                  IF q = r THEN "failed"
                  ELSE IF q \in Granted(s, Limit) THEN "granted"
                  ELSE pc[q]]
      /\ acquired' = acquired \ {r} /\ UNCHANGED <<estimate, loaded>>
  BY <1>3 DEF LeaveQueue
<1> HIDE DEF s
<1> QED BY <1>2, <1>4, <1>5, HandOver

-----------------------------------------------------------------------------
(* The invariant is kept                                                   *)

LEMMA NextIInv == IInv /\ [Next]_vars => IInv'
<1> SUFFICES ASSUME IInv, [Next]_vars PROVE IInv'
  OBVIOUS
<1>1. ASSUME NEW r \in Requests, ProbeTakes(r) PROVE IInv'
  BY <1>1, TakeStep, NoRoomStep DEF ProbeTakes
<1>2. ASSUME NEW r \in Requests, ProbeReturns(r) PROVE IInv'
  <2>1. r \in Holders /\ acquired' = acquired \ {r}
    BY <1>2 DEF ProbeReturns, Holders, IInv, HolderInv
  <2> QED BY <1>2, <2>1, GiveBackStep DEF ProbeReturns
<1>3. ASSUME NEW r \in Requests, Reserve(r) PROVE IInv'
  BY <1>3, TakeStep, NoRoomStep DEF Reserve
<1>4. ASSUME NEW r \in Requests,
             \/ NotChosen(r) \/ CheckDelay(r) \/ WaitAcquired(r)
             \/ AcquireTooLate(r) \/ GrantTaken(r) \/ RecordLoads(r)
      PROVE IInv'
  BY <1>4, MoveStep
<1>5. ASSUME NEW r \in Requests, AcquireStarts(r) PROVE IInv'
  BY <1>5, TakeStep, QueueStep DEF AcquireStarts
<1>6. ASSUME NEW r \in Requests, LeaveQueue(r) PROVE IInv'
  BY <1>6, LeaveStep
<1>7. ASSUME NEW r \in Requests, GrantTooLate(r) PROVE IInv'
  <2>1. r \in Holders /\ acquired' = acquired \ {r}
    BY <1>7 DEF GrantTooLate, Holders, IInv, HolderInv
  <2> QED BY <1>7, <2>1, GiveBackStep DEF GrantTooLate
<1>8. ASSUME NEW r \in Requests, RecordStores(r) PROVE IInv'
  BY <1>8, StoreStep
<1>9. ASSUME NEW r \in Requests, Release(r) PROVE IInv'
  <2>1. CASE r \in acquired
    <3>1. r \in Holders
      BY <2>1 DEF Holders
    <3> QED BY <1>9, <2>1, <3>1, GiveBackStep DEF Release
  <2>2. CASE r \notin acquired
    <3>1. acquired \ {r} = acquired
      BY <2>2
    <3> QED BY <1>9, <2>2, <3>1, NoRoomStep DEF Release
  <2> QED BY <2>1, <2>2
<1>10. CASE UNCHANGED vars
  BY <1>10 DEF vars, IInv, TypeOK, QueueInv, HolderInv, EstimateInv, Holders,
               SlotsConserved, Members, Distinct, Supported
<1> QED BY <1>1, <1>2, <1>3, <1>4, <1>5, <1>6, <1>7, <1>8, <1>9, <1>10 DEF Next

LEMMA Invariance == Spec => []IInv
<1>1. IInv /\ [Next]_vars => IInv'
  BY NextIInv
<1> QED BY <1>1, InitIInv, PTL DEF Spec

-----------------------------------------------------------------------------
(* Theorems                                                                *)

\* The state of a limiter has its type: in particular the semaphore never
\* counts more slots than its size, and never a negative number.
THEOREM TypeCorrect == Spec => []TypeOK
<1>1. IInv => TypeOK
  BY DEF IInv
<1> QED BY <1>1, Invariance, PTL

\* No slot leaks and none is given back twice, through every race of a grant
\* with the expiry of the waiter it went to.
THEOREM SlotsCorrect == Spec => []SlotsConserved
<1>1. IInv => SlotsConserved
  BY DEF IInv, HolderInv
<1> QED BY <1>1, Invariance, PTL

\* A request that runs holds a slot, and at most Limit requests run.
THEOREM RunningCorrect == Spec => []RunningHoldsSlot
<1>1. IInv => RunningHoldsSlot
  <2> SUFFICES ASSUME IInv PROVE RunningHoldsSlot
    OBVIOUS
  <2> DEFINE R == {r \in Requests : pc[r] = "running"}
  <2>1. R \in SUBSET Holders
    BY DEF IInv, HolderInv, Holders
  <2>2. Cardinality(R) <= Cardinality(Holders) /\ IsFiniteSet(R)
    BY <2>1, FS_Subset DEF IInv, HolderInv
  <2>3. Cardinality(Holders) \in 0..Limit
    BY DEF IInv, HolderInv, SlotsConserved, TypeOK
  <2>4. Cardinality(R) \in Nat
    BY <2>2, FS_CardinalityType
  <2>5. Cardinality(R) <= Limit
    BY <2>2, <2>3, <2>4, ConcurrencyAssumption
  <2> QED BY <2>5 DEF RunningHoldsSlot, IInv, HolderInv
<1> QED BY <1>1, Invariance, PTL

\* The estimate stays within the waits there is evidence of, although
\* concurrent updates overwrite each other: it is never 0.
THEOREM EstimateCorrect == Spec => []EstimateFromEvidence
<1>1. IInv => EstimateFromEvidence
  BY DEF IInv, EstimateInv, Supported, EstimateFromEvidence
<1> QED BY <1>1, Invariance, PTL

=============================================================================
