---------------------------- MODULE LimiterProofs ----------------------------
(***************************************************************************)
(* What the operations of LimiterOps do to the state of one limiter: the   *)
(* lemmas that the proofs about the limiters and about the election share. *)
(***************************************************************************)
EXTENDS LimiterOps, FiniteSetTheorems, SequenceTheorems, TLAPS

-----------------------------------------------------------------------------
(* The semaphore and its queue                                             *)

Distinct(q) == \A i, j \in 1..Len(q) : q[i] = q[j] => i = j

Members(q) == {q[i] : i \in 1..Len(q)}

SemaphoreOf(limit, who) == [cur : 0..limit, queue : Seq(who)]

LEMMA EnqueueFacts ==
  ASSUME NEW limit \in Nat, NEW who, NEW s \in SemaphoreOf(limit, who), NEW r \in who,
         Distinct(s.queue), r \notin Members(s.queue)
  PROVE  /\ Enqueue(s, r) \in SemaphoreOf(limit, who)
         /\ Enqueue(s, r).cur = s.cur
         /\ Distinct(Enqueue(s, r).queue)
         /\ Members(Enqueue(s, r).queue) = Members(s.queue) \union {r}
<1> DEFINE q == s.queue
<1> DEFINE p == Append(q, r)
<1>1. q \in Seq(who) /\ Len(q) \in Nat
  BY LenProperties DEF SemaphoreOf
<1>2. /\ p \in Seq(who) /\ Len(p) = Len(q) + 1 /\ p[Len(q) + 1] = r
      /\ \A i \in 1..Len(q) : p[i] = q[i]
  BY <1>1
<1>3. Enqueue(s, r) = [cur |-> s.cur, queue |-> p]
  <2>1. Enqueue(s, r) = [s EXCEPT !.queue = p]
    BY DEF Enqueue
  <2> HIDE DEF p
  <2> QED BY <2>1 DEF SemaphoreOf
<1> HIDE DEF p
<1>4. Distinct(p)
  BY <1>1, <1>2 DEF Distinct, Members
<1>5. Members(p) = Members(q) \union {r}
  <2> HIDE DEF q
  <2>1. 1..Len(p) = 1..Len(q) \union {Len(q) + 1}
    BY <1>1, <1>2
  <2> QED BY <1>1, <1>2, <2>1 DEF Members
<1> QED BY <1>2, <1>3, <1>4, <1>5 DEF SemaphoreOf

LEMMA DequeueFacts ==
  ASSUME NEW limit \in Nat, NEW who, NEW s \in SemaphoreOf(limit, who), Distinct(s.queue), NEW r \in Members(s.queue)
  PROVE  /\ Dequeue(s, r) \in SemaphoreOf(limit, who)
         /\ Dequeue(s, r).cur = s.cur
         /\ Distinct(Dequeue(s, r).queue)
         /\ Members(Dequeue(s, r).queue) = Members(s.queue) \ {r}
<1> DEFINE q == s.queue
<1> DEFINE at == PlaceOf(s, r)
<1> DEFINE front == SubSeq(q, 1, at - 1)
<1> DEFINE back == SubSeq(q, at + 1, Len(q))
<1> DEFINE p == front \o back
<1>1. q \in Seq(who) /\ Len(q) \in Nat /\ \A i \in 1..Len(q) : q[i] \in who
  BY LenProperties, ElementOfSeq DEF SemaphoreOf
<1>2. at \in 1..Len(q) /\ q[at] = r
  BY DEF Members, PlaceOf
<1>3. Dequeue(s, r) = [cur |-> s.cur, queue |-> p]
  <2>1. Dequeue(s, r) = [s EXCEPT !.queue = p]
    BY DEF Dequeue
  <2> HIDE DEF p
  <2> QED BY <2>1 DEF SemaphoreOf
<1> HIDE DEF at
<1>4. /\ front \in Seq(who) /\ Len(front) = at - 1
      /\ \A i \in 1..(at - 1) : front[i] = q[i]
  BY <1>1, <1>2, SubSeqProperties
<1>5. /\ back \in Seq(who) /\ Len(back) = Len(q) - at
      /\ \A i \in 1..(Len(q) - at) : back[i] = q[at + i]
  <2>1. \A i \in (at + 1)..Len(q) : q[i] \in who
    BY <1>1, <1>2
  <2>2. /\ back \in Seq(who)
        /\ Len(back) = IF at + 1 <= Len(q) THEN Len(q) - (at + 1) + 1 ELSE 0
        /\ \A i \in 1..(Len(q) - (at + 1) + 1) : back[i] = q[at + 1 + i - 1]
    BY <1>1, <1>2, <2>1, SubSeqProperties
  <2> HIDE DEF back
  <2>3. /\ Len(q) - (at + 1) + 1 = Len(q) - at
        /\ (IF at + 1 <= Len(q) THEN Len(q) - (at + 1) + 1 ELSE 0) = Len(q) - at
        /\ \A i \in 1..(Len(q) - at) : at + 1 + i - 1 = at + i
    BY <1>1, <1>2
  <2> QED BY <2>2, <2>3
<1> HIDE DEF front, back
<1>6. /\ p \in Seq(who) /\ Len(p) = Len(q) - 1
      /\ \A i \in 1..(Len(q) - 1) : p[i] = IF i < at THEN q[i] ELSE q[i + 1]
  <2>1. /\ p \in Seq(who)
        /\ Len(p) = Len(front) + Len(back)
        /\ \A i \in 1..(Len(front) + Len(back)) :
             p[i] = IF i <= Len(front) THEN front[i] ELSE back[i - Len(front)]
    BY <1>4, <1>5, ConcatProperties
  <2> QED BY <1>1, <1>2, <1>4, <1>5, <2>1
<1> HIDE DEF p
<1>7. Distinct(p)
  <2> DEFINE from(i) == IF i < at THEN i ELSE i + 1
  <2>1. \A i \in 1..Len(p) : from(i) \in 1..Len(q) /\ p[i] = q[from(i)]
    BY <1>1, <1>2, <1>6
  <2>2. \A i, j \in 1..Len(p) : from(i) = from(j) => i = j
    BY <1>1, <1>2, <1>6
  <2> HIDE DEF from
  <2> QED BY <2>1, <2>2 DEF Distinct
<1>8. Members(p) = Members(q) \ {r}
  <2>1. ASSUME NEW i \in 1..Len(p) PROVE p[i] \in Members(q) /\ p[i] # r
    <3>1. PICK k \in 1..Len(q) : k # at /\ p[i] = q[k]
      <4>1. CASE i < at
        BY <1>1, <1>2, <1>6, <4>1
      <4>2. CASE ~(i < at)
        BY <1>1, <1>2, <1>6, <4>2
      <4> QED BY <4>1, <4>2
    <3> QED BY <1>2, <3>1 DEF Members, Distinct
  <2>2. ASSUME NEW j \in 1..Len(q), q[j] # r PROVE q[j] \in Members(p)
    <3>1. CASE j < at
      BY <1>1, <1>2, <1>6, <3>1 DEF Members
    <3>2. CASE j > at
      <4>1. j - 1 \in 1..Len(p) /\ p[j - 1] = q[j]
        BY <1>1, <1>2, <1>6, <3>2
      <4> QED BY <4>1 DEF Members
    <3> QED BY <1>1, <1>2, <2>2, <3>1, <3>2
  <2> QED BY <2>1, <2>2 DEF Members
<1> QED BY <1>3, <1>6, <1>7, <1>8 DEF SemaphoreOf

LEMMA NotifyFacts ==
  ASSUME NEW limit \in Nat, NEW who, NEW s \in SemaphoreOf(limit, who), Distinct(s.queue)
  PROVE  /\ Notify(s, limit) \in SemaphoreOf(limit, who)
         /\ IsFiniteSet(Granted(s, limit))
         /\ Notify(s, limit).cur = s.cur + Cardinality(Granted(s, limit))
         /\ Distinct(Notify(s, limit).queue)
         /\ Granted(s, limit) \subseteq Members(s.queue)
         /\ Members(Notify(s, limit).queue) = Members(s.queue) \ Granted(s, limit)
<1> DEFINE q == s.queue
<1> DEFINE g == Grants(s, limit)
<1> DEFINE p == SubSeq(q, g + 1, Len(q))
<1>1. q \in Seq(who) /\ Len(q) \in Nat /\ \A i \in 1..Len(q) : q[i] \in who
  BY LenProperties, ElementOfSeq DEF SemaphoreOf
<1>2. g \in 0..Len(q) /\ s.cur + g \in 0..limit
  BY <1>1 DEF Grants, Smaller, Larger, SemaphoreOf
<1>3. /\ Notify(s, limit) = [cur |-> s.cur + g, queue |-> p]
      /\ Granted(s, limit) = {q[i] : i \in 1..g}
  BY DEF Notify, Granted
<1> HIDE DEF g
<1>4. /\ p \in Seq(who) /\ Len(p) = Len(q) - g
      /\ \A i \in 1..(Len(q) - g) : p[i] = q[g + i]
  <2>1. \A i \in (g + 1)..Len(q) : q[i] \in who
    BY <1>1, <1>2
  <2>2. /\ p \in Seq(who)
        /\ Len(p) = IF g + 1 <= Len(q) THEN Len(q) - (g + 1) + 1 ELSE 0
        /\ \A i \in 1..(Len(q) - (g + 1) + 1) : p[i] = q[g + 1 + i - 1]
    BY <1>1, <1>2, <2>1, SubSeqProperties
  <2> QED BY <1>1, <1>2, <2>2
<1> HIDE DEF p
<1>5. IsFiniteSet(Granted(s, limit)) /\ Cardinality(Granted(s, limit)) = g
  <2> DEFINE first == [i \in 1..g |-> q[i]]
  <2>1. first \in Bijection(1..g, Granted(s, limit))
    BY <1>1, <1>2, <1>3 DEF Bijection, Injection, Surjection, IsInjective, Distinct
  <2>2. IsFiniteSet(1..g) /\ Cardinality(1..g) = g
    BY <1>2, FS_Interval
  <2>3. ExistsBijection(1..g, Granted(s, limit))
    BY <2>1 DEF ExistsBijection
  <2> QED BY <2>2, <2>3, FS_Bijection
<1>6. Distinct(p)
  BY <1>1, <1>2, <1>4 DEF Distinct
<1>7. Granted(s, limit) \subseteq Members(q)
  BY <1>1, <1>2, <1>3 DEF Members
<1>8. Members(p) = Members(q) \ Granted(s, limit)
  <2>1. ASSUME NEW i \in 1..Len(p)
        PROVE  p[i] \in Members(q) /\ p[i] \notin Granted(s, limit)
    <3>1. p[i] = q[g + i] /\ g + i \in 1..Len(q)
      BY <1>1, <1>2, <1>4
    <3>2. p[i] \in Members(q)
      BY <3>1 DEF Members
    <3>3. \A k \in 1..g : k \in 1..Len(q) /\ k # g + i
      BY <1>1, <1>2, <1>4
    <3>4. \A k \in 1..g : q[k] # q[g + i]
      BY <3>1, <3>3 DEF Distinct
    <3> QED BY <1>3, <3>1, <3>2, <3>4
  <2>2. ASSUME NEW j \in 1..Len(q), q[j] \notin Granted(s, limit)
        PROVE  q[j] \in Members(p)
    <3>1. ~(j \in 1..g)
      BY <1>3, <2>2
    <3>2. j - g \in 1..(Len(q) - g) /\ g + (j - g) = j
      BY <1>1, <1>2, <3>1
    <3>3. j - g \in 1..Len(p) /\ p[j - g] = q[j]
      BY <1>4, <3>2
    <3> QED BY <3>3 DEF Members
  <2> QED BY <2>1, <2>2 DEF Members
<1> QED BY <1>2, <1>3, <1>4, <1>5, <1>6, <1>7, <1>8 DEF SemaphoreOf

LEMMA MembersType ==
  ASSUME NEW limit \in Nat, NEW who, NEW s \in SemaphoreOf(limit, who)
  PROVE  Members(s.queue) \subseteq who
<1>1. \A i \in 1..Len(s.queue) : s.queue[i] \in who
  BY LenProperties, ElementOfSeq DEF SemaphoreOf
<1> QED BY <1>1 DEF Members

-----------------------------------------------------------------------------
(* The daily quota                                                         *)

QuotaOf(day) == [used : Nat, untilReset : -day..day]

LEMMA FlushFacts ==
  ASSUME NEW day \in Nat \ {0}, NEW q \in QuotaOf(day)
  PROVE  Flush(q, day) \in QuotaOf(day) /\ Flush(q, day).untilReset >= 0
<1>1. CASE Expired(q)
  <2> DEFINE lag == -q.untilReset
  <2>1. lag \in Nat
    BY <1>1 DEF QuotaOf, Expired
  <2>2. lag % day \in 0..(day - 1)
    BY <2>1
  <2>3. NextMidnight(lag, day) \in 1..day
    BY <2>1, <2>2 DEF NextMidnight
  <2>4. Flush(q, day) = [used |-> 0, untilReset |-> NextMidnight(lag, day)]
    BY <1>1 DEF Flush, NewQuota
  <2> QED BY <2>1, <2>3, <2>4 DEF QuotaOf
<1>2. CASE ~Expired(q)
  BY <1>2 DEF QuotaOf, Flush, Expired
<1> QED BY <1>1, <1>2

LEMMA QuotaFacts ==
  ASSUME NEW day \in Nat \ {0}, NEW q \in QuotaOf(day),
         NEW cost \in Nat, NEW actual \in Nat
  PROVE  /\ Take(q, cost) \in QuotaOf(day)
         /\ Settle(q, cost, actual) \in QuotaOf(day)
         /\ QuotaTick(q, day) \in QuotaOf(day)
<1>1. Take(q, cost) \in QuotaOf(day)
  BY DEF Take, QuotaOf
<1>2. Settle(q, cost, actual) \in QuotaOf(day)
  BY DEF Settle, Larger, QuotaOf
<1>3. QuotaTick(q, day) \in QuotaOf(day)
  BY DEF QuotaTick, QuotaOf
<1> QED BY <1>1, <1>2, <1>3

-----------------------------------------------------------------------------
(* The token bucket                                                        *)

AnyBucket == [tokens : Int, since : Nat]

LEMMA BucketFacts ==
  ASSUME NEW burst \in Nat, NEW b \in AnyBucket, NEW cost \in Nat, NEW diff \in Int
  PROVE  /\ Level(b, burst) \in Int
         /\ BucketReserve(b, cost, burst) \in AnyBucket
         /\ ReadyIn(BucketReserve(b, cost, burst), cost) \in Nat
         /\ Adjust(b, diff, burst) \in AnyBucket
         /\ BucketTick(b, burst) \in AnyBucket
<1>1. b.tokens \in Int /\ b.since \in Nat
  BY DEF AnyBucket
<1>2. Level(b, burst) \in Int
  BY <1>1 DEF Level, Smaller
<1>3. /\ BucketReserve(b, cost, burst) = [tokens |-> Level(b, burst) - cost, since |-> 0]
      /\ Adjust(b, diff, burst) =
           [tokens |-> Smaller(burst, Level(b, burst) + diff), since |-> 0]
  BY DEF BucketReserve, Adjust, Fill
<1>4. BucketReserve(b, cost, burst) \in AnyBucket
  BY <1>2, <1>3 DEF AnyBucket
<1>5. ReadyIn(BucketReserve(b, cost, burst), cost) \in Nat
  BY <1>2, <1>3 DEF ReadyIn, Larger
<1>6. Adjust(b, diff, burst) \in AnyBucket
  BY <1>2, <1>3 DEF AnyBucket, Smaller
<1>7. BucketTick(b, burst) \in AnyBucket
  BY DEF BucketTick, AnyBucket
<1> QED BY <1>2, <1>4, <1>5, <1>6, <1>7

\* A probe is infinite only for what a full bucket cannot give.
LEMMA ProbeFacts ==
  ASSUME NEW burst \in Nat, NEW b \in AnyBucket, NEW cost \in Nat
  PROVE  /\ cost > burst => BucketProbe(b, cost, burst) = Inf
         /\ ~(cost > burst) => BucketProbe(b, cost, burst) \in Nat
<1>1. Level(b, burst) \in Int
  BY DEF AnyBucket, Level, Smaller
<1> QED BY <1>1 DEF BucketProbe, Larger

=============================================================================
