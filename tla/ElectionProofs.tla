--------------------------- MODULE ElectionProofs ---------------------------
(***************************************************************************)
(* The safety properties of Election, for every set of requests, catalogue *)
(* of models, aliases and limiters, every limit and every size of a        *)
(* request.                                                                *)
(*                                                                         *)
(* What is true of one goroutine, wherever it is, is true of its job       *)
(* (JobOK), and every change of a job keeps it: the lemmas on jobs know    *)
(* nothing of the other goroutines.  What goroutines have to do with each  *)
(* other is the state of the semaphores: who holds their slots             *)
(* (HolderInv) and who waits in their queues (QueueInv).                   *)
(***************************************************************************)
EXTENDS Election, LimiterProofs

-----------------------------------------------------------------------------
(* Least and greatest elements.  Only is recursive, and what it returns is *)
(* shown by the smallest counterexample: every nonempty set of naturals    *)
(* has a least element (LeastNatural).                                     *)

LEMMA LeastNatural ==
  ASSUME NEW T, T \subseteq Nat, T # {}
  PROVE  \E x \in T : \A y \in T : x <= y
<1>1. PICK n \in T : TRUE
  OBVIOUS
<1> DEFINE D == {1..k : k \in {j \in T : j <= n}}
<1> DEFINE R == StrictSubsetOrdering(Nat)
<1> DEFINE F == FiniteSubsetsOf(Nat)
<1>2. D \subseteq F
  <2> SUFFICES ASSUME NEW k \in T, k <= n PROVE 1..k \in F
    OBVIOUS
  <2>1. k \in Int /\ 1 \in Int /\ 1..k \subseteq Nat
    OBVIOUS
  <2>2. IsFiniteSet(1..k)
    BY <2>1, FS_Interval
  <2> QED BY <2>1, <2>2 DEF FiniteSubsetsOf
<1>3. D # {}
  BY <1>1
<1>4. IsWellFoundedOn(R, F)
  BY FS_StrictSubsetOrderingWellFounded
<1>5. \E x \in D : \A y \in D : <<y, x>> \notin R
  <2> HIDE DEF D, R, F
  <2> QED BY <1>2, <1>3, <1>4, WFMin
<1>6. PICK k \in T : k <= n /\ \A y \in D : <<y, 1..k>> \notin R
  BY <1>5
<1>7. ASSUME NEW y \in T, y < k PROVE FALSE
  <2>1. y <= n
    BY <1>1, <1>6, <1>7
  <2>2. 1..y \in D
    BY <2>1
  <2>3. /\ 1..y \subseteq 1..k /\ k \in 1..k /\ k \notin 1..y
        /\ 1..y \subseteq Nat /\ 1..k \subseteq Nat
    BY <1>7
  <2>4. <<1..y, 1..k>> \in R
    BY <2>3 DEF StrictSubsetOrdering
  <2> QED BY <1>6, <2>2, <2>4
<1> QED BY <1>6, <1>7

\* A finite set of integers has a greatest element.
LEMMA GreatestInteger ==
  ASSUME NEW T, T \subseteq Int, T # {}, IsFiniteSet(T)
  PROVE  /\ Max(T) \in T
         /\ \A y \in T : y <= Max(T)
<1> DEFINE Has(U) == \E x \in U : \A y \in U : y <= x
<1> DEFINE B == {U \in SUBSET T : U # {} /\ ~Has(U)}
<1> DEFINE F == FiniteSubsetsOf(T)
<1>1. SUFFICES B = {}
  <2>1. Has(T)
    BY <1>1
  <2>2. \E x \in T : \A y \in T : x >= y
    BY <2>1
  <2>3. Max(T) \in T /\ \A y \in T : Max(T) >= y
    BY <2>2 DEF Max
  <2> QED BY <2>3
<1>2. B \subseteq F
  BY FS_FiniteSubsetsOfFinite
<1>3. SUFFICES ASSUME B # {} PROVE FALSE
  OBVIOUS
<1>4. PICK U \in B : \A V \in B : <<V, U>> \notin StrictSubsetOrdering(T)
  <2>1. IsWellFoundedOn(StrictSubsetOrdering(T), F)
    BY FS_StrictSubsetOrderingWellFounded
  <2> HIDE DEF B, F
  <2> QED BY <1>2, <1>3, <2>1, WFMin
<1>5. PICK x \in U : TRUE
  OBVIOUS
<1>6. U \ {x} \notin B
  BY <1>4, <1>5 DEF StrictSubsetOrdering
<1>7. CASE U \ {x} = {}
  BY <1>5, <1>7
<1>8. CASE Has(U \ {x})
  <2>1. PICK z \in U \ {x} : \A y \in U \ {x} : y <= z
    BY <1>8
  <2>2. CASE x <= z
    BY <1>5, <2>1, <2>2
  <2>3. CASE z <= x
    <3>1. \A y \in U : y <= x
      BY <1>5, <2>1, <2>3
    <3> QED BY <1>5, <3>1
  <2> QED BY <1>5, <2>1, <2>2, <2>3
<1> QED BY <1>6, <1>7, <1>8

-----------------------------------------------------------------------------
(* Members and repetitions                                                 *)

LEMMA RangeFacts ==
  ASSUME NEW T, NEW s \in Seq(T)
  PROVE  /\ Range(s) \subseteq T /\ s \in Seq(Range(s))
         /\ Range(s) = {s[i] : i \in 1..Len(s)}
         /\ s = <<>> <=> Range(s) = {}
         /\ s = <<>> <=> Len(s) = 0
         /\ IsInjective(s) <=> \A i, j \in 1..Len(s) : s[i] = s[j] => i = j
<1>1. /\ Len(s) \in Nat /\ DOMAIN s = 1..Len(s)
      /\ \A i \in 1..Len(s) : s[i] \in T
  BY LenProperties, ElementOfSeq
<1>2. s # <<>> => 1 \in 1..Len(s)
  BY <1>1, EmptySeq
<1>3. Range(s) = {s[i] : i \in 1..Len(s)}
  BY <1>1 DEF Range
<1>4. s \in Seq(Range(s))
  BY SeqOfRange
<1>5. IsInjective(s) <=> \A i, j \in 1..Len(s) : s[i] = s[j] => i = j
  BY <1>1 DEF IsInjective
<1>6. Range(s) \subseteq T
  BY <1>1, <1>3
<1>7. s = <<>> <=> Len(s) = 0
  BY <1>1, EmptySeq
<1>8. s = <<>> <=> Range(s) = {}
  <2>1. CASE s = <<>>
    <3>1. 1..Len(s) = {}
      BY <1>7, <2>1
    <3> QED BY <1>3, <2>1, <3>1
  <2>2. CASE s # <<>>
    BY <1>2, <1>3, <2>2
  <2> QED BY <2>1, <2>2
<1> QED BY <1>3, <1>4, <1>5, <1>6, <1>7, <1>8

LEMMA EmptyFacts ==
  /\ Range(<<>>) = {} /\ IsInjective(<<>>)
  /\ \A T : <<>> \in Seq(T)
<1>1. \A T : <<>> \in Seq(T) /\ Len(<<>>) = 0
  BY EmptySeq
<1>2. <<>> \in Seq({})
  BY <1>1
<1> DEFINE e == <<>>
<1>3. e \in Seq({}) /\ Len(e) = 0 /\ e = <<>>
  BY <1>1, <1>2
<1> HIDE DEF e
<1>4. e \in Seq({})
  BY <1>3
<1>5. /\ Range(e) = {e[i] : i \in 1..Len(e)}
      /\ IsInjective(e) <=> \A i, j \in 1..Len(e) : e[i] = e[j] => i = j
  BY <1>4, RangeFacts
<1>6. Range(e) = {} /\ IsInjective(e)
  BY <1>3, <1>5
<1> QED BY <1>1, <1>3, <1>6

LEMMA TailFacts ==
  ASSUME NEW T, NEW s \in Seq(T), s # <<>>
  PROVE  /\ Head(s) \in Range(s) /\ Head(s) \in T /\ Head(s) = s[1]
         /\ Tail(s) \in Seq(T)
         /\ Range(s) = {Head(s)} \union Range(Tail(s))
         /\ IsInjective(s) => /\ IsInjective(Tail(s))
                              /\ Head(s) \notin Range(Tail(s))
         /\ Tail(s) = <<>> <=> Len(s) = 1
<1> DEFINE t == Tail(s)
<1>1. /\ Len(s) \in Nat \ {0} /\ Head(s) = s[1] /\ Head(s) \in T
      /\ t \in Seq(T) /\ Len(t) = Len(s) - 1
      /\ \A i \in 1..Len(t) : t[i] = s[i + 1]
  BY HeadTailProperties, LenProperties, EmptySeq
<1>2. /\ Range(s) = {s[i] : i \in 1..Len(s)}
      /\ IsInjective(s) <=> \A i, j \in 1..Len(s) : s[i] = s[j] => i = j
  BY RangeFacts
<1> HIDE DEF t
<1>3. /\ Range(t) = {t[i] : i \in 1..Len(t)}
      /\ t = <<>> <=> Len(t) = 0
      /\ IsInjective(t) <=> \A i, j \in 1..Len(t) : t[i] = t[j] => i = j
  BY <1>1, RangeFacts
<1>4. Range(s) = {s[1]} \union Range(t)
  <2>1. ASSUME NEW i \in 1..Len(s) PROVE s[i] \in {s[1]} \union Range(t)
    <3>1. CASE i = 1
      BY <3>1
    <3>2. CASE i # 1
      <4>1. i - 1 \in 1..Len(t) /\ t[i - 1] = s[i]
        BY <1>1, <3>2
      <4> QED BY <1>3, <4>1
    <3> QED BY <3>1, <3>2
  <2>2. ASSUME NEW i \in 1..Len(t) PROVE t[i] \in Range(s)
    BY <1>1, <1>2
  <2>3. s[1] \in Range(s)
    BY <1>1, <1>2
  <2>4. Range(s) \subseteq {s[1]} \union Range(t)
    BY <1>2, <2>1
  <2>5. Range(t) \subseteq Range(s)
    BY <1>3, <2>2
  <2> QED BY <2>3, <2>4, <2>5
<1>5. ASSUME IsInjective(s) PROVE IsInjective(t) /\ s[1] \notin Range(t)
  <2>1. \A i \in 1..Len(t) : i + 1 \in 1..Len(s) /\ i + 1 # 1 /\ t[i] = s[i + 1]
    BY <1>1
  <2>2. IsInjective(t)
    BY <1>1, <1>2, <1>3, <1>5, <2>1
  <2>3. 1 \in 1..Len(s)
    BY <1>1
  <2>4. s[1] \notin Range(t)
    BY <1>2, <1>3, <1>5, <2>1, <2>3
  <2> QED BY <2>2, <2>4
<1> QED BY <1>1, <1>3, <1>4, <1>5 DEF t

LEMMA AppendFacts ==
  ASSUME NEW T, NEW s \in Seq(T), NEW e \in T
  PROVE  /\ Append(s, e) \in Seq(T) /\ Append(s, e) # <<>>
         /\ Range(Append(s, e)) = Range(s) \union {e}
         /\ IsInjective(s) /\ e \notin Range(s) => IsInjective(Append(s, e))
<1> DEFINE t == Append(s, e)
<1>1. /\ t \in Seq(T) /\ t # <<>> /\ Len(s) \in Nat /\ Len(t) = Len(s) + 1
      /\ \A i \in 1..Len(s) : t[i] = s[i]
      /\ t[Len(s) + 1] = e
  BY AppendProperties, LenProperties
<1>2. /\ Range(s) = {s[i] : i \in 1..Len(s)}
      /\ IsInjective(s) <=> \A i, j \in 1..Len(s) : s[i] = s[j] => i = j
  BY RangeFacts
<1> HIDE DEF t
<1>3. /\ Range(t) = {t[i] : i \in 1..Len(t)}
      /\ IsInjective(t) <=> \A i, j \in 1..Len(t) : t[i] = t[j] => i = j
  <2>1. t \in Seq(T)
    BY <1>1
  <2> QED BY <2>1, RangeFacts
<1>4. 1..Len(t) = 1..Len(s) \union {Len(s) + 1}
  BY <1>1
<1>5. Range(t) = Range(s) \union {e}
  BY <1>1, <1>2, <1>3, <1>4
<1>6. IsInjective(s) /\ e \notin Range(s) => IsInjective(t)
  BY <1>1, <1>2, <1>3, <1>4
<1> QED BY <1>1, <1>5, <1>6 DEF t

LEMMA ConcatFacts ==
  ASSUME NEW T, NEW s \in Seq(T), NEW t \in Seq(T)
  PROVE  /\ s \o t \in Seq(T)
         /\ Range(s \o t) = Range(s) \union Range(t)
         /\ IsInjective(s) /\ IsInjective(t) /\ Range(s) \intersect Range(t) = {}
              => IsInjective(s \o t)
<1> DEFINE u == s \o t
<1>1. /\ u \in Seq(T) /\ Len(s) \in Nat /\ Len(t) \in Nat
      /\ Len(u) = Len(s) + Len(t)
      /\ \A i \in 1..(Len(s) + Len(t)) :
           u[i] = IF i <= Len(s) THEN s[i] ELSE t[i - Len(s)]
  BY ConcatProperties, LenProperties
<1>2. /\ Range(s) = {s[i] : i \in 1..Len(s)}
      /\ IsInjective(s) <=> \A i, j \in 1..Len(s) : s[i] = s[j] => i = j
      /\ Range(t) = {t[i] : i \in 1..Len(t)}
      /\ IsInjective(t) <=> \A i, j \in 1..Len(t) : t[i] = t[j] => i = j
  BY RangeFacts
<1>3. IsInjective(u) <=> \A i, j \in 1..Len(u) : u[i] = u[j] => i = j
  BY <1>1, RangeFacts
<1>4. Range(u) = Range(s) \union Range(t)
  BY RangeConcatenation
<1> HIDE DEF u
<1>5. ASSUME IsInjective(s), IsInjective(t), Range(s) \intersect Range(t) = {}
      PROVE  IsInjective(u)
  <2> SUFFICES ASSUME NEW i \in 1..Len(u), NEW j \in 1..Len(u), u[i] = u[j]
               PROVE  i = j
    BY <1>3
  <2>1. \A k \in 1..Len(u) :
          \/ k \in 1..Len(s) /\ u[k] = s[k] /\ u[k] \in Range(s)
          \/ /\ k - Len(s) \in 1..Len(t) /\ u[k] = t[k - Len(s)]
             /\ u[k] \in Range(t)
    <3> SUFFICES ASSUME NEW k \in 1..Len(u)
                 PROVE \/ k \in 1..Len(s) /\ u[k] = s[k] /\ u[k] \in Range(s)
                       \/ /\ k - Len(s) \in 1..Len(t) /\ u[k] = t[k - Len(s)]
                          /\ u[k] \in Range(t)
      OBVIOUS
    <3>1. CASE k <= Len(s)
      BY <1>1, <1>2, <3>1
    <3>2. CASE ~(k <= Len(s))
      <4>1. k - Len(s) \in 1..Len(t) /\ u[k] = t[k - Len(s)]
        BY <1>1, <3>2
      <4> QED BY <1>2, <4>1
    <3> QED BY <3>1, <3>2
  <2>2. CASE u[i] \in Range(s)
    BY <1>2, <1>5, <2>1, <2>2
  <2>3. CASE u[i] \in Range(t)
    <3>1. /\ i - Len(s) \in 1..Len(t) /\ j - Len(s) \in 1..Len(t)
          /\ t[i - Len(s)] = t[j - Len(s)]
      BY <1>5, <2>1, <2>3
    <3>2. i - Len(s) = j - Len(s)
      BY <1>2, <1>5, <3>1
    <3> QED BY <1>1, <3>2
  <2> QED BY <2>1, <2>2, <2>3
<1> QED BY <1>1, <1>4, <1>5 DEF u

\* The members of a list are finitely many.
LEMMA RangeFinite ==
  ASSUME NEW T, NEW s \in Seq(T)
  PROVE  IsFiniteSet(Range(s))
<1>1. Len(s) \in Nat /\ s \in [1..Len(s) -> T] /\ Range(s) = {s[i] : i \in 1..Len(s)}
  BY LenProperties, RangeFacts
<1>2. s \in Surjection(1..Len(s), Range(s))
  BY <1>1 DEF Surjection
<1>3. IsFiniteSet(1..Len(s))
  BY <1>1, FS_Interval
<1> QED BY <1>2, <1>3, FS_Surjection

-----------------------------------------------------------------------------
(* Only                                                                    *)

\* The recursion of Only, element by element.
LEMMA OnlyUnfolds ==
  ASSUME NEW T, NEW s \in Seq(T), NEW S
  PROVE  \E pick :
           /\ Only(s, S) = pick[Len(s)]
           /\ pick[0] = <<>>
           /\ \A n \in 1..Len(s) :
                pick[n] = IF s[n] \in S THEN Append(pick[n - 1], s[n]) ELSE pick[n - 1]
<1> DEFINE N == Len(s)
<1> DEFINE Step(f, n) == IF n = 0 THEN <<>>
                         ELSE IF s[n] \in S THEN Append(f[n - 1], s[n])
                         ELSE f[n - 1]
<1> DEFINE Upto(k) == \E f : f = [n \in 0..k |-> Step(f, n)]
<1> DEFINE pick == CHOOSE f : f = [n \in 0..N |-> Step(f, n)]
<1>1. Only(s, S) = pick[N]
  BY DEF Only
<1>2. N \in Nat
  BY LenProperties
<1>3. \A k \in Nat : Upto(k)
  <2> DEFINE B == {k \in Nat : ~Upto(k)}
  <2>1. SUFFICES ASSUME B # {} PROVE FALSE
    OBVIOUS
  <2>2. PICK k \in B : \A m \in B : k <= m
    <3> HIDE DEF B
    <3>1. B \subseteq Nat
      BY DEF B
    <3> QED BY <2>1, <3>1, LeastNatural
  <2>3. k \in Nat /\ ~Upto(k)
    OBVIOUS
  <2>4. CASE k = 0
    <3> DEFINE f == [n \in 0..0 |-> <<>>]
    <3>1. f = [n \in 0..0 |-> Step(f, n)]
      OBVIOUS
    <3> QED BY <2>3, <2>4, <3>1
  <2>5. CASE k # 0
    <3>1. k - 1 \in Nat /\ k - 1 \notin B
      <4>1. k - 1 \in Nat /\ ~(k <= k - 1)
        BY <2>3, <2>5
      <4> HIDE DEF B
      <4> QED BY <2>2, <4>1
    <3>2. PICK f : f = [n \in 0..(k - 1) |-> Step(f, n)]
      BY <3>1
    <3> DEFINE g == [n \in 0..k |-> IF n = k THEN Step(f, k) ELSE f[n]]
    <3>3. \A n \in 0..k : g[n] = Step(g, n)
      <4> SUFFICES ASSUME NEW n \in 0..k PROVE g[n] = Step(g, n)
        OBVIOUS
      <4>1. CASE n = k
        BY <2>3, <2>5, <4>1
      <4>2. CASE n # k
        <5>1. n \in 0..(k - 1) /\ (n # 0 => n - 1 \in 0..(k - 1) /\ n - 1 \in 0..k /\ n - 1 # k)
          BY <2>3, <4>2
        <5>2. g[n] = f[n] /\ (n # 0 => g[n - 1] = f[n - 1])
          BY <4>2, <5>1
        <5>3. f[n] = Step(f, n)
          BY <3>2, <5>1
        <5> QED BY <5>1, <5>2, <5>3
      <4> QED BY <4>1, <4>2
    <3>4. g = [n \in 0..k |-> Step(g, n)]
      BY <3>3
    <3> QED BY <2>3, <3>4
  <2> QED BY <2>4, <2>5
<1>4. pick = [n \in 0..N |-> Step(pick, n)]
  <2>1. Upto(N)
    BY <1>2, <1>3
  <2> QED BY <2>1
<1> HIDE DEF pick
<1>5. /\ pick[0] = <<>>
      /\ \A n \in 1..N :
           pick[n] = IF s[n] \in S THEN Append(pick[n - 1], s[n]) ELSE pick[n - 1]
  <2>1. 0 \in 0..N /\ \A n \in 1..N : n \in 0..N /\ n # 0
    BY <1>2
  <2> QED BY <1>4, <2>1
<1> QED BY <1>1, <1>5

\* Only(s, S) has the members of s that are in S, and repeats nothing that s
\* does not repeat.
LEMMA OnlyFacts ==
  ASSUME NEW T, NEW s \in Seq(T), NEW S
  PROVE  /\ Only(s, S) \in Seq(T)
         /\ Range(Only(s, S)) = Range(s) \intersect S
         /\ IsInjective(s) => IsInjective(Only(s, S))
<1> DEFINE N == Len(s)
<1>1. PICK pick :
        /\ Only(s, S) = pick[N]
        /\ pick[0] = <<>>
        /\ \A n \in 1..N :
             pick[n] = IF s[n] \in S THEN Append(pick[n - 1], s[n]) ELSE pick[n - 1]
  BY OnlyUnfolds
<1>2. N \in Nat /\ \A i \in 1..N : s[i] \in T
  BY LenProperties, ElementOfSeq
<1> HIDE DEF N
<1> DEFINE Right(n) == /\ pick[n] \in Seq(T)
                       /\ Range(pick[n]) = {s[i] : i \in 1..n} \intersect S
                       /\ IsInjective(s) => IsInjective(pick[n])
<1>5. \A n \in 0..N : Right(n)
  <2> DEFINE B == {n \in 0..N : ~Right(n)}
  <2>1. SUFFICES ASSUME B # {} PROVE FALSE
    OBVIOUS
  <2>2. PICK k \in B : \A m \in B : k <= m
    <3> HIDE DEF B
    <3>1. B \subseteq Nat
      BY <1>2 DEF B
    <3> QED BY <2>1, <3>1, LeastNatural
  <2>3. k \in 0..N /\ ~Right(k)
    OBVIOUS
  <2>4. CASE k = 0
    <3>1. pick[k] = <<>>
      BY <1>1, <2>4
    <3>2. {s[i] : i \in 1..k} = {}
      BY <2>4
    <3> QED BY <2>3, <3>1, <3>2, EmptyFacts
  <2>5. CASE k # 0
    <3>1. k - 1 \in 0..N /\ k \in 1..N /\ Right(k - 1)
      BY <1>2, <2>2, <2>3, <2>5
    <3>2. pick[k] = IF s[k] \in S THEN Append(pick[k - 1], s[k]) ELSE pick[k - 1]
      BY <1>1, <3>1
    <3>3. 1..k = 1..(k - 1) \union {k}
      BY <1>2, <3>1
    <3>4. {s[i] : i \in 1..k} = {s[i] : i \in 1..(k - 1)} \union {s[k]}
      BY <3>3
    <3>5. CASE s[k] \in S
      <4>1. IsInjective(s) => s[k] \notin {s[i] : i \in 1..(k - 1)}
        <5>1. IsInjective(s) => \A i, j \in 1..N : s[i] = s[j] => i = j
          BY RangeFacts DEF N
        <5>2. \A i \in 1..(k - 1) : i \in 1..N /\ i # k
          BY <1>2, <3>1
        <5> QED BY <3>1, <5>1, <5>2
      <4>2. /\ Append(pick[k - 1], s[k]) \in Seq(T)
            /\ Range(Append(pick[k - 1], s[k])) = Range(pick[k - 1]) \union {s[k]}
            /\ IsInjective(pick[k - 1]) /\ s[k] \notin Range(pick[k - 1])
                 => IsInjective(Append(pick[k - 1], s[k]))
        BY <1>2, <3>1, AppendFacts
      <4>3. Range(pick[k]) = {s[i] : i \in 1..k} \intersect S
        BY <3>1, <3>2, <3>4, <3>5, <4>2
      <4> QED BY <2>3, <3>1, <3>2, <3>5, <4>1, <4>2, <4>3
    <3>6. CASE s[k] \notin S
      <4>1. Range(pick[k]) = {s[i] : i \in 1..k} \intersect S
        BY <3>1, <3>2, <3>4, <3>6
      <4> QED BY <2>3, <3>1, <3>2, <3>6, <4>1
    <3> QED BY <3>5, <3>6
  <2> QED BY <2>4, <2>5
<1>6. Range(s) = {s[i] : i \in 1..N}
  BY RangeFacts DEF N
<1>7. Right(N)
  <2> HIDE DEF Right
  <2> QED BY <1>2, <1>5
<1> QED BY <1>1, <1>6, <1>7

\* The last element of Only(s, S) is the last one of s that is in S.
LEMMA LastOfOnly ==
  ASSUME NEW T, NEW s \in Seq(T), NEW S, Only(s, S) # <<>>
  PROVE  \E i \in 1..Len(s) :
           /\ s[i] = Last(Only(s, S)) /\ s[i] \in S
           /\ \A k \in 1..Len(s) : k > i => s[k] \notin S
<1> DEFINE N == Len(s)
<1>1. PICK pick :
        /\ Only(s, S) = pick[N]
        /\ pick[0] = <<>>
        /\ \A n \in 1..N :
             pick[n] = IF s[n] \in S THEN Append(pick[n - 1], s[n]) ELSE pick[n - 1]
  BY OnlyUnfolds
<1>2. N \in Nat /\ \A i \in 1..N : s[i] \in T
  BY LenProperties, ElementOfSeq
<1> HIDE DEF N
<1> DEFINE In == {i \in 1..N : s[i] \in S}
<1>3. In # {}
  <2>1. Only(s, S) \in Seq(T) /\ Range(Only(s, S)) = Range(s) \intersect S
    BY OnlyFacts
  <2>2. Range(Only(s, S)) # {}
    BY <2>1, RangeFacts
  <2>3. Range(s) = {s[i] : i \in 1..N}
    BY RangeFacts DEF N
  <2> QED BY <2>1, <2>2, <2>3
<1>4. PICK i \in In : \A k \in In : k <= i
  <2>1. In \subseteq Int /\ IsFiniteSet(In)
    <3>1. IsFiniteSet(1..N) /\ In \in SUBSET (1..N) /\ In \subseteq Int
      BY <1>2, FS_Interval
    <3> HIDE DEF In
    <3> QED BY <3>1, FS_Subset
  <2> HIDE DEF In
  <2>2. Max(In) \in In /\ \A k \in In : k <= Max(In)
    BY <1>3, <2>1, GreatestInteger
  <2> QED BY <2>2
<1>5. i \in 1..N /\ s[i] \in S /\ \A k \in 1..N : k > i => s[k] \notin S
  BY <1>2, <1>4
<1> HIDE DEF In
<1>6. \A n \in i..N : pick[n] = pick[i]
  <2> DEFINE B == {n \in i..N : pick[n] # pick[i]}
  <2>1. SUFFICES ASSUME B # {} PROVE FALSE
    OBVIOUS
  <2>2. PICK n \in B : \A m \in B : n <= m
    <3>1. B \subseteq Nat
      BY <1>2, <1>5
    <3> HIDE DEF B
    <3> QED BY <2>1, <3>1, LeastNatural
  <2>3. n \in i..N /\ n # i /\ pick[n] # pick[i]
    BY <2>2
  <2>4. n - 1 \in i..N /\ n \in 1..N /\ n > i /\ ~(n <= n - 1)
    BY <1>2, <1>5, <2>3
  <2>5. pick[n - 1] = pick[i]
    BY <2>2, <2>4
  <2> QED BY <1>1, <1>5, <2>3, <2>4, <2>5
<1>7. pick[N] = Append(pick[i - 1], s[i])
  <2>1. N \in i..N
    BY <1>2, <1>5
  <2> QED BY <1>1, <1>5, <1>6, <2>1
<1>8. \A n \in 0..N : pick[n] \in Seq(T)
  <2> DEFINE B == {n \in 0..N : pick[n] \notin Seq(T)}
  <2>1. SUFFICES ASSUME B # {} PROVE FALSE
    OBVIOUS
  <2>2. PICK n \in B : \A m \in B : n <= m
    <3>1. B \subseteq Nat
      BY <1>2
    <3> HIDE DEF B
    <3> QED BY <2>1, <3>1, LeastNatural
  <2>3. n \in 0..N /\ pick[n] \notin Seq(T)
    BY <2>2
  <2>4. n # 0
    BY <1>1, <2>3, EmptySeq
  <2>5. n - 1 \in 0..N /\ n \in 1..N /\ ~(n <= n - 1)
    BY <1>2, <2>3, <2>4
  <2>6. pick[n - 1] \in Seq(T)
    BY <2>2, <2>5
  <2>7. Append(pick[n - 1], s[n]) \in Seq(T)
    BY <1>2, <2>5, <2>6, AppendProperties
  <2> QED BY <1>1, <2>3, <2>5, <2>6, <2>7
<1>9. Last(Append(pick[i - 1], s[i])) = s[i]
  <2>1. pick[i - 1] \in Seq(T) /\ s[i] \in T
    BY <1>2, <1>5, <1>8
  <2> QED BY <2>1, AppendProperties, LenProperties DEF Last
<1> QED BY <1>1, <1>5, <1>7, <1>9 DEF N

-----------------------------------------------------------------------------
(* The inductive invariant                                                 *)

Places == {"idle", "probing", "refused", "reserving", "running", "waiting",
           "queued", "sleeping", "cancelling", "completing", "closing", "done"}

Releasing == {"cancelling", "completing", "closing"}

Awaiting == {"waiting", "queued", "sleeping"}

\* The places of a goroutine that has no candidate.
Apart == {"idle", "probing", "refused", "done"}

Jobs == [pc : Places, ask : SUBSET Asks, est : Nat, todo : Seq(Models),
         scores : SUBSET (Models \X Int), order : Seq(Models),
         on : {<<>>} \union {<<m>> : m \in Models},
         plan : Seq(Limiters), kept : Seq(Limiters), held : SUBSET Limiters,
         due : [Buckets \union Quotas -> Nat], used : Nat]

\* A request of est tokens cannot pass l, or one of the limiters of m, ever.
Exceeds(est, l) == l \in TokenLimiters /\ est > LimitOf[l]

Asked(est, m) == Range(ReserveOrder(est, m))

Hopeless(est, m) == \E l \in Asked(est, m) : Exceeds(est, l)

\* The models that have been probed.
Probed(j) == {s[1] : s \in j.scores}

\* The estimate is that of the request.
EstimateInv(j) ==
  \/ j.ask = {} /\ j.est = 0
  \/ \E ask \in Asks : j.ask = {ask} /\ j.est = EstimateTokens(ask)

\* The candidates, probed or not, are those of the request, none of them is
\* there twice, and the infinite delays are those of the hopeless ones.
ProbeInv(j) ==
  /\ IsInjective(j.todo) /\ IsFiniteSet(j.scores)
  /\ Range(j.todo) \intersect Probed(j) = {}
  /\ \A s, t \in j.scores : s[1] = t[1] => s = t
  /\ \A s \in j.scores : s[2] = Inf <=> Hopeless(j.est, s[1])
  /\ \A ask \in j.ask : Range(j.todo) \union Probed(j) \subseteq Range(CandidatesOf(ask))

\* So are those that are tried, and they are not hopeless.
OrderInv(j) ==
  /\ IsInjective(j.order)
  /\ Range(j.order) \intersect Range(j.on) = {}
  /\ \A m \in Range(j.order) \union Range(j.on) : ~Hopeless(j.est, m)
  /\ \A ask \in j.ask :
       Range(j.order) \union Range(j.on) \subseteq Range(CandidatesOf(ask))

\* What is probed, reserved, acquired, and still to call, by the phase.
PhaseInv(j) ==
  /\ j.pc = "probing" =>
       \A ask \in j.ask : Range(CandidatesOf(ask)) \subseteq Range(j.todo) \union Probed(j)
  /\ j.pc = "idle" => j.ask = {} /\ j.scores = {} /\ j.order = <<>>
  /\ j.held \subseteq Range(j.kept)
  /\ IsInjective(j.kept) /\ IsInjective(j.plan)
  /\ j.pc \in Apart => j.on = <<>> /\ j.kept = <<>> /\ j.plan = <<>>
  /\ j.pc \notin Apart => j.on # <<>>
  /\ j.pc = "reserving" =>
       /\ Range(j.kept) \intersect Range(j.plan) = {}
       /\ Range(j.kept) \union Range(j.plan) = Asked(j.est, j.on[1])
  /\ j.pc \notin Apart \union {"reserving"} => Range(j.kept) = Asked(j.est, j.on[1])
  /\ j.pc \in Awaiting =>
       /\ Range(j.plan) \subseteq Range(j.kept)
       /\ Semaphores \intersect j.held \intersect Range(j.plan) = {}
       /\ Semaphores \intersect Range(j.kept) \subseteq j.held \union Range(j.plan)
  /\ j.pc = "running" =>
       j.plan = <<>> /\ Semaphores \intersect Range(j.kept) \subseteq j.held
  /\ j.pc \in Releasing => j.plan # <<>> /\ Range(j.plan) = j.held
  /\ j.pc = "queued" => j.plan # <<>> /\ Head(j.plan) \in Semaphores
  /\ j.pc = "sleeping" => j.plan # <<>>

JobOK(j) == j \in Jobs /\ EstimateInv(j) /\ ProbeInv(j) /\ OrderInv(j) /\ PhaseInv(j)

\* Only a context that is done cancels reservations or refuses a request that
\* has a candidate.
RefusalOK(j, dead) ==
  /\ j.pc = "cancelling" => dead
  /\ j.pc = "refused" =>
       \/ dead
       \/ \A ask \in j.ask : \A m \in Range(CandidatesOf(ask)) : Hopeless(j.est, m)

JobInv ==
  /\ job \in [Requests -> Jobs]
  /\ \A r \in Requests : JobOK(job[r]) /\ RefusalOK(job[r], r \in expired)

LimiterInv ==
  /\ sem \in [Semaphores -> [cur : Nat, queue : Seq(Requests)]]
  /\ \A l \in Semaphores : sem[l] \in SemaphoreOf(LimitOf[l], Requests)
  /\ bucket \in [Buckets -> AnyBucket]
  /\ quota \in [Quotas -> QuotaOf(DayTicks)]
  /\ expired \subseteq Requests

QueuedAt(j, l) == j.pc = "queued" /\ Head(j.plan) = l

\* A queue holds the goroutines that wait in it, each once.
QueueInv ==
  \A l \in Semaphores :
    /\ Distinct(sem[l].queue)
    /\ \A r \in Requests : r \in Members(sem[l].queue) <=> QueuedAt(job[r], l)

Holders(l) == {r \in Requests : l \in job[r].held}

\* The slots in use are those of the requests that hold one.
HolderInv ==
  \A l \in Semaphores :
    IsFiniteSet(Holders(l)) /\ sem[l].cur = Cardinality(Holders(l))

IInv == LimiterInv /\ JobInv /\ QueueInv /\ HolderInv

-----------------------------------------------------------------------------
(* What is asked for                                                       *)

LEMMA EstimateType ==
  ASSUME NEW ask \in Asks
  PROVE  EstimateTokens(ask) \in Nat
<1>1. ask.chars \in Nat /\ ask.images \in Nat /\ OutputBuffer \in Nat
  BY ElectionAssumption, CatalogueAssumption
<1>2. TextTokens(ask.chars) \in Nat
  BY <1>1 DEF TextTokens
<1> QED BY <1>1, <1>2 DEF EstimateTokens

\* The models a name stands for as an alias are those the configuration means
\* by it.
LEMMA AliasFacts ==
  ASSUME NEW name
  PROVE  /\ AliasModels(name) \in Seq(Models) /\ IsInjective(AliasModels(name))
         /\ \A m \in Range(AliasModels(name)) : Means(m, name)
         /\ \A m \in Models : Means(m, name) =>
              SpecOf[m].id = name \/ m \in Range(AliasModels(name))
<1> DEFINE A == AliasConfigs
<1> DEFINE T == Range(A)
<1> DEFINE S == {a \in T : a.id = name /\ Resolve(a) # <<>>}
<1> DEFINE named == Only(A, S)
<1>1. /\ A \in Seq(T) /\ Len(A) \in Nat /\ DOMAIN A = 1..Len(A)
      /\ \A i \in 1..Len(A) : A[i] \in T
  <2>1. A \in Seq(T)
    BY CatalogueAssumption
  <2> HIDE DEF A, T
  <2> QED BY <2>1, LenProperties, ElementOfSeq
<1>2. ASSUME NEW a
      PROVE  /\ Resolve(a) \in Seq(Models) /\ IsInjective(Resolve(a))
             /\ \A m : m \in Range(Resolve(a)) <=> m \in Models /\ StandsFor(a, m)
             /\ Resolve(a) = <<>> <=> \A m \in Models : ~StandsFor(a, m)
  <2> DEFINE W == {m \in Models : SpecOf[m].id = a.model /\ a.upstream \in {"", SpecOf[m].upstream}}
  <2>1. Resolve(a) = Only(Configured, W)
    BY DEF Resolve
  <2>2. Configured \in Seq(Models) /\ IsInjective(Configured)
    BY CatalogueAssumption
  <2>3. \A m : m \in W <=> m \in Models /\ StandsFor(a, m)
    BY DEF StandsFor
  <2> HIDE DEF W
  <2>4. /\ Resolve(a) \in Seq(Models) /\ IsInjective(Resolve(a))
        /\ Range(Resolve(a)) = Range(Configured) \intersect W
    BY <2>1, <2>2, OnlyFacts
  <2>5. Resolve(a) = <<>> <=> Range(Resolve(a)) = {}
    BY <2>4, RangeFacts
  <2> QED BY <2>3, <2>4, <2>5 DEF Models
<1>3. AliasModels(name) = IF named = <<>> THEN <<>> ELSE Resolve(Last(named))
  BY DEF AliasModels
<1>4. \A a \in T : a \in S <=> a.id = name /\ \E m \in Models : StandsFor(a, m)
  BY <1>2
<1> HIDE DEF A, T, S, named
<1>5. named \in Seq(T) /\ Range(named) = T \intersect S
  <2>1. Range(A) = T
    BY DEF T
  <2> QED BY <1>1, <2>1, OnlyFacts DEF named
<1>6. CASE named = <<>>
  <2>1. \A a \in T : a \notin S
    BY <1>5, <1>6, EmptyFacts
  <2>2. \A m \in Models : Means(m, name) => SpecOf[m].id = name
    BY <1>1, <1>4, <2>1 DEF Means, A
  <2> QED BY <1>3, <1>6, <2>2, EmptyFacts
<1>7. CASE named # <<>>
  <2>1. PICK i \in 1..Len(A) :
          /\ A[i] = Last(named) /\ A[i] \in S
          /\ \A k \in 1..Len(A) : k > i => A[k] \notin S
    BY <1>1, <1>7, LastOfOnly DEF named
  <2>2. A[i].id = name /\ AliasModels(name) = Resolve(A[i])
    BY <1>1, <1>3, <1>4, <1>7, <2>1
  <2>3. \A k \in DOMAIN A : k > i /\ A[k].id = name => \A n \in Models : ~StandsFor(A[k], n)
    BY <1>1, <1>4, <2>1
  <2>4. \A m \in Range(AliasModels(name)) : Means(m, name)
    BY <1>1, <1>2, <2>2, <2>3 DEF Means, A
  <2>5. ASSUME NEW m \in Models, Means(m, name), SpecOf[m].id # name
        PROVE  m \in Range(AliasModels(name))
    <3>1. PICK k \in DOMAIN A :
            /\ A[k].id = name /\ StandsFor(A[k], m)
            /\ \A h \in DOMAIN A :
                 h > k /\ A[h].id = name => \A n \in Models : ~StandsFor(A[h], n)
      BY <2>5 DEF Means, A
    <3>2. A[k] \in S
      BY <1>1, <1>4, <3>1
    <3>3. ~(k > i)
      BY <1>1, <2>1, <3>1, <3>2
    <3>4. ~(i > k)
      BY <1>1, <1>4, <2>1, <2>2, <3>1
    <3>5. i = k
      BY <1>1, <2>1, <3>1, <3>3, <3>4
    <3> QED BY <1>2, <2>2, <3>1, <3>5
  <2> QED BY <1>2, <2>2, <2>4, <2>5
<1> QED BY <1>6, <1>7

\* The candidates of a request: each once, all of them capable, and meant by
\* its name if a capable model is.
LEMMA CandidatesFacts ==
  ASSUME NEW ask \in Asks
  PROVE  /\ CandidatesOf(ask) \in Seq(Models) /\ IsInjective(CandidatesOf(ask))
         /\ \A m \in Range(CandidatesOf(ask)) :
              /\ Serves(m, ask)
              /\ (\E n \in Models : Serves(n, ask) /\ Means(n, ask.model)) =>
                   Means(m, ask.model)
<1> DEFINE C == {m \in Models : Serves(m, ask)}
<1> DEFINE W == {m \in Models : SpecOf[m].id = ask.model}
<1> DEFINE all == AllCandidates(ask)
<1> DEFINE own == OwnMatches(ask)
<1> DEFINE alias == Only(AliasModels(ask.model), C \ Range(own))
<1>1. all \in Seq(Models) /\ IsInjective(all) /\ Range(all) = C
  <2>1. Configured \in Seq(Models) /\ IsInjective(Configured)
    BY CatalogueAssumption
  <2>2. all = Only(Configured, C)
    BY DEF AllCandidates
  <2>3. C \subseteq Range(Configured)
    BY DEF Models
  <2> HIDE DEF C, all
  <2>4. /\ all \in Seq(Models) /\ IsInjective(all)
        /\ Range(all) = Range(Configured) \intersect C
    BY <2>1, <2>2, OnlyFacts
  <2> QED BY <2>3, <2>4
<1>2. own \in Seq(Models) /\ IsInjective(own) /\ Range(own) = C \intersect W
  <2>1. own = Only(all, W)
    BY DEF OwnMatches
  <2> HIDE DEF C, all, own, W
  <2> QED BY <1>1, <2>1, OnlyFacts
<1>3. /\ alias \in Seq(Models) /\ IsInjective(alias)
      /\ Range(alias) = Range(AliasModels(ask.model)) \intersect (C \ Range(own))
  <2> HIDE DEF C, own
  <2> QED BY AliasFacts, OnlyFacts
<1>4. Matching(ask) = own \o alias
  BY DEF Matching
<1>5. /\ own \o alias \in Seq(Models) /\ IsInjective(own \o alias)
      /\ Range(own \o alias) = Range(own) \union Range(alias)
  <2>1. Range(own) \intersect Range(alias) = {}
    BY <1>3
  <2> HIDE DEF C, own, alias
  <2> QED BY <1>2, <1>3, <2>1, ConcatFacts
<1>6. CandidatesOf(ask) = IF own \o alias # <<>> THEN own \o alias ELSE all
  BY <1>4 DEF CandidatesOf
<1>7. own \o alias = <<>> <=> Range(own) = {} /\ Range(alias) = {}
  <2> HIDE DEF own, alias
  <2> QED BY <1>5, RangeFacts
<1>8. \A m \in C : Serves(m, ask)
  OBVIOUS
<1>9. \A m \in Range(own) \union Range(alias) : m \in C /\ Means(m, ask.model)
  <2>1. \A m \in C \intersect W : Means(m, ask.model)
    BY DEF Means
  <2> HIDE DEF C, W, own, alias
  <2> QED BY <1>2, <1>3, <2>1, AliasFacts
<1>10. ASSUME NEW n \in Models, Serves(n, ask), Means(n, ask.model)
       PROVE  n \in Range(own) \union Range(alias)
  <2>1. n \in C /\ (n \in W \/ n \in Range(AliasModels(ask.model)))
    BY <1>10, AliasFacts
  <2> HIDE DEF C, W, own, alias
  <2> QED BY <1>2, <1>3, <2>1
<1> HIDE DEF C, W, all, own, alias
<1>11. CASE own \o alias = <<>>
  BY <1>1, <1>6, <1>7, <1>8, <1>10, <1>11
<1>12. CASE own \o alias # <<>>
  BY <1>5, <1>6, <1>8, <1>9, <1>12
<1> QED BY <1>11, <1>12

\* Every limiter of a candidate is called once.
LEMMA AskedFacts ==
  ASSUME NEW est \in Nat, NEW m \in Models
  PROVE  /\ ReserveOrder(est, m) \in Seq(Limiters)
         /\ IsInjective(ReserveOrder(est, m))
         /\ Asked(est, m) \subseteq Limiters
         /\ IsFiniteSet(Asked(est, m))
<1> DEFINE e == IF est > 0 THEN 1 ELSE 0
<1>1. e \in 0..1 /\ (e > 0 <=> est > 0)
  OBVIOUS
<1>2. ReserveOrder(est, m) = ReserveOrder(e, m)
  BY <1>1 DEF ReserveOrder
<1> HIDE DEF e
<1>3. ReserveOrder(e, m) \in Seq(Limiters) /\ IsInjective(ReserveOrder(e, m))
  BY <1>1, GroupsAssumption
<1> QED BY <1>2, <1>3, RangeFacts, RangeFinite DEF Asked

LEMMA SetOrderFacts ==
  ASSUME NEW kept \in Seq(Limiters), IsInjective(kept)
  PROVE  /\ SetOrder(kept) \in Seq(Limiters)
         /\ IsInjective(SetOrder(kept))
         /\ Range(SetOrder(kept)) = Range(kept)
<1> DEFINE a == Only(kept, Limiters \ TokenLimiters)
<1> DEFINE b == Only(kept, TokenLimiters)
<1>1. /\ a \in Seq(Limiters) /\ IsInjective(a)
      /\ Range(a) = Range(kept) \intersect (Limiters \ TokenLimiters)
  BY OnlyFacts
<1>2. /\ b \in Seq(Limiters) /\ IsInjective(b)
      /\ Range(b) = Range(kept) \intersect TokenLimiters
  BY OnlyFacts
<1>3. SetOrder(kept) = a \o b
  BY DEF SetOrder
<1> HIDE DEF a, b
<1>4. /\ a \o b \in Seq(Limiters) /\ Range(a \o b) = Range(a) \union Range(b)
      /\ IsInjective(a \o b)
  <2>1. Range(a) \intersect Range(b) = {}
    BY <1>1, <1>2
  <2> QED BY <1>1, <1>2, <2>1, ConcatFacts
<1>5. Range(kept) \subseteq Limiters
  BY RangeFacts
<1> QED BY <1>1, <1>2, <1>3, <1>4, <1>5

\* The reservations that are waited for, and those that are released.
LEMMA ToCallFacts ==
  ASSUME NEW j \in Jobs, IsInjective(j.kept), j.held \subseteq Range(j.kept)
  PROVE  /\ ToWait(j) \in Seq(Limiters) /\ IsInjective(ToWait(j))
         /\ Range(ToWait(j)) =
              Range(j.kept) \intersect (Buckets \union (Limiters \ j.held))
         /\ ToRelease(j) \in Seq(Limiters) /\ IsInjective(ToRelease(j))
         /\ Range(ToRelease(j)) = j.held
<1>1. j.kept \in Seq(Limiters)
  BY DEF Jobs
<1>2. /\ SetOrder(j.kept) \in Seq(Limiters) /\ IsInjective(SetOrder(j.kept))
      /\ Range(SetOrder(j.kept)) = Range(j.kept)
  BY <1>1, SetOrderFacts
<1> QED BY <1>2, OnlyFacts DEF ToWait, ToRelease

-----------------------------------------------------------------------------
(* The changes of a job                                                    *)

\* What is known of the request and of its candidates is kept while they are,
\* whatever becomes of the reservations.
LEMMA SameRoute ==
  ASSUME NEW j, NEW k, EstimateInv(j), ProbeInv(j), OrderInv(j),
         k.ask = j.ask, k.est = j.est, k.todo = j.todo, k.scores = j.scores,
         k.order = j.order, k.on = j.on \/ k.on = <<>>,
         k.pc \notin {"idle", "probing"}
  PROVE  EstimateInv(k) /\ ProbeInv(k) /\ OrderInv(k)
<1>1. EstimateInv(k)
  BY DEF EstimateInv
<1>2. ProbeInv(k)
  BY DEF ProbeInv, Probed
<1>3. Range(k.on) \subseteq Range(j.on)
  BY EmptyFacts
<1>4. OrderInv(k)
  BY <1>3 DEF OrderInv
<1> QED BY <1>1, <1>2, <1>4

\* The timers and the token count are nobody's concern.
LEMMA SameButTimers ==
  ASSUME NEW j, NEW k \in Jobs, JobOK(j),
         k.pc = j.pc, k.ask = j.ask, k.est = j.est, k.todo = j.todo,
         k.scores = j.scores, k.order = j.order, k.on = j.on,
         k.plan = j.plan, k.kept = j.kept, k.held = j.held
  PROVE  JobOK(k)
<1>1. EstimateInv(k)
  BY DEF EstimateInv, JobOK
<1>2. ProbeInv(k)
  BY DEF ProbeInv, Probed, JobOK
<1>3. OrderInv(k)
  BY DEF OrderInv, JobOK
<1>4. PhaseInv(k)
  BY DEF PhaseInv, Probed, JobOK
<1> QED BY <1>1, <1>2, <1>3, <1>4 DEF JobOK

\* The next candidate, or none.
LEMMA NextCandidateOK ==
  ASSUME NEW j \in Jobs, EstimateInv(j), ProbeInv(j), OrderInv(j),
         j.on = <<>>, j.kept = <<>>, j.plan = <<>>, j.held = {}
  PROVE  /\ JobOK(NextCandidate(j))
         /\ NextCandidate(j).held = {}
         /\ NextCandidate(j).pc \in {"refused", "reserving"}
         /\ NextCandidate(j).pc = "refused" => j.order = <<>>
         /\ NextCandidate(j).ask = j.ask /\ NextCandidate(j).est = j.est
<1> DEFINE k == NextCandidate(j)
<1>1. CASE j.order = <<>>
  <2>1. k = [j EXCEPT !.pc = "refused"]
    BY <1>1 DEF NextCandidate
  <2>2. /\ k \in Jobs /\ k.pc = "refused" /\ k.ask = j.ask /\ k.est = j.est
        /\ k.todo = j.todo /\ k.scores = j.scores /\ k.order = j.order
        /\ k.on = j.on /\ k.plan = j.plan /\ k.kept = j.kept /\ k.held = j.held
    BY <2>1 DEF Jobs, Places
  <2> HIDE DEF k
  <2>3. EstimateInv(k)
    BY <2>2 DEF EstimateInv
  <2>4. ProbeInv(k)
    BY <2>2 DEF ProbeInv, Probed
  <2>5. OrderInv(k)
    BY <2>2 DEF OrderInv
  <2>6. PhaseInv(k)
    BY <2>2, EmptyFacts DEF PhaseInv, Apart, Awaiting, Releasing
  <2> QED BY <1>1, <2>2, <2>3, <2>4, <2>5, <2>6 DEF JobOK, k
<1>2. CASE j.order # <<>>
  <2> DEFINE m == Head(j.order)
  <2>1. /\ m \in Models /\ m \in Range(j.order) /\ Tail(j.order) \in Seq(Models)
        /\ Range(j.order) = {m} \union Range(Tail(j.order))
        /\ IsInjective(Tail(j.order)) /\ m \notin Range(Tail(j.order))
    BY <1>2, TailFacts DEF Jobs, OrderInv
  <2>2. j.est \in Nat
    BY DEF Jobs
  <2>3. /\ ReserveOrder(j.est, m) \in Seq(Limiters)
        /\ IsInjective(ReserveOrder(j.est, m))
    BY <2>1, <2>2, AskedFacts
  <2>4. k = [j EXCEPT !.pc = "reserving", !.on = <<m>>, !.order = Tail(j.order),
                      !.plan = ReserveOrder(j.est, m)]
    BY <1>2 DEF NextCandidate
  <2> DEFINE t == Tail(j.order)
  <2> DEFINE p == ReserveOrder(j.est, m)
  <2> DEFINE o == <<m>>
  <2>o. o \in {<<>>} \union {<<x>> : x \in Models}
    BY <2>1
  <2>k. k = [j EXCEPT !.pc = "reserving", !.on = o, !.order = t, !.plan = p]
    BY <2>4
  <2>t. t \in Seq(Models) /\ p \in Seq(Limiters)
    BY <2>1, <2>3
  <2> HIDE DEF m, t, p, o
  <2>f. /\ k \in Jobs /\ k.pc = "reserving" /\ k.ask = j.ask /\ k.est = j.est
        /\ k.todo = j.todo /\ k.scores = j.scores /\ k.order = t
        /\ k.on = o /\ k.plan = p
        /\ k.kept = j.kept /\ k.held = j.held
    BY <2>o, <2>k, <2>t DEF Jobs, Places
  <2>5. /\ k \in Jobs /\ k.pc = "reserving" /\ k.ask = j.ask /\ k.est = j.est
        /\ k.todo = j.todo /\ k.scores = j.scores /\ k.order = Tail(j.order)
        /\ k.on = <<m>> /\ k.plan = ReserveOrder(j.est, m)
        /\ k.kept = j.kept /\ k.held = j.held
    BY <2>f DEF t, o, p
  <2> HIDE DEF k
  <2>6. EstimateInv(k)
    BY <2>5 DEF EstimateInv
  <2>7. ProbeInv(k)
    BY <2>5 DEF ProbeInv, Probed
  <2>8. Range(k.on) = {m} /\ k.on # <<>> /\ k.on[1] = m
    BY <2>5 DEF Range
  <2>9. OrderInv(k)
    BY <2>1, <2>5, <2>8 DEF OrderInv
  <2>10. PhaseInv(k)
    <3>1. /\ Range(k.kept) = {} /\ IsInjective(k.kept)
          /\ Range(k.plan) = Asked(k.est, k.on[1])
      BY <2>5, <2>8, EmptyFacts DEF Asked
    <3> QED BY <2>3, <2>5, <2>8, <3>1 DEF PhaseInv, Apart, Awaiting, Releasing
  <2> QED BY <2>5, <2>6, <2>7, <2>9, <2>10 DEF JobOK, k
<1> QED BY <1>1, <1>2

\* A set of reservations is left.
LEMMA AfterSetOK ==
  ASSUME NEW j \in Jobs, EstimateInv(j), ProbeInv(j), OrderInv(j),
         j.pc \in Releasing, j.plan = <<>>, j.held = {}
  PROVE  /\ JobOK(AfterSet(j))
         /\ AfterSet(j).held = {}
         /\ AfterSet(j).pc \in {"refused", "reserving", "done"}
         /\ AfterSet(j).pc = "refused" => j.pc = "cancelling"
         /\ AfterSet(j).ask = j.ask /\ AfterSet(j).est = j.est
<1> DEFINE e == [j EXCEPT !.kept = <<>>, !.on = <<>>, !.used = 0]
<1>1. /\ e \in Jobs /\ e.pc = j.pc /\ e.ask = j.ask /\ e.est = j.est
      /\ e.todo = j.todo /\ e.scores = j.scores /\ e.order = j.order
      /\ e.on = <<>> /\ e.plan = j.plan /\ e.kept = <<>> /\ e.held = j.held
  BY EmptyFacts DEF Jobs
<1>2. AfterSet(j) = IF j.pc = "cancelling" THEN NextCandidate(e)
                    ELSE [e EXCEPT !.pc = "done"]
  BY DEF AfterSet
<1> HIDE DEF e
<1>3. EstimateInv(e) /\ ProbeInv(e) /\ OrderInv(e)
  BY <1>1, SameRoute DEF Releasing
<1>4. CASE j.pc = "cancelling"
  BY <1>1, <1>2, <1>3, <1>4, NextCandidateOK
<1>5. CASE j.pc # "cancelling"
  <2> DEFINE k == [e EXCEPT !.pc = "done"]
  <2>1. /\ k \in Jobs /\ k.pc = "done" /\ k.ask = e.ask /\ k.est = e.est
        /\ k.todo = e.todo /\ k.scores = e.scores /\ k.order = e.order
        /\ k.on = e.on /\ k.plan = e.plan /\ k.kept = e.kept /\ k.held = e.held
    BY <1>1 DEF Jobs, Places
  <2> HIDE DEF k
  <2>2. EstimateInv(k) /\ ProbeInv(k) /\ OrderInv(k)
    BY <1>3, <2>1, SameRoute
  <2>3. PhaseInv(k)
    BY <1>1, <2>1, EmptyFacts DEF PhaseInv, Apart, Awaiting, Releasing
  <2>4. AfterSet(j) = k
    BY <1>2, <1>5 DEF k
  <2> QED BY <1>1, <2>1, <2>2, <2>3, <2>4 DEF JobOK
<1> QED BY <1>4, <1>5

\* The reservations of a set begin to be released.
LEMMA StartReleaseOK ==
  ASSUME NEW j, JobOK(j), j.pc \notin Apart \union {"reserving"},
         NEW place \in Releasing,
         NEW k, k = StartRelease(j, place)
  PROVE  /\ JobOK(k)
         /\ k.held = j.held
         /\ k.pc \in Releasing \union {"refused", "reserving", "done"}
         /\ k.pc \in {"cancelling", "refused"} => place = "cancelling"
         /\ k.ask = j.ask /\ k.est = j.est
<1> DEFINE p == ToRelease(j)
<1> DEFINE s == [j EXCEPT !.pc = place, !.plan = p]
<1>1. j \in Jobs /\ IsInjective(j.kept) /\ j.held \subseteq Range(j.kept)
  BY DEF JobOK, PhaseInv
<1>2. p \in Seq(Limiters) /\ IsInjective(p) /\ Range(p) = j.held
  BY <1>1, ToCallFacts
<1>3. k = IF s.plan = <<>> THEN AfterSet(s) ELSE s
  BY DEF StartRelease
<1> HIDE DEF p
<1>4. /\ s \in Jobs /\ s.pc = place /\ s.ask = j.ask /\ s.est = j.est
      /\ s.todo = j.todo /\ s.scores = j.scores /\ s.order = j.order
      /\ s.on = j.on /\ s.plan = p /\ s.kept = j.kept /\ s.held = j.held
  BY <1>1, <1>2 DEF Jobs, Places, Releasing
<1> HIDE DEF s
<1>5. EstimateInv(s) /\ ProbeInv(s) /\ OrderInv(s)
  BY <1>4, SameRoute DEF JobOK, Releasing
<1>6. CASE p = <<>>
  <2>1. s.held = {} /\ s.plan = <<>> /\ s.pc \in Releasing
    BY <1>2, <1>4, <1>6, EmptyFacts
  <2>2. k = AfterSet(s)
    BY <1>3, <2>1
  <2>3. /\ JobOK(k) /\ k.held = {} /\ k.pc \in {"refused", "reserving", "done"}
        /\ k.pc = "refused" => s.pc = "cancelling"
        /\ k.ask = s.ask /\ k.est = s.est
    BY <1>4, <1>5, <2>1, <2>2, AfterSetOK
  <2> QED BY <1>4, <2>1, <2>3
<1>7. CASE p # <<>>
  <2>1. PhaseInv(s)
    BY <1>2, <1>4, <1>7 DEF JobOK, PhaseInv, Apart, Awaiting, Releasing
  <2>2. k = s
    BY <1>3, <1>4, <1>7
  <2>3. JobOK(k)
    BY <1>4, <1>5, <2>1, <2>2 DEF JobOK
  <2> QED BY <1>4, <2>2, <2>3 DEF Releasing
<1> QED BY <1>6, <1>7

\* One of them is released, the last one perhaps.
LEMMA AfterReleaseOK ==
  ASSUME NEW j, JobOK(j), j.pc \in Releasing,
         NEW k, k = AfterRelease(j)
  PROVE  /\ JobOK(k)
         /\ k.held = j.held \ {Head(j.plan)} /\ Head(j.plan) \in j.held
         /\ k.pc \in Releasing \union {"refused", "reserving", "done"}
         /\ k.pc \in {"cancelling", "refused"} => j.pc = "cancelling"
         /\ k.ask = j.ask /\ k.est = j.est
<1> DEFINE p == Tail(j.plan)
<1> DEFINE h == j.held \ {Head(j.plan)}
<1> DEFINE s == [j EXCEPT !.plan = p, !.held = h]
<1>1. j \in Jobs /\ IsInjective(j.plan) /\ j.plan # <<>> /\ Range(j.plan) = j.held
  BY DEF JobOK, PhaseInv
<1>2. /\ p \in Seq(Limiters) /\ IsInjective(p) /\ Range(p) = h
      /\ Head(j.plan) \in j.held
  BY <1>1, TailFacts DEF Jobs
<1>3. k = IF s.plan = <<>> THEN AfterSet(s) ELSE s
  BY <1>1 DEF AfterRelease, Jobs
<1>h. h \in SUBSET Limiters
  BY <1>1 DEF Jobs
<1> HIDE DEF p, h
<1>4. /\ s \in Jobs /\ s.pc = j.pc /\ s.ask = j.ask /\ s.est = j.est
      /\ s.todo = j.todo /\ s.scores = j.scores /\ s.order = j.order
      /\ s.on = j.on /\ s.plan = p /\ s.kept = j.kept /\ s.held = h
  BY <1>1, <1>2, <1>h DEF Jobs
<1> HIDE DEF s
<1>5. EstimateInv(s) /\ ProbeInv(s) /\ OrderInv(s)
  BY <1>4, SameRoute DEF JobOK, Releasing
<1>6. CASE p = <<>>
  <2>1. s.held = {} /\ s.plan = <<>> /\ s.pc \in Releasing
    BY <1>2, <1>4, <1>6, EmptyFacts
  <2>2. k = AfterSet(s)
    BY <1>3, <2>1
  <2>3. /\ JobOK(k) /\ k.held = {} /\ k.pc \in {"refused", "reserving", "done"}
        /\ k.pc = "refused" => s.pc = "cancelling"
        /\ k.ask = s.ask /\ k.est = s.est
    BY <1>4, <1>5, <2>1, <2>2, AfterSetOK
  <2>4. k.held = j.held \ {Head(j.plan)}
    BY <1>4, <2>1, <2>3 DEF h
  <2> QED BY <1>2, <1>4, <2>3, <2>4
<1>7. CASE p # <<>>
  <2>1. PhaseInv(s)
    BY <1>2, <1>4, <1>7 DEF JobOK, PhaseInv, Apart, Awaiting, Releasing, h
  <2>2. k = s
    BY <1>3, <1>4, <1>7
  <2>3. JobOK(k)
    BY <1>4, <1>5, <2>1, <2>2 DEF JobOK
  <2>4. k.held = j.held \ {Head(j.plan)}
    BY <1>4, <2>2 DEF h
  <2> QED BY <1>2, <1>4, <2>2, <2>3, <2>4 DEF Releasing
<1> QED BY <1>6, <1>7

\* A wait is over, with or without an acquired reservation.
LEMMA AfterWaitOK ==
  ASSUME NEW j \in Jobs, EstimateInv(j), ProbeInv(j), OrderInv(j),
         j.pc \in {"waiting", "queued"}, j.on # <<>>, j.plan # <<>>,
         IsInjective(j.kept), IsInjective(j.plan), j.held \subseteq Range(j.kept),
         Range(j.kept) = Asked(j.est, j.on[1]), Range(j.plan) \subseteq Range(j.kept),
         Semaphores \intersect j.held \intersect Range(Tail(j.plan)) = {},
         Semaphores \intersect Range(j.kept) \subseteq j.held \union Range(Tail(j.plan)),
         NEW k, k = AfterWait(j)
  PROVE  /\ JobOK(k)
         /\ k.held = j.held
         /\ k.pc \in {"running", "waiting"}
         /\ k.ask = j.ask /\ k.est = j.est
<1> DEFINE p == Tail(j.plan)
<1> DEFINE place == IF Len(j.plan) = 1 THEN "running" ELSE "waiting"
<1>1. /\ p \in Seq(Limiters) /\ IsInjective(p) /\ Range(p) \subseteq Range(j.plan)
      /\ p = <<>> <=> Len(j.plan) = 1
  <2>1. j.plan \in Seq(Limiters)
    BY DEF Jobs
  <2> QED BY <2>1, TailFacts
<1>2. k = [j EXCEPT !.pc = place, !.plan = p]
  BY DEF AfterWait
<1>3. place \in {"running", "waiting"} /\ (place = "running" <=> p = <<>>)
  BY <1>1
<1> HIDE DEF p, place
<1>4. /\ k \in Jobs /\ k.pc = place /\ k.ask = j.ask /\ k.est = j.est
      /\ k.todo = j.todo /\ k.scores = j.scores /\ k.order = j.order
      /\ k.on = j.on /\ k.plan = p /\ k.kept = j.kept /\ k.held = j.held
  BY <1>1, <1>2, <1>3 DEF Jobs, Places
<1>5. EstimateInv(k) /\ ProbeInv(k) /\ OrderInv(k)
  BY <1>3, <1>4, SameRoute
<1>6. /\ Semaphores \intersect j.held \intersect Range(p) = {}
      /\ Semaphores \intersect Range(j.kept) \subseteq j.held \union Range(p)
  BY DEF p
<1>7. PhaseInv(k)
  BY <1>1, <1>3, <1>4, <1>6, EmptyFacts
     DEF PhaseInv, Apart, Awaiting, Releasing
<1> QED BY <1>3, <1>4, <1>5, <1>7 DEF JobOK

\* The reservation that is waited for is acquired.
LEMMA AcquiredOK ==
  ASSUME NEW j, JobOK(j), j.pc \in {"waiting", "queued"}, j.plan # <<>>,
         NEW k, k = AfterWait([j EXCEPT !.held = @ \union {Head(j.plan)}])
  PROVE  /\ JobOK(k)
         /\ k.held = j.held \union {Head(j.plan)}
         /\ k.pc \in {"running", "waiting"}
         /\ Head(j.plan) \in Semaphores => Head(j.plan) \notin j.held
<1> DEFINE l == Head(j.plan)
<1> DEFINE h == j.held \union {l}
<1> DEFINE e == [j EXCEPT !.held = h]
<1>1. /\ j \in Jobs /\ j.plan \in Seq(Limiters) /\ IsInjective(j.plan)
      /\ IsInjective(j.kept) /\ j.held \subseteq Range(j.kept)
      /\ Range(j.kept) = Asked(j.est, j.on[1]) /\ Range(j.plan) \subseteq Range(j.kept)
      /\ Semaphores \intersect j.held \intersect Range(j.plan) = {}
      /\ Semaphores \intersect Range(j.kept) \subseteq j.held \union Range(j.plan)
      /\ j.held \subseteq Limiters /\ j.on # <<>>
  BY DEF JobOK, PhaseInv, Jobs, Apart, Awaiting
<1>2. /\ l \in Limiters /\ Range(j.plan) = {l} \union Range(Tail(j.plan))
      /\ l \notin Range(Tail(j.plan))
  BY <1>1, TailFacts
<1>3. h \in SUBSET Limiters
  BY <1>1, <1>2
<1>4. k = AfterWait(e)
  BY <1>1 DEF Jobs
<1> HIDE DEF l, h
<1>5. /\ e \in Jobs /\ e.pc = j.pc /\ e.ask = j.ask /\ e.est = j.est
      /\ e.todo = j.todo /\ e.scores = j.scores /\ e.order = j.order
      /\ e.on = j.on /\ e.plan = j.plan /\ e.kept = j.kept /\ e.held = h
  BY <1>1, <1>3 DEF Jobs
<1> HIDE DEF e
<1>6. EstimateInv(e) /\ ProbeInv(e) /\ OrderInv(e)
  BY <1>5, SameRoute DEF JobOK
<1>7. /\ h \subseteq Range(j.kept)
      /\ Semaphores \intersect h \intersect Range(Tail(j.plan)) = {}
      /\ Semaphores \intersect Range(j.kept) \subseteq h \union Range(Tail(j.plan))
  BY <1>1, <1>2 DEF h
<1>8. JobOK(k) /\ k.held = h /\ k.pc \in {"running", "waiting"}
  BY <1>1, <1>4, <1>5, <1>6, <1>7, AfterWaitOK
<1> QED BY <1>1, <1>2, <1>8 DEF h, l

\* A wait that acquires nothing is over.
LEMMA PassedOK ==
  ASSUME NEW j, JobOK(j), j.pc = "waiting", j.plan # <<>>, Head(j.plan) \notin Semaphores,
         NEW k, k = AfterWait(j)
  PROVE  JobOK(k) /\ k.held = j.held /\ k.pc \in {"running", "waiting"}
<1>1. /\ j \in Jobs /\ j.plan \in Seq(Limiters) /\ IsInjective(j.plan)
      /\ IsInjective(j.kept) /\ j.held \subseteq Range(j.kept)
      /\ Range(j.kept) = Asked(j.est, j.on[1]) /\ Range(j.plan) \subseteq Range(j.kept)
      /\ Semaphores \intersect j.held \intersect Range(j.plan) = {}
      /\ Semaphores \intersect Range(j.kept) \subseteq j.held \union Range(j.plan)
      /\ j.on # <<>> /\ EstimateInv(j) /\ ProbeInv(j) /\ OrderInv(j)
  BY DEF JobOK, PhaseInv, Jobs, Apart, Awaiting
<1>2. Range(j.plan) = {Head(j.plan)} \union Range(Tail(j.plan))
  BY <1>1, TailFacts
<1>3. /\ Semaphores \intersect j.held \intersect Range(Tail(j.plan)) = {}
      /\ Semaphores \intersect Range(j.kept) \subseteq j.held \union Range(Tail(j.plan))
  BY <1>1, <1>2
<1> QED BY <1>1, <1>3, AfterWaitOK

\* Between the waits: a goroutine queues, sleeps, and wakes.
LEMMA AwaitOK ==
  ASSUME NEW j, JobOK(j), j.pc \in Awaiting, j.plan # <<>>,
         NEW k \in Jobs, k.pc \in Awaiting,
         k.pc = "queued" => Head(j.plan) \in Semaphores,
         k.ask = j.ask, k.est = j.est, k.todo = j.todo,
         k.scores = j.scores, k.order = j.order, k.on = j.on,
         k.plan = j.plan, k.kept = j.kept, k.held = j.held
  PROVE  JobOK(k)
<1>1. EstimateInv(k) /\ ProbeInv(k) /\ OrderInv(k)
  BY SameRoute DEF JobOK, Awaiting
<1>2. PhaseInv(k)
  BY DEF JobOK, PhaseInv, Apart, Awaiting, Releasing
<1> QED BY <1>1, <1>2 DEF JobOK

\* A reservation is made, and acquired or not.
LEMMA ReservedOK ==
  ASSUME NEW j, JobOK(j), j.pc = "reserving", j.plan # <<>>,
         NEW acquired \in BOOLEAN,
         NEW k, k = Reserved(j, acquired)
  PROVE  /\ JobOK(k) /\ k.pc = "reserving"
         /\ k.held = IF acquired THEN j.held \union {Head(j.plan)} ELSE j.held
         /\ k.ask = j.ask /\ k.est = j.est /\ k.due = j.due
         /\ Head(j.plan) \notin j.held
<1> DEFINE l == Head(j.plan)
<1> DEFINE p == Tail(j.plan)
<1> DEFINE q == Append(j.kept, l)
<1> DEFINE h == IF acquired THEN j.held \union {l} ELSE j.held
<1>1. /\ j \in Jobs /\ j.plan \in Seq(Limiters) /\ j.kept \in Seq(Limiters)
      /\ IsInjective(j.kept) /\ IsInjective(j.plan) /\ j.held \subseteq Range(j.kept)
      /\ Range(j.kept) \intersect Range(j.plan) = {}
      /\ Range(j.kept) \union Range(j.plan) = Asked(j.est, j.on[1])
      /\ j.held \subseteq Limiters /\ j.on # <<>>
  BY DEF JobOK, PhaseInv, Jobs, Apart
<1>2. /\ p \in Seq(Limiters) /\ IsInjective(p) /\ Range(j.plan) = {l} \union Range(p)
      /\ l \in Limiters /\ l \notin Range(p) /\ l \notin Range(j.kept)
  <2>1. /\ p \in Seq(Limiters) /\ IsInjective(p) /\ Range(j.plan) = {l} \union Range(p)
        /\ l \in Limiters /\ l \notin Range(p)
    BY <1>1, TailFacts
  <2> QED BY <1>1, <2>1
<1> HIDE DEF l, p
<1>3. q \in Seq(Limiters) /\ IsInjective(q) /\ Range(q) = Range(j.kept) \union {l}
  BY <1>1, <1>2, AppendFacts
<1>4. k = [j EXCEPT !.plan = p, !.kept = q, !.held = h]
  BY <1>1 DEF Reserved, Jobs, l, p
<1>5. h \in SUBSET Limiters
  BY <1>1, <1>2
<1> HIDE DEF q, h
<1>6. /\ k \in Jobs /\ k.pc = j.pc /\ k.ask = j.ask /\ k.est = j.est
      /\ k.todo = j.todo /\ k.scores = j.scores /\ k.order = j.order
      /\ k.on = j.on /\ k.plan = p /\ k.kept = q /\ k.held = h /\ k.due = j.due
  BY <1>1, <1>2, <1>3, <1>4, <1>5 DEF Jobs
<1>7. EstimateInv(k) /\ ProbeInv(k) /\ OrderInv(k)
  BY <1>6, SameRoute DEF JobOK
<1>8. Range(k.kept) \union Range(k.plan) = Range(j.kept) \union Range(j.plan)
  BY <1>2, <1>3, <1>6
<1>9. k.held \subseteq Range(k.kept)
  BY <1>1, <1>3, <1>6 DEF h
<1>10. PhaseInv(k)
  BY <1>1, <1>2, <1>3, <1>6, <1>8, <1>9 DEF PhaseInv, Apart, Awaiting, Releasing
<1>11. l \notin j.held
  BY <1>1, <1>2
<1> QED BY <1>6, <1>7, <1>10, <1>11 DEF JobOK, l, h

\* All reservations of a candidate are made: the request runs, if it has its
\* slots, or waits.
LEMMA SetOK ==
  ASSUME NEW j, JobOK(j), j.pc = "reserving", j.plan = <<>>,
         NEW k,
         \/ /\ k = [j EXCEPT !.pc = "running"]
            /\ Semaphores \intersect Range(j.kept) \subseteq j.held
         \/ k = [j EXCEPT !.pc = "waiting", !.plan = ToWait(j)]
  PROVE  /\ JobOK(k) /\ k.pc \in {"running", "waiting"}
         /\ k.held = j.held /\ k.ask = j.ask /\ k.est = j.est
<1>1. /\ j \in Jobs /\ IsInjective(j.kept) /\ IsInjective(j.plan)
      /\ j.held \subseteq Range(j.kept) /\ j.on # <<>>
      /\ Range(j.kept) = Asked(j.est, j.on[1])
  BY EmptyFacts DEF JobOK, PhaseInv, Apart
<1>2. CASE /\ k = [j EXCEPT !.pc = "running"]
           /\ Semaphores \intersect Range(j.kept) \subseteq j.held
  <2>1. /\ k \in Jobs /\ k.pc = "running" /\ k.ask = j.ask /\ k.est = j.est
        /\ k.todo = j.todo /\ k.scores = j.scores /\ k.order = j.order
        /\ k.on = j.on /\ k.plan = j.plan /\ k.kept = j.kept /\ k.held = j.held
    BY <1>1, <1>2 DEF Jobs, Places
  <2>2. EstimateInv(k) /\ ProbeInv(k) /\ OrderInv(k)
    BY <2>1, SameRoute DEF JobOK
  <2>3. PhaseInv(k)
    BY <1>1, <1>2, <2>1 DEF PhaseInv, Apart, Awaiting, Releasing
  <2> QED BY <2>1, <2>2, <2>3 DEF JobOK
<1>3. CASE k = [j EXCEPT !.pc = "waiting", !.plan = ToWait(j)]
  <2> DEFINE p == ToWait(j)
  <2>1. /\ p \in Seq(Limiters) /\ IsInjective(p)
        /\ Range(p) = Range(j.kept) \intersect (Buckets \union (Limiters \ j.held))
    BY <1>1, ToCallFacts
  <2>2. k = [j EXCEPT !.pc = "waiting", !.plan = p]
    BY <1>3
  <2> HIDE DEF p
  <2>3. /\ k \in Jobs /\ k.pc = "waiting" /\ k.ask = j.ask /\ k.est = j.est
        /\ k.todo = j.todo /\ k.scores = j.scores /\ k.order = j.order
        /\ k.on = j.on /\ k.plan = p /\ k.kept = j.kept /\ k.held = j.held
    BY <1>1, <2>1, <2>2 DEF Jobs, Places
  <2>4. EstimateInv(k) /\ ProbeInv(k) /\ OrderInv(k)
    BY <2>3, SameRoute DEF JobOK
  <2>5. /\ Semaphores \intersect Buckets = {} /\ Semaphores \subseteq Limiters
    BY GroupsAssumption DEF Limiters
  <2>6. /\ Range(p) \subseteq Range(j.kept)
        /\ Semaphores \intersect j.held \intersect Range(p) = {}
        /\ Semaphores \intersect Range(j.kept) \subseteq j.held \union Range(p)
    BY <2>1, <2>5
  <2>7. PhaseInv(k)
    BY <1>1, <2>1, <2>3, <2>6 DEF PhaseInv, Apart, Awaiting, Releasing
  <2> QED BY <2>3, <2>4, <2>7 DEF JobOK
<1> QED BY <1>2, <1>3

\* A request arrives.
Arrived(j, ask) ==
  [j EXCEPT !.pc = IF CandidatesOf(ask) = <<>> THEN "refused" ELSE "probing",
            !.ask = {ask}, !.est = EstimateTokens(ask), !.todo = CandidatesOf(ask)]

LEMMA ArriveOK ==
  ASSUME NEW j, JobOK(j), j.pc = "idle", NEW ask \in Asks,
         NEW k, k = Arrived(j, ask)
  PROVE  /\ JobOK(k) /\ k.pc \in {"refused", "probing"} /\ k.held = j.held
         /\ RefusalOK(k, FALSE)
<1> DEFINE c == CandidatesOf(ask)
<1> DEFINE n == EstimateTokens(ask)
<1> DEFINE place == IF c = <<>> THEN "refused" ELSE "probing"
<1>1. c \in Seq(Models) /\ IsInjective(c) /\ n \in Nat
  BY CandidatesFacts, EstimateType
<1>2. place \in {"refused", "probing"} /\ (place = "refused" => Range(c) = {})
  BY EmptyFacts
<1>3. /\ j \in Jobs /\ j.scores = {} /\ j.order = <<>> /\ j.on = <<>>
      /\ j.kept = <<>> /\ j.plan = <<>> /\ j.held \subseteq Range(j.kept)
  BY DEF JobOK, PhaseInv, Apart
<1>4. k = [j EXCEPT !.pc = place, !.ask = {ask}, !.est = n, !.todo = c]
  BY DEF Arrived
<1>5. c = CandidatesOf(ask) /\ n = EstimateTokens(ask)
  OBVIOUS
<1> HIDE DEF c, n, place
<1>6. /\ k \in Jobs /\ k.pc = place /\ k.ask = {ask} /\ k.est = n
      /\ k.todo = c /\ k.scores = {} /\ k.order = <<>>
      /\ k.on = <<>> /\ k.plan = <<>> /\ k.kept = <<>> /\ k.held = j.held
  <2>1. {ask} \in SUBSET Asks
    OBVIOUS
  <2> QED BY <1>1, <1>2, <1>3, <1>4, <2>1 DEF Jobs, Places
<1>7. EstimateInv(k)
  BY <1>6, <1>5 DEF EstimateInv
<1>8. ProbeInv(k)
  <2>1. Probed(k) = {} /\ IsFiniteSet(k.scores)
    BY <1>6, FS_EmptySet DEF Probed
  <2> QED BY <1>1, <1>2, <1>6, <1>5, <2>1 DEF ProbeInv
<1>9. OrderInv(k)
  BY <1>6, EmptyFacts DEF OrderInv
<1>10. PhaseInv(k)
  BY <1>2, <1>3, <1>6, <1>5, EmptyFacts DEF PhaseInv, Apart, Awaiting, Releasing
<1>11. RefusalOK(k, FALSE)
  BY <1>2, <1>6, <1>5 DEF RefusalOK
<1> QED BY <1>2, <1>6, <1>7, <1>8, <1>9, <1>10, <1>11 DEF JobOK

\* A candidate is probed.
LEMMA ProbedOK ==
  ASSUME NEW j, JobOK(j), j.pc = "probing", j.todo # <<>>,
         NEW delay \in Int, delay = Inf <=> Hopeless(j.est, Head(j.todo)),
         NEW k, k = [j EXCEPT !.todo = Tail(@),
                              !.scores = @ \union {<<Head(j.todo), delay>>}]
  PROVE  JobOK(k) /\ k.pc = "probing" /\ k.held = j.held
<1> DEFINE m == Head(j.todo)
<1> DEFINE t == Tail(j.todo)
<1> DEFINE new == j.scores \union {<<m, delay>>}
<1>1. /\ j \in Jobs /\ j.todo \in Seq(Models) /\ IsInjective(j.todo)
      /\ j.scores \subseteq Models \X Int
  BY DEF JobOK, ProbeInv, Jobs
<1>2. /\ m \in Models /\ t \in Seq(Models) /\ IsInjective(t)
      /\ Range(j.todo) = {m} \union Range(t) /\ m \notin Range(t)
  BY <1>1, TailFacts
<1>3. new \in SUBSET (Models \X Int)
  BY <1>1, <1>2
<1>4. k = [j EXCEPT !.todo = t, !.scores = new]
  BY <1>1 DEF Jobs
<1>5. delay = Inf <=> Hopeless(j.est, m)
  OBVIOUS
<1> HIDE DEF m, t, new
<1>6. /\ k \in Jobs /\ k.pc = j.pc /\ k.ask = j.ask /\ k.est = j.est
      /\ k.todo = t /\ k.scores = new /\ k.order = j.order
      /\ k.on = j.on /\ k.plan = j.plan /\ k.kept = j.kept /\ k.held = j.held
  BY <1>1, <1>2, <1>3, <1>4 DEF Jobs
<1>7. EstimateInv(k) /\ OrderInv(k)
  BY <1>6 DEF JobOK, EstimateInv, OrderInv
<1>8. Probed(k) = Probed(j) \union {m} /\ m \notin Probed(j)
  <2>1. Probed(k) = Probed(j) \union {m}
    <3> DEFINE p == <<m, delay>>
    <3>1. p[1] = m /\ new = j.scores \union {p}
      BY DEF new
    <3> HIDE DEF p
    <3> QED BY <1>6, <3>1 DEF Probed
  <2> QED BY <1>2, <2>1 DEF JobOK, ProbeInv
<1>9. Range(t) \union Probed(k) = Range(j.todo) \union Probed(j)
  BY <1>2, <1>8
<1>10. ProbeInv(k)
  <2>1. IsFiniteSet(new)
    BY FS_AddElement DEF JobOK, ProbeInv, new
  <2>2. Range(t) \intersect Probed(k) = {}
    BY <1>2, <1>8 DEF JobOK, ProbeInv
  <2>3. \A s, u \in new : s[1] = u[1] => s = u
    <3>1. \A s \in j.scores : s[1] # m
      BY <1>8 DEF Probed
    <3> QED BY <3>1 DEF JobOK, ProbeInv, new
  <2>4. \A s \in new : s[2] = Inf <=> Hopeless(k.est, s[1])
    BY <1>5, <1>6 DEF JobOK, ProbeInv, new
  <2> QED BY <1>2, <1>6, <1>9, <2>1, <2>2, <2>3, <2>4 DEF JobOK, ProbeInv
<1>11. PhaseInv(k)
  BY <1>6, <1>9 DEF JobOK, PhaseInv, Apart
<1> QED BY <1>6, <1>7, <1>10, <1>11 DEF JobOK

\* A ranking has every model of a score once.
LEMMA RankingFacts ==
  ASSUME NEW tried \in SUBSET (Models \X Int), IsFiniteSet(tried),
         \A s, t \in tried : s[1] = t[1] => s = t,
         NEW o \in Rankings(tried),
         NEW q, q = [i \in DOMAIN o |-> o[i][1]]
  PROVE  /\ q \in Seq(Models) /\ IsInjective(q)
         /\ Range(q) = {s[1] : s \in tried}
<1> DEFINE n == Cardinality(tried)
<1>1. n \in Nat /\ o \in [1..n -> tried] /\ Range(o) = tried
  BY FS_CardinalityType DEF Rankings
<1> HIDE DEF n
<1>2. IsFiniteSet(1..n) /\ Cardinality(1..n) = Cardinality(tried)
  BY <1>1, FS_Interval DEF n
<1>3. o \in Surjection(1..n, tried)
  <2>1. \A t \in tried : \E i \in 1..n : o[i] = t
    BY <1>1 DEF Range
  <2> QED BY <1>1, <2>1 DEF Surjection
<1>4. o \in Injection(1..n, tried)
  BY <1>2, <1>3, FS_SurjSameCardinalityImpliesInj
<1>5. \A i, j \in 1..n : o[i] = o[j] => i = j
  BY <1>1, <1>4 DEF Injection, IsInjective
<1>6. \A s \in tried : s[1] \in Models
  OBVIOUS
<1>7. q \in [1..n -> Models] /\ DOMAIN q = 1..n /\ \A i \in 1..n : q[i] = o[i][1]
  BY <1>1, <1>6
<1>8. q \in Seq(Models)
  BY <1>1, <1>7
<1>9. IsInjective(q)
  BY <1>1, <1>5, <1>7 DEF IsInjective
<1>10. Range(q) = {s[1] : s \in tried}
  BY <1>1, <1>7 DEF Range
<1> QED BY <1>8, <1>9, <1>10

\* The candidates are ranked, and the first one is taken.
LEMMA RankOK ==
  ASSUME NEW j, JobOK(j), j.pc = "probing", j.todo = <<>>,
         NEW o \in Rankings(WorthATry(j.scores)),
         NEW k, k = NextCandidate([j EXCEPT
                      !.scores = {}, !.order = [i \in DOMAIN o |-> o[i][1]]])
  PROVE  /\ JobOK(k) /\ k.pc \in {"refused", "reserving"} /\ k.held = j.held
         /\ RefusalOK(k, FALSE)
<1> DEFINE tried == WorthATry(j.scores)
<1> DEFINE q == [i \in DOMAIN o |-> o[i][1]]
<1> DEFINE e == [j EXCEPT !.scores = {}, !.order = q]
<1>1. /\ j \in Jobs /\ j.scores \in SUBSET (Models \X Int) /\ IsFiniteSet(j.scores)
      /\ \A s, t \in j.scores : s[1] = t[1] => s = t
      /\ \A s \in j.scores : s[2] = Inf <=> Hopeless(j.est, s[1])
      /\ \A ask \in j.ask : Probed(j) = Range(CandidatesOf(ask))
      /\ j.on = <<>> /\ j.kept = <<>> /\ j.plan = <<>> /\ j.held = {}
  BY EmptyFacts DEF JobOK, ProbeInv, PhaseInv, Apart, Jobs
<1>2. /\ tried \in SUBSET j.scores /\ tried \in SUBSET (Models \X Int)
      /\ \A s \in j.scores : s \in tried <=> s[2] # Inf
      /\ \A s, t \in tried : s[1] = t[1] => s = t
  BY <1>1 DEF WorthATry
<1>3. q \in Seq(Models) /\ IsInjective(q) /\ Range(q) = {s[1] : s \in tried}
  <2> HIDE DEF tried, e
  <2>1. IsFiniteSet(tried) /\ o \in Rankings(tried)
    BY <1>1, <1>2, FS_Subset DEF tried
  <2> QED BY <1>2, <2>1, RankingFacts
<1> HIDE DEF tried, q
<1>4. /\ e \in Jobs /\ e.pc = j.pc /\ e.ask = j.ask /\ e.est = j.est
      /\ e.todo = j.todo /\ e.scores = {} /\ e.order = q
      /\ e.on = j.on /\ e.plan = j.plan /\ e.kept = j.kept /\ e.held = j.held
  BY <1>1, <1>3 DEF Jobs
<1>5. k = NextCandidate(e)
  BY DEF q
<1> HIDE DEF e
<1>6. EstimateInv(e)
  BY <1>4 DEF JobOK, EstimateInv
<1>7. \A m \in Range(q) : m \in Probed(j) /\ ~Hopeless(j.est, m)
  BY <1>1, <1>2, <1>3 DEF Probed
<1>8. OrderInv(e)
  BY <1>1, <1>3, <1>4, <1>7, EmptyFacts DEF OrderInv
<1>9. ProbeInv(e)
  <2>1. Probed(e) = {} /\ IsFiniteSet(e.scores)
    BY <1>4, FS_EmptySet DEF Probed
  <2> QED BY <1>4, <2>1 DEF JobOK, ProbeInv
<1>10. /\ JobOK(k) /\ k.held = {} /\ k.pc \in {"refused", "reserving"}
       /\ k.pc = "refused" => q = <<>>
       /\ k.ask = j.ask /\ k.est = j.est
  BY <1>1, <1>4, <1>5, <1>6, <1>8, <1>9, NextCandidateOK
<1>11. ASSUME q = <<>> PROVE \A m \in Probed(j) : Hopeless(j.est, m)
  <2>1. tried = {}
    BY <1>3, <1>11, EmptyFacts
  <2> QED BY <1>1, <1>2, <2>1 DEF Probed
<1>12. RefusalOK(k, FALSE)
  BY <1>1, <1>10, <1>11 DEF RefusalOK
<1> QED BY <1>1, <1>10, <1>12

\* A timer is set.
LEMMA TimerSet ==
  ASSUME NEW j, JobOK(j), NEW l \in Buckets \union Quotas, NEW x \in Nat,
         NEW k, k = [j EXCEPT !.due[l] = x]
  PROVE  /\ JobOK(k) /\ k.pc = j.pc /\ k.ask = j.ask /\ k.est = j.est
         /\ k.plan = j.plan /\ k.held = j.held
<1> DEFINE d == [j.due EXCEPT ![l] = x]
<1>1. j \in Jobs
  BY DEF JobOK
<1>2. d \in [Buckets \union Quotas -> Nat]
  BY <1>1 DEF Jobs
<1>3. k = [j EXCEPT !.due = d]
  BY <1>1 DEF Jobs
<1> HIDE DEF d
<1>4. /\ k \in Jobs /\ k.pc = j.pc /\ k.ask = j.ask /\ k.est = j.est
      /\ k.todo = j.todo /\ k.scores = j.scores /\ k.order = j.order
      /\ k.on = j.on /\ k.plan = j.plan /\ k.kept = j.kept /\ k.held = j.held
  BY <1>1, <1>2, <1>3 DEF Jobs
<1> QED BY <1>4, SameButTimers

\* The timers are set, or the token count is.
LEMMA TimersSet ==
  ASSUME NEW j, JobOK(j), NEW d \in [Buckets \union Quotas -> Nat], NEW n \in Nat,
         NEW k, k = [j EXCEPT !.due = d] \/ k = [j EXCEPT !.used = n]
  PROVE  /\ JobOK(k) /\ k.pc = j.pc /\ k.ask = j.ask /\ k.est = j.est
         /\ k.plan = j.plan /\ k.held = j.held
<1>1. j \in Jobs
  BY DEF JobOK
<1>2. /\ k \in Jobs /\ k.pc = j.pc /\ k.ask = j.ask /\ k.est = j.est
      /\ k.todo = j.todo /\ k.scores = j.scores /\ k.order = j.order
      /\ k.on = j.on /\ k.plan = j.plan /\ k.kept = j.kept /\ k.held = j.held
  BY <1>1 DEF Jobs
<1> QED BY <1>2, SameButTimers

-----------------------------------------------------------------------------
(* The delays of a candidate                                               *)

LEMMA LimitFacts ==
  /\ \A l \in Limiters : LimitOf[l] \in Nat \ {0}
  /\ DayTicks \in Nat \ {0}
  /\ Semaphores \subseteq Limiters /\ Buckets \subseteq Limiters
  /\ Quotas \subseteq Limiters
  /\ \A l \in Limiters : l \in Semaphores \/ l \in Buckets \/ l \in Quotas
  /\ \A l \in Semaphores : l \notin Buckets /\ l \notin Quotas /\ l \notin TokenLimiters
  /\ \A l \in Buckets : l \notin Quotas
BY ElectionAssumption, GroupsAssumption DEF Limiters

LEMMA CostFacts ==
  ASSUME NEW r \in Requests, NEW l \in Limiters, job[r].est \in Nat
  PROVE  /\ Cost(r, l) \in Nat
         /\ Oversized(r, l) <=> Exceeds(job[r].est, l)
         /\ Oversized(r, l) <=> Cost(r, l) > LimitOf[l]
BY LimitFacts DEF Cost, Oversized, Exceeds

LEMMA FlushedFacts ==
  ASSUME quota \in [Quotas -> QuotaOf(DayTicks)], NEW l \in Quotas
  PROVE  /\ Flushed(l) \in QuotaOf(DayTicks)
         /\ Flushed(l).untilReset \in Nat
<1>1. quota[l] \in QuotaOf(DayTicks) /\ DayTicks \in Nat \ {0}
  BY LimitFacts
<1>2. Flush(quota[l], DayTicks) \in QuotaOf(DayTicks) /\ Flush(quota[l], DayTicks).untilReset >= 0
  BY <1>1, FlushFacts
<1> QED BY <1>1, <1>2 DEF Flushed, QuotaOf

LEMMA FlushAllFacts ==
  ASSUME quota \in [Quotas -> QuotaOf(DayTicks)], NEW S, FlushAll(S)
  PROVE  quota' \in [Quotas -> QuotaOf(DayTicks)]
BY FlushedFacts DEF FlushAll

LEMMA ProbeOfFacts ==
  ASSUME LimiterInv, NEW r \in Requests, job[r].est \in Nat,
         NEW l \in Limiters, NEW guess \in Guesses
  PROVE  /\ ProbeOf(r, l, guess) \in Int
         /\ ProbeOf(r, l, guess) = Inf <=> Exceeds(job[r].est, l)
<1>1. /\ Cost(r, l) \in Nat /\ LimitOf[l] \in Nat
      /\ Oversized(r, l) <=> Exceeds(job[r].est, l)
      /\ Oversized(r, l) <=> Cost(r, l) > LimitOf[l]
  BY CostFacts, LimitFacts
<1>2. CASE l \in Semaphores
  <2>1. ProbeOf(r, l, guess) = IF HasRoom(sem[l], LimitOf[l]) THEN 0 ELSE guess
    BY <1>2, LimitFacts DEF ProbeOf
  <2>2. guess \in Nat \ {0} /\ ~Exceeds(job[r].est, l)
    BY <1>2, ElectionAssumption, LimitFacts DEF Exceeds
  <2> QED BY <2>1, <2>2 DEF Inf
<1>3. CASE l \in Buckets
  <2>1. ProbeOf(r, l, guess) = BucketProbe(bucket[l], Cost(r, l), LimitOf[l])
    BY <1>3, LimitFacts DEF ProbeOf
  <2>2. bucket[l] \in AnyBucket
    BY <1>3 DEF LimiterInv
  <2> QED BY <1>1, <2>1, <2>2, ProbeFacts DEF Inf
<1>4. CASE l \in Quotas
  <2>1. ProbeOf(r, l, guess) =
          IF Oversized(r, l) THEN Inf
          ELSE QuotaDelay(Flushed(l), Cost(r, l), LimitOf[l])
    BY <1>4, LimitFacts DEF ProbeOf
  <2>2. Flushed(l).untilReset \in Nat
    BY <1>4, FlushedFacts DEF LimiterInv
  <2>3. QuotaDelay(Flushed(l), Cost(r, l), LimitOf[l]) \in Nat
    BY <2>2 DEF QuotaDelay
  <2> QED BY <1>1, <2>1, <2>3 DEF Inf
<1> QED BY <1>2, <1>3, <1>4, LimitFacts

\* The longest of the delays of some limiters is infinite if one of them is.
LEMMA LongestFacts ==
  ASSUME NEW asked, IsFiniteSet(asked), NEW f \in [asked -> Int],
         NEW delays, delays = {f[l] : l \in asked}
  PROVE  /\ LongestOf(delays) \in Int
         /\ LongestOf(delays) = Inf <=> \E l \in asked : f[l] = Inf
<1>1. delays \subseteq Int
  OBVIOUS
<1>2. IsFiniteSet(delays)
  <2>1. f \in Surjection(asked, delays)
    BY DEF Surjection
  <2> QED BY <2>1, FS_Surjection
<1>3. Inf \in delays <=> \E l \in asked : f[l] = Inf
  OBVIOUS
<1> DEFINE all == delays \union {0}
<1>4. all \subseteq Int /\ all # {} /\ IsFiniteSet(all)
  BY <1>1, <1>2, FS_AddElement
<1>5. Max(all) \in all
  <2> HIDE DEF all
  <2> QED BY <1>4, GreatestInteger
<1>6. CASE Inf \in delays
  BY <1>3, <1>6 DEF LongestOf, Inf
<1>7. CASE Inf \notin delays
  <2>1. Max(all) \in Int /\ Max(all) # Inf
    BY <1>1, <1>5, <1>7 DEF Inf
  <2> QED BY <1>3, <1>7, <2>1 DEF LongestOf
<1> QED BY <1>6, <1>7

-----------------------------------------------------------------------------
(* The parts of the invariant, by what a step changes                      *)

\* The job of one goroutine changes.
LEMMA JobChanges ==
  ASSUME JobInv, NEW r \in Requests, NEW k, JobOK(k),
         RefusalOK(k, FALSE) \/ (RefusalOK(k, TRUE) /\ r \in expired'),
         Becomes(r, k), expired \subseteq expired'
  PROVE  JobInv'
<1>1. /\ job' = [job EXCEPT ![r] = k] /\ job \in [Requests -> Jobs] /\ k \in Jobs
  BY DEF JobInv, Becomes, JobOK
<1>2. job' \in [Requests -> Jobs]
  BY <1>1
<1>3. ASSUME NEW q \in Requests
      PROVE  JobOK(job'[q]) /\ RefusalOK(job'[q], q \in expired')
  <2>1. CASE q = r
    <3>1. job'[q] = k
      BY <1>1, <2>1
    <3>2. RefusalOK(k, q \in expired')
      BY <2>1 DEF RefusalOK
    <3> QED BY <3>1, <3>2
  <2>2. CASE q # r
    <3>1. job'[q] = job[q] /\ JobOK(job[q]) /\ RefusalOK(job[q], q \in expired)
      BY <1>1, <2>2 DEF JobInv
    <3>2. RefusalOK(job[q], q \in expired')
      BY <3>1 DEF RefusalOK
    <3> QED BY <3>1, <3>2
  <2> QED BY <2>1, <2>2
<1> QED BY <1>2, <1>3 DEF JobInv

\* The slots stay in the hands they are in.
LEMMA HoldersStay ==
  ASSUME HolderInv, NEW l \in Semaphores, sem'[l].cur = sem[l].cur,
         \A q \in Requests : l \in job'[q].held <=> l \in job[q].held
  PROVE  IsFiniteSet(Holders(l)') /\ sem'[l].cur = Cardinality(Holders(l)')
<1>1. Holders(l)' = Holders(l)
  BY DEF Holders
<1> QED BY <1>1 DEF HolderInv

\* A queue stays as it is.
LEMMA QueueStays ==
  ASSUME QueueInv, NEW l \in Semaphores, sem'[l].queue = sem[l].queue,
         \A q \in Requests : QueuedAt(job'[q], l) <=> QueuedAt(job[q], l)
  PROVE  /\ Distinct(sem'[l].queue)
         /\ \A q \in Requests : q \in Members(sem'[l].queue) <=> QueuedAt(job'[q], l)
BY DEF QueueInv

\* A goroutine goes on without touching a semaphore.
LEMMA OwnStep ==
  ASSUME IInv, NEW r \in Requests, NEW k, JobOK(k),
         RefusalOK(k, FALSE) \/ (RefusalOK(k, TRUE) /\ r \in expired'),
         Becomes(r, k), k.pc # "queued", job[r].pc # "queued",
         \A l \in Semaphores : l \in k.held <=> l \in job[r].held,
         sem' = sem, bucket' \in [Buckets -> AnyBucket],
         quota' \in [Quotas -> QuotaOf(DayTicks)],
         expired \subseteq expired', expired' \subseteq Requests
  PROVE  IInv'
<1>1. JobInv'
  BY JobChanges DEF IInv
<1>2. LimiterInv'
  BY DEF IInv, LimiterInv
<1>3. ASSUME NEW q \in Requests
      PROVE  job'[q] = IF q = r THEN k ELSE job[q]
  BY DEF IInv, JobInv, Becomes
<1>4. QueueInv'
  <2> SUFFICES ASSUME NEW l \in Semaphores
               PROVE  /\ Distinct(sem'[l].queue)
                      /\ \A q \in Requests :
                           q \in Members(sem'[l].queue) <=> QueuedAt(job'[q], l)
    BY DEF QueueInv
  <2>1. \A q \in Requests : QueuedAt(job'[q], l) <=> QueuedAt(job[q], l)
    BY <1>3 DEF QueuedAt
  <2> QED BY <2>1, QueueStays DEF IInv
<1>5. HolderInv'
  <2> SUFFICES ASSUME NEW l \in Semaphores
               PROVE  IsFiniteSet(Holders(l)') /\ sem'[l].cur = Cardinality(Holders(l)')
    BY DEF HolderInv
  <2>1. \A q \in Requests : l \in job'[q].held <=> l \in job[q].held
    BY <1>3
  <2> QED BY <2>1, HoldersStay DEF IInv
<1> QED BY <1>1, <1>2, <1>4, <1>5 DEF IInv

\* A goroutine takes a slot of l.
LEMMA TakeSlot ==
  ASSUME IInv, NEW r \in Requests, NEW k, JobOK(k), RefusalOK(k, FALSE),
         Becomes(r, k), k.pc # "queued", job[r].pc # "queued",
         NEW l \in Semaphores, HasRoom(sem[l], LimitOf[l]),
         l \notin job[r].held, k.held = job[r].held \union {l},
         sem' = [sem EXCEPT ![l] = AcquireSlot(@)],
         UNCHANGED <<bucket, quota, expired>>
  PROVE  IInv'
<1>1. JobInv'
  BY JobChanges DEF IInv
<1>2. /\ sem[l] \in SemaphoreOf(LimitOf[l], Requests)
      /\ sem \in [Semaphores -> [cur : Nat, queue : Seq(Requests)]]
      /\ LimitOf[l] \in Nat
  BY LimitFacts DEF IInv, LimiterInv
<1>3. /\ AcquireSlot(sem[l]) \in SemaphoreOf(LimitOf[l], Requests)
      /\ AcquireSlot(sem[l]) \in [cur : Nat, queue : Seq(Requests)]
      /\ AcquireSlot(sem[l]).cur = sem[l].cur + 1
      /\ AcquireSlot(sem[l]).queue = sem[l].queue
  BY <1>2 DEF SemaphoreOf, AcquireSlot, HasRoom
<1>4. ASSUME NEW q \in Requests
      PROVE  job'[q] = IF q = r THEN k ELSE job[q]
  BY DEF IInv, JobInv, Becomes
<1>5. ASSUME NEW i \in Semaphores
      PROVE  sem'[i] = IF i = l THEN AcquireSlot(sem[l]) ELSE sem[i]
  BY <1>2
<1>6. LimiterInv'
  <2>1. sem' \in [Semaphores -> [cur : Nat, queue : Seq(Requests)]]
    BY <1>2, <1>3
  <2>2. \A i \in Semaphores : sem'[i] \in SemaphoreOf(LimitOf[i], Requests)
    BY <1>3, <1>5 DEF IInv, LimiterInv
  <2> QED BY <2>1, <2>2 DEF IInv, LimiterInv
<1>7. QueueInv'
  <2> SUFFICES ASSUME NEW i \in Semaphores
               PROVE  /\ Distinct(sem'[i].queue)
                      /\ \A q \in Requests :
                           q \in Members(sem'[i].queue) <=> QueuedAt(job'[q], i)
    BY DEF QueueInv
  <2>1. \A q \in Requests : QueuedAt(job'[q], i) <=> QueuedAt(job[q], i)
    BY <1>4 DEF QueuedAt
  <2>2. sem'[i].queue = sem[i].queue
    BY <1>3, <1>5
  <2> QED BY <2>1, <2>2, QueueStays DEF IInv
<1>8. HolderInv'
  <2> SUFFICES ASSUME NEW i \in Semaphores
               PROVE  IsFiniteSet(Holders(i)') /\ sem'[i].cur = Cardinality(Holders(i)')
    BY DEF HolderInv
  <2>1. CASE i # l
    <3>1. \A q \in Requests : i \in job'[q].held <=> i \in job[q].held
      BY <1>4, <2>1
    <3>2. sem'[i].cur = sem[i].cur
      BY <1>5, <2>1
    <3> QED BY <3>1, <3>2, HoldersStay DEF IInv
  <2>2. CASE i = l
    <3>1. Holders(l)' = Holders(l) \union {r} /\ r \notin Holders(l)
      BY <1>4 DEF Holders
    <3>2. IsFiniteSet(Holders(l)) /\ sem[l].cur = Cardinality(Holders(l))
      BY DEF IInv, HolderInv
    <3>3. /\ IsFiniteSet(Holders(l) \union {r})
          /\ Cardinality(Holders(l) \union {r}) = Cardinality(Holders(l)) + 1
      BY <3>1, <3>2, FS_AddElement
    <3> QED BY <1>3, <1>5, <2>2, <3>1, <3>2, <3>3
  <2> QED BY <2>1, <2>2
<1> QED BY <1>1, <1>6, <1>7, <1>8 DEF IInv

\* A goroutine joins the queue of l.
LEMMA JoinQueue ==
  ASSUME IInv, NEW r \in Requests, NEW k, JobOK(k), RefusalOK(k, FALSE),
         Becomes(r, k), job[r].pc # "queued",
         NEW l \in Semaphores, QueuedAt(k, l), k.held = job[r].held,
         sem' = [sem EXCEPT ![l] = Enqueue(@, r)],
         UNCHANGED <<bucket, quota, expired>>
  PROVE  IInv'
<1>1. JobInv'
  BY JobChanges DEF IInv
<1>2. /\ sem[l] \in SemaphoreOf(LimitOf[l], Requests)
      /\ sem \in [Semaphores -> [cur : Nat, queue : Seq(Requests)]]
      /\ LimitOf[l] \in Nat
      /\ Distinct(sem[l].queue) /\ r \notin Members(sem[l].queue)
  BY LimitFacts DEF IInv, LimiterInv, QueueInv, QueuedAt
<1>3. /\ Enqueue(sem[l], r) \in SemaphoreOf(LimitOf[l], Requests)
      /\ Enqueue(sem[l], r).cur = sem[l].cur
      /\ Distinct(Enqueue(sem[l], r).queue)
      /\ Members(Enqueue(sem[l], r).queue) = Members(sem[l].queue) \union {r}
  <2> DEFINE s == sem[l]
  <2> DEFINE limit == LimitOf[l]
  <2>1. /\ s \in SemaphoreOf(limit, Requests) /\ limit \in Nat
        /\ Distinct(s.queue) /\ r \notin Members(s.queue)
    BY <1>2
  <2> HIDE DEF s, limit
  <2>2. /\ Enqueue(s, r) \in SemaphoreOf(limit, Requests)
        /\ Enqueue(s, r).cur = s.cur
        /\ Distinct(Enqueue(s, r).queue)
        /\ Members(Enqueue(s, r).queue) = Members(s.queue) \union {r}
    BY <2>1, EnqueueFacts
  <2> QED BY <2>2 DEF s, limit
<1>4. ASSUME NEW q \in Requests
      PROVE  job'[q] = IF q = r THEN k ELSE job[q]
  BY DEF IInv, JobInv, Becomes
<1>5. ASSUME NEW i \in Semaphores
      PROVE  sem'[i] = IF i = l THEN Enqueue(sem[l], r) ELSE sem[i]
  BY <1>2
<1>6. LimiterInv'
  <2>1. Enqueue(sem[l], r) \in [cur : Nat, queue : Seq(Requests)]
    BY <1>2, <1>3 DEF SemaphoreOf
  <2>2. sem' \in [Semaphores -> [cur : Nat, queue : Seq(Requests)]]
    BY <1>2, <2>1
  <2>3. \A i \in Semaphores : sem'[i] \in SemaphoreOf(LimitOf[i], Requests)
    BY <1>3, <1>5 DEF IInv, LimiterInv
  <2> QED BY <2>2, <2>3 DEF IInv, LimiterInv
<1>7. QueueInv'
  <2> SUFFICES ASSUME NEW i \in Semaphores
               PROVE  /\ Distinct(sem'[i].queue)
                      /\ \A q \in Requests :
                           q \in Members(sem'[i].queue) <=> QueuedAt(job'[q], i)
    BY DEF QueueInv
  <2>1. CASE i # l
    <3>1. \A q \in Requests : QueuedAt(job'[q], i) <=> QueuedAt(job[q], i)
      BY <1>4, <2>1 DEF QueuedAt
    <3>2. sem'[i].queue = sem[i].queue
      BY <1>5, <2>1
    <3> QED BY <3>1, <3>2, QueueStays DEF IInv
  <2>2. CASE i = l
    <3>1. \A q \in Requests : QueuedAt(job'[q], l) <=> QueuedAt(job[q], l) \/ q = r
      BY <1>4
    <3>2. \A q \in Requests : q \in Members(sem[l].queue) <=> QueuedAt(job[q], l)
      BY DEF IInv, QueueInv
    <3>3. sem'[l].queue = Enqueue(sem[l], r).queue
      BY <1>5
    <3> QED BY <1>3, <2>2, <3>1, <3>2, <3>3
  <2> QED BY <2>1, <2>2
<1>8. HolderInv'
  <2> SUFFICES ASSUME NEW i \in Semaphores
               PROVE  IsFiniteSet(Holders(i)') /\ sem'[i].cur = Cardinality(Holders(i)')
    BY DEF HolderInv
  <2>1. \A q \in Requests : i \in job'[q].held <=> i \in job[q].held
    BY <1>4
  <2>2. sem'[i].cur = sem[i].cur
    BY <1>3, <1>5
  <2> QED BY <2>1, <2>2, HoldersStay DEF IInv
<1> QED BY <1>1, <1>6, <1>7, <1>8 DEF IInv

\* A goroutine leaves the queue of l: its context is done.
LEMMA LeaveQueue ==
  ASSUME IInv, NEW r \in Requests, NEW k, JobOK(k), RefusalOK(k, TRUE),
         Becomes(r, k), k.pc # "queued", k.held = job[r].held,
         NEW l \in Semaphores, QueuedAt(job[r], l),
         sem' = [i \in Semaphores |-> IF i = l THEN Dequeue(sem[i], r) ELSE sem[i]],
         expired' = expired \union {r}, UNCHANGED <<bucket, quota>>
  PROVE  IInv'
<1>1. JobInv'
  BY JobChanges DEF IInv
<1>2. /\ sem[l] \in SemaphoreOf(LimitOf[l], Requests)
      /\ sem \in [Semaphores -> [cur : Nat, queue : Seq(Requests)]]
      /\ LimitOf[l] \in Nat
      /\ Distinct(sem[l].queue) /\ r \in Members(sem[l].queue)
  BY LimitFacts DEF IInv, LimiterInv, QueueInv
<1>3. /\ Dequeue(sem[l], r) \in SemaphoreOf(LimitOf[l], Requests)
      /\ Dequeue(sem[l], r).cur = sem[l].cur
      /\ Distinct(Dequeue(sem[l], r).queue)
      /\ Members(Dequeue(sem[l], r).queue) = Members(sem[l].queue) \ {r}
  <2> DEFINE s == sem[l]
  <2> DEFINE limit == LimitOf[l]
  <2>1. /\ s \in SemaphoreOf(limit, Requests) /\ limit \in Nat
        /\ Distinct(s.queue) /\ r \in Members(s.queue)
    BY <1>2
  <2> HIDE DEF s, limit
  <2>2. /\ Dequeue(s, r) \in SemaphoreOf(limit, Requests)
        /\ Dequeue(s, r).cur = s.cur
        /\ Distinct(Dequeue(s, r).queue)
        /\ Members(Dequeue(s, r).queue) = Members(s.queue) \ {r}
    BY <2>1, DequeueFacts
  <2> QED BY <2>2 DEF s, limit
<1>4. ASSUME NEW q \in Requests
      PROVE  job'[q] = IF q = r THEN k ELSE job[q]
  BY DEF IInv, JobInv, Becomes
<1>5. ASSUME NEW i \in Semaphores
      PROVE  sem'[i] = IF i = l THEN Dequeue(sem[l], r) ELSE sem[i]
  OBVIOUS
<1>6. LimiterInv'
  <2>1. Dequeue(sem[l], r) \in [cur : Nat, queue : Seq(Requests)]
    BY <1>2, <1>3 DEF SemaphoreOf
  <2>2. sem' \in [Semaphores -> [cur : Nat, queue : Seq(Requests)]]
    BY <1>2, <2>1
  <2>3. \A i \in Semaphores : sem'[i] \in SemaphoreOf(LimitOf[i], Requests)
    BY <1>3, <1>5 DEF IInv, LimiterInv
  <2> QED BY <2>2, <2>3 DEF IInv, LimiterInv
<1>7. QueueInv'
  <2> SUFFICES ASSUME NEW i \in Semaphores
               PROVE  /\ Distinct(sem'[i].queue)
                      /\ \A q \in Requests :
                           q \in Members(sem'[i].queue) <=> QueuedAt(job'[q], i)
    BY DEF QueueInv
  <2>1. CASE i # l
    <3>1. \A q \in Requests : QueuedAt(job'[q], i) <=> QueuedAt(job[q], i)
      BY <1>4, <2>1 DEF QueuedAt
    <3>2. sem'[i].queue = sem[i].queue
      BY <1>5, <2>1
    <3> QED BY <3>1, <3>2, QueueStays DEF IInv
  <2>2. CASE i = l
    <3>1. \A q \in Requests : QueuedAt(job'[q], l) <=> QueuedAt(job[q], l) /\ q # r
      BY <1>4 DEF QueuedAt
    <3>2. \A q \in Requests : q \in Members(sem[l].queue) <=> QueuedAt(job[q], l)
      BY DEF IInv, QueueInv
    <3>3. sem'[l].queue = Dequeue(sem[l], r).queue
      BY <1>5
    <3> QED BY <1>3, <2>2, <3>1, <3>2, <3>3
  <2> QED BY <2>1, <2>2
<1>8. HolderInv'
  <2> SUFFICES ASSUME NEW i \in Semaphores
               PROVE  IsFiniteSet(Holders(i)') /\ sem'[i].cur = Cardinality(Holders(i)')
    BY DEF HolderInv
  <2>1. \A q \in Requests : i \in job'[q].held <=> i \in job[q].held
    BY <1>4
  <2>2. sem'[i].cur = sem[i].cur
    BY <1>3, <1>5
  <2> QED BY <2>1, <2>2, HoldersStay DEF IInv
<1> QED BY <1>1, <1>6, <1>7, <1>8 DEF IInv

\* A slot of l is returned, and handed to the first in the queue.
LEMMA SlotReturned ==
  ASSUME IInv, NEW r \in Requests, job[r].pc \in Releasing,
         NEW l \in Semaphores, l = Now(r), ReturnSlot(r, l),
         UNCHANGED <<bucket, quota, expired>>
  PROVE  IInv'
<1> DEFINE s == sem[l]
<1> DEFINE freed == FreeSlot(s)
<1> DEFINE limit == LimitOf[l]
<1> DEFINE lucky == Granted(freed, limit)
<1> DEFINE k == AfterRelease(job[r])
<1> DEFINE W(q) == AfterWait([job[q] EXCEPT !.held = @ \union {l}])
<1>1. /\ sem' = [sem EXCEPT ![l] = Notify(freed, limit)]
      /\ job' = [q \in Requests |-> IF q = r THEN AfterRelease(job[q])
                                    ELSE IF q \in lucky THEN W(q) ELSE job[q]]
  BY DEF ReturnSlot
<1>2. /\ s \in SemaphoreOf(limit, Requests)
      /\ sem \in [Semaphores -> [cur : Nat, queue : Seq(Requests)]]
      /\ limit \in Nat /\ Distinct(s.queue)
      /\ \A q \in Requests : q \in Members(s.queue) <=> QueuedAt(job[q], l)
      /\ IsFiniteSet(Holders(l)) /\ s.cur = Cardinality(Holders(l))
  BY LimitFacts DEF IInv, LimiterInv, QueueInv, HolderInv
<1>3. /\ JobOK(k) /\ RefusalOK(k, r \in expired)
      /\ k.held = job[r].held \ {l} /\ l \in job[r].held /\ k.pc # "queued"
  <2>1. JobOK(job[r]) /\ RefusalOK(job[r], r \in expired)
    BY DEF IInv, JobInv
  <2>2. /\ JobOK(k) /\ k.held = job[r].held \ {l} /\ l \in job[r].held
        /\ k.pc \in Releasing \union {"refused", "reserving", "done"}
        /\ k.pc \in {"cancelling", "refused"} => job[r].pc = "cancelling"
    BY <2>1, AfterReleaseOK DEF Now
  <2>3. RefusalOK(k, r \in expired)
    BY <2>1, <2>2 DEF RefusalOK
  <2> QED BY <2>2, <2>3 DEF Releasing
<1> HIDE DEF k
<1>4. freed \in SemaphoreOf(limit, Requests) /\ freed.cur = s.cur - 1 /\ freed.queue = s.queue
  <2>1. r \in Holders(l)
    BY <1>3 DEF Holders
  <2>2. Cardinality(Holders(l)) # 0 /\ Cardinality(Holders(l)) \in Nat
    BY <1>2, <2>1, FS_EmptySet, FS_CardinalityType
  <2> HIDE DEF s, limit
  <2> QED BY <1>2, <2>2 DEF SemaphoreOf, FreeSlot
<1>5. /\ Notify(freed, limit) \in SemaphoreOf(limit, Requests)
      /\ IsFiniteSet(lucky)
      /\ Notify(freed, limit).cur = freed.cur + Cardinality(lucky)
      /\ Distinct(Notify(freed, limit).queue)
      /\ lucky \subseteq Members(s.queue)
      /\ Members(Notify(freed, limit).queue) = Members(s.queue) \ lucky
  <2> HIDE DEF s, freed, limit
  <2>1. Distinct(freed.queue)
    BY <1>2, <1>4
  <2> QED BY <1>2, <1>4, <2>1, NotifyFacts
<1>6. lucky \subseteq Requests
  <2> HIDE DEF s, freed, limit, lucky
  <2> QED BY <1>2, <1>5, MembersType
<1>7. ASSUME NEW q \in lucky
      PROVE  /\ q \in Requests /\ q # r /\ QueuedAt(job[q], l)
             /\ JobOK(W(q)) /\ RefusalOK(W(q), FALSE)
             /\ W(q).held = job[q].held \union {l} /\ l \notin job[q].held
             /\ W(q).pc # "queued"
  <2>1. q \in Requests /\ QueuedAt(job[q], l)
    BY <1>2, <1>5, <1>6
  <2>2. q # r
    BY <2>1 DEF QueuedAt, Releasing
  <2>3. /\ JobOK(job[q]) /\ job[q].pc = "queued" /\ job[q].plan # <<>>
        /\ Head(job[q].plan) = l
    BY <2>1 DEF IInv, JobInv, JobOK, PhaseInv, QueuedAt
  <2>4. /\ JobOK(W(q)) /\ W(q).held = job[q].held \union {l} /\ l \notin job[q].held
        /\ W(q).pc \in {"running", "waiting"}
    BY <2>3, AcquiredOK
  <2>5. RefusalOK(W(q), FALSE)
    BY <2>4 DEF RefusalOK
  <2> QED BY <2>1, <2>2, <2>4, <2>5
<1> HIDE DEF W, lucky
<1>8. ASSUME NEW q \in Requests
      PROVE  job'[q] = IF q = r THEN k ELSE IF q \in lucky THEN W(q) ELSE job[q]
  BY <1>1 DEF k
<1>9. ASSUME NEW i \in Semaphores
      PROVE  sem'[i] = IF i = l THEN Notify(freed, limit) ELSE sem[i]
  BY <1>1, <1>2
<1>10. JobInv'
  <2>1. ASSUME NEW q \in Requests
        PROVE  JobOK(job'[q]) /\ RefusalOK(job'[q], q \in expired')
    <3>1. CASE q = r
      BY <1>3, <1>8, <3>1
    <3>2. CASE q # r /\ q \in lucky
      <4>1. job'[q] = W(q) /\ RefusalOK(W(q), q \in expired')
        BY <1>7, <1>8, <3>2 DEF RefusalOK
      <4> QED BY <1>7, <3>2, <4>1
    <3>3. CASE q # r /\ q \notin lucky
      BY <1>8, <3>3 DEF IInv, JobInv
    <3> QED BY <3>1, <3>2, <3>3
  <2>2. \A q \in Requests : job'[q] \in Jobs
    BY <2>1 DEF JobOK
  <2>3. job' = [q \in Requests |-> job'[q]]
    BY <1>1
  <2>4. job' \in [Requests -> Jobs]
    BY <2>2, <2>3
  <2> QED BY <2>1, <2>4 DEF JobInv
<1>11. LimiterInv'
  <2>1. Notify(freed, limit) \in [cur : Nat, queue : Seq(Requests)]
    <3> HIDE DEF freed, limit
    <3> QED BY <1>2, <1>5 DEF SemaphoreOf
  <2>2. sem' \in [Semaphores -> [cur : Nat, queue : Seq(Requests)]]
    BY <1>1, <1>2, <2>1
  <2>3. \A i \in Semaphores : sem'[i] \in SemaphoreOf(LimitOf[i], Requests)
    BY <1>5, <1>9 DEF IInv, LimiterInv
  <2> QED BY <2>2, <2>3 DEF IInv, LimiterInv
<1>12. QueueInv'
  <2> SUFFICES ASSUME NEW i \in Semaphores
               PROVE  /\ Distinct(sem'[i].queue)
                      /\ \A q \in Requests :
                           q \in Members(sem'[i].queue) <=> QueuedAt(job'[q], i)
    BY DEF QueueInv
  <2>1. ASSUME NEW q \in Requests
        PROVE  QueuedAt(job'[q], i) <=> QueuedAt(job[q], i) /\ q \notin lucky
    <3>1. CASE q = r
      BY <1>3, <1>7, <1>8, <3>1 DEF QueuedAt, Releasing
    <3>2. CASE q # r /\ q \in lucky
      BY <1>7, <1>8, <3>2 DEF QueuedAt
    <3>3. CASE q # r /\ q \notin lucky
      BY <1>8, <3>3
    <3> QED BY <3>1, <3>2, <3>3
  <2>2. CASE i # l
    <3>1. \A q \in lucky : ~QueuedAt(job[q], i)
      BY <1>7, <2>2 DEF QueuedAt
    <3>2. \A q \in Requests : QueuedAt(job'[q], i) <=> QueuedAt(job[q], i)
      BY <2>1, <3>1
    <3>3. sem'[i].queue = sem[i].queue
      BY <1>9, <2>2
    <3> QED BY <3>2, <3>3, QueueStays DEF IInv
  <2>3. CASE i = l
    <3>1. sem'[l].queue = Notify(freed, limit).queue
      BY <1>9
    <3> QED BY <1>2, <1>5, <2>1, <2>3, <3>1
  <2> QED BY <2>2, <2>3
<1>13. HolderInv'
  <2> SUFFICES ASSUME NEW i \in Semaphores
               PROVE  IsFiniteSet(Holders(i)') /\ sem'[i].cur = Cardinality(Holders(i)')
    BY DEF HolderInv
  <2>1. CASE i # l
    <3>1. \A q \in Requests : i \in job'[q].held <=> i \in job[q].held
      BY <1>3, <1>7, <1>8, <2>1
    <3>2. sem'[i].cur = sem[i].cur
      BY <1>9, <2>1
    <3> QED BY <3>1, <3>2, HoldersStay DEF IInv
  <2>2. CASE i = l
    <3> DEFINE H == Holders(l)
    <3> DEFINE G == H \ {r}
    <3>1. r \in H
      BY <1>3 DEF Holders
    <3>2. Holders(l)' = G \union lucky
      BY <1>3, <1>6, <1>7, <1>8 DEF Holders
    <3>3. G \intersect lucky = {}
      BY <1>7 DEF Holders
    <3>4. IsFiniteSet(H) /\ s.cur = Cardinality(H)
      BY <1>2
    <3>5. sem'[l].cur = s.cur - 1 + Cardinality(lucky)
      BY <1>4, <1>5, <1>9
    <3> HIDE DEF H, s
    <3>6. IsFiniteSet(G) /\ Cardinality(G) = Cardinality(H) - 1
      BY <3>1, <3>4, FS_RemoveElement
    <3> HIDE DEF G
    <3>7. /\ IsFiniteSet(G \union lucky)
          /\ Cardinality(G \union lucky) = Cardinality(G) + Cardinality(lucky)
      <4>1. Cardinality(G \intersect lucky) = 0
        BY <3>3, FS_EmptySet
      <4>2. Cardinality(G) \in Nat /\ Cardinality(lucky) \in Nat
        BY <1>5, <3>6, FS_CardinalityType
      <4>3. IsFiniteSet(lucky) /\ IsFiniteSet(G)
        BY <1>5, <3>6
      <4>4. /\ IsFiniteSet(G \union lucky)
            /\ Cardinality(G \union lucky)
                 = Cardinality(G) + Cardinality(lucky) - Cardinality(G \intersect lucky)
        BY <4>3, FS_Union
      <4> QED BY <4>1, <4>2, <4>4
    <3> QED BY <2>2, <3>2, <3>4, <3>5, <3>6, <3>7
  <2> QED BY <2>1, <2>2
<1> QED BY <1>10, <1>11, <1>12, <1>13 DEF IInv

-----------------------------------------------------------------------------
(* The invariant is inductive                                              *)

LEMMA NewJobOK == JobOK(NewJob) /\ RefusalOK(NewJob, FALSE) /\ NewJob.held = {}
<1> DEFINE j == NewJob
<1>1. [l \in Buckets \union Quotas |-> 0] \in [Buckets \union Quotas -> Nat]
  OBVIOUS
<1>2. /\ j \in Jobs /\ j.pc = "idle" /\ j.ask = {} /\ j.est = 0 /\ j.todo = <<>>
      /\ j.scores = {} /\ j.order = <<>> /\ j.on = <<>> /\ j.plan = <<>>
      /\ j.kept = <<>> /\ j.held = {}
  BY <1>1, EmptyFacts DEF NewJob, Jobs, Places
<1> HIDE DEF j
<1>3. EstimateInv(j)
  BY <1>2 DEF EstimateInv
<1>4. Probed(j) = {} /\ IsFiniteSet(j.scores)
  BY <1>2, FS_EmptySet DEF Probed
<1>5. ProbeInv(j)
  BY <1>2, <1>4, EmptyFacts DEF ProbeInv
<1>6. OrderInv(j)
  BY <1>2, EmptyFacts DEF OrderInv
<1>7. PhaseInv(j)
  BY <1>2, EmptyFacts DEF PhaseInv, Apart, Awaiting, Releasing
<1>8. RefusalOK(j, FALSE)
  BY <1>2 DEF RefusalOK
<1> QED BY <1>2, <1>3, <1>5, <1>6, <1>7, <1>8 DEF JobOK, j

LEMMA InitIInv == Init => IInv
<1> SUFFICES ASSUME Init PROVE IInv
  OBVIOUS
<1>1. LimiterInv
  <2>1. \A l \in Semaphores : /\ NewSemaphore \in SemaphoreOf(LimitOf[l], Requests)
                              /\ NewSemaphore \in [cur : Nat, queue : Seq(Requests)]
    BY LimitFacts, EmptyFacts DEF NewSemaphore, SemaphoreOf
  <2>2. \A l \in Buckets : NewBucket(LimitOf[l]) \in AnyBucket
    BY LimitFacts DEF NewBucket, AnyBucket
  <2>3. NewQuota(DayTicks) \in QuotaOf(DayTicks)
    BY LimitFacts DEF NewQuota, QuotaOf
  <2> QED BY <2>1, <2>2, <2>3 DEF Init, LimiterInv
<1>2. JobInv
  <2>1. NewJob \in Jobs
    BY NewJobOK DEF JobOK
  <2>2. job \in [Requests -> Jobs] /\ \A r \in Requests : job[r] = NewJob /\ r \notin expired
    BY <2>1 DEF Init
  <2>3. RefusalOK(NewJob, FALSE) => \A r \in Requests : RefusalOK(NewJob, r \in expired)
    BY DEF RefusalOK
  <2> QED BY <2>2, <2>3, NewJobOK DEF JobInv
<1>3. QueueInv
  <2>1. \A l \in Semaphores : sem[l].queue = <<>>
    BY DEF Init, NewSemaphore
  <2>2. Distinct(<<>>) /\ Members(<<>>) = {}
    BY DEF Distinct, Members
  <2>3. \A r \in Requests : job[r].pc # "queued"
    BY DEF Init, NewJob
  <2> QED BY <2>1, <2>2, <2>3 DEF QueueInv, QueuedAt
<1>4. HolderInv
  <2>1. \A l \in Semaphores : sem[l].cur = 0 /\ Holders(l) = {}
    BY DEF Init, NewSemaphore, Holders, NewJob
  <2> QED BY <2>1, FS_EmptySet DEF HolderInv
<1> QED BY <1>1, <1>2, <1>3, <1>4 DEF IInv

\* What the invariant says of one goroutine.
LEMMA JobFacts ==
  ASSUME IInv, NEW r \in Requests
  PROVE  /\ JobOK(job[r]) /\ RefusalOK(job[r], r \in expired)
         /\ job[r] \in Jobs /\ job[r].est \in Nat /\ job[r].used \in Nat
         /\ job[r].due \in [Buckets \union Quotas -> Nat]
         /\ job[r].plan # <<>> => Now(r) \in Limiters
         /\ job[r].held \subseteq Limiters
<1>1. JobOK(job[r]) /\ RefusalOK(job[r], r \in expired) /\ job[r] \in Jobs
  BY DEF IInv, JobInv, JobOK
<1>2. job[r].plan \in Seq(Limiters)
  BY <1>1 DEF Jobs
<1>3. job[r].plan # <<>> => Head(job[r].plan) \in Limiters
  BY <1>2, TailFacts
<1> QED BY <1>1, <1>3 DEF Jobs, Now

LEMMA ArriveInv ==
  ASSUME IInv, NEW r \in Requests, Arrive(r)
  PROVE  IInv'
<1>1. JobOK(job[r]) /\ job[r].pc = "idle"
  BY JobFacts DEF Arrive, At
<1>2. PICK ask \in Asks : Becomes(r, Arrived(job[r], ask))
  BY DEF Arrive, Arrived
<1> DEFINE k == Arrived(job[r], ask)
<1>3. /\ JobOK(k) /\ k.pc \in {"refused", "probing"} /\ k.held = job[r].held
      /\ RefusalOK(k, FALSE)
  BY <1>1, ArriveOK
<1>4. UNCHANGED <<sem, bucket, quota, expired>>
  BY DEF Arrive
<1> HIDE DEF k
<1> QED BY <1>1, <1>2, <1>3, <1>4, OwnStep DEF IInv, LimiterInv, k

LEMMA RankInv ==
  ASSUME IInv, NEW r \in Requests, Rank(r)
  PROVE  IInv'
<1>1. JobOK(job[r]) /\ job[r].pc = "probing" /\ job[r].todo = <<>>
  BY JobFacts DEF Rank, At
<1>2. PICK o \in Rankings(WorthATry(job[r].scores)) :
        Becomes(r, NextCandidate([job[r] EXCEPT
                     !.scores = {}, !.order = [i \in DOMAIN o |-> o[i][1]]]))
  BY DEF Rank
<1> DEFINE k == NextCandidate([job[r] EXCEPT
                     !.scores = {}, !.order = [i \in DOMAIN o |-> o[i][1]]])
<1>3. Becomes(r, k)
  BY <1>2
<1>4. /\ JobOK(k) /\ k.pc \in {"refused", "reserving"} /\ k.held = job[r].held
      /\ RefusalOK(k, FALSE)
  BY <1>1, RankOK
<1>5. UNCHANGED <<sem, bucket, quota, expired>>
  BY DEF Rank
<1> HIDE DEF k
<1> QED BY <1>1, <1>3, <1>4, <1>5, OwnStep DEF IInv, LimiterInv

LEMMA ProbeInvStep ==
  ASSUME IInv, NEW r \in Requests, ProbeNext(r)
  PROVE  IInv'
<1> DEFINE m == Head(job[r].todo)
<1> DEFINE asked == Range(ReserveOrder(job[r].est, m))
<1>1. /\ JobOK(job[r]) /\ job[r].pc = "probing" /\ job[r].todo # <<>>
      /\ job[r].est \in Nat /\ job[r].todo \in Seq(Models)
  BY JobFacts DEF ProbeNext, At, Jobs
<1>2. m \in Models
  BY <1>1, TailFacts
<1>3. asked \subseteq Limiters /\ IsFiniteSet(asked) /\ asked = Asked(job[r].est, m)
  BY <1>1, <1>2, AskedFacts DEF Asked
<1>4. PICK guess \in Guesses :
        Becomes(r, [job[r] EXCEPT
          !.todo = Tail(@),
          !.scores = @ \union {<<m, LongestOf({ProbeOf(r, l, guess) : l \in asked})>>}])
  BY DEF ProbeNext
<1>5. /\ FlushAll({l \in asked : ~Oversized(r, l)})
      /\ UNCHANGED <<sem, bucket, expired>>
  BY DEF ProbeNext
<1> DEFINE delays == {ProbeOf(r, l, guess) : l \in asked}
<1> DEFINE f == [l \in asked |-> ProbeOf(r, l, guess)]
<1> DEFINE delay == LongestOf(delays)
<1>6. \A l \in asked : /\ ProbeOf(r, l, guess) \in Int
                       /\ ProbeOf(r, l, guess) = Inf <=> Exceeds(job[r].est, l)
  BY <1>1, <1>3, ProbeOfFacts DEF IInv
<1>7. /\ f \in [asked -> Int] /\ delays = {f[l] : l \in asked}
      /\ \A l \in asked : f[l] = Inf <=> Exceeds(job[r].est, l)
  BY <1>6
<1> DEFINE k == [job[r] EXCEPT !.todo = Tail(@), !.scores = @ \union {<<m, delay>>}]
<1>8. Becomes(r, k)
  BY <1>4
<1> HIDE DEF asked, delays, f, m
<1>9. delay \in Int /\ (delay = Inf <=> Hopeless(job[r].est, m))
  <2>1. delay \in Int /\ (delay = Inf <=> \E l \in asked : f[l] = Inf)
    BY <1>3, <1>7, LongestFacts
  <2>2. Hopeless(job[r].est, m) <=> \E l \in asked : Exceeds(job[r].est, l)
    BY <1>3 DEF Hopeless
  <2> QED BY <1>7, <2>1, <2>2
<1> HIDE DEF delay
<1>10. JobOK(k) /\ k.pc = "probing" /\ k.held = job[r].held
  BY <1>1, <1>9, ProbedOK DEF m
<1> HIDE DEF k
<1>11. RefusalOK(k, FALSE)
  BY <1>10 DEF RefusalOK
<1>12. quota' \in [Quotas -> QuotaOf(DayTicks)]
  BY <1>5, FlushAllFacts DEF IInv, LimiterInv
<1> QED BY <1>1, <1>5, <1>8, <1>10, <1>11, <1>12, OwnStep DEF IInv, LimiterInv

LEMMA ReserveSlotInv ==
  ASSUME IInv, NEW r \in Requests, ReserveSlot(r)
  PROVE  IInv'
<1> DEFINE l == Now(r)
<1> DEFINE room == HasRoom(sem[l], LimitOf[l])
<1> DEFINE k == Reserved(job[r], room)
<1>1. /\ JobOK(job[r]) /\ job[r].pc = "reserving" /\ job[r].plan # <<>>
      /\ l \in Semaphores /\ l = Head(job[r].plan)
  BY JobFacts DEF ReserveSlot, Calls, At, Now
<1>2. /\ Becomes(r, k) /\ UNCHANGED <<bucket, quota, expired>>
      /\ sem' = IF room THEN [sem EXCEPT ![l] = AcquireSlot(@)] ELSE sem
  BY DEF ReserveSlot
<1>3. room \in BOOLEAN
  BY DEF HasRoom
<1>4. /\ JobOK(k) /\ k.pc = "reserving" /\ l \notin job[r].held
      /\ k.held = IF room THEN job[r].held \union {l} ELSE job[r].held
  <2> DEFINE j == job[r]
  <2>1. JobOK(j) /\ j.pc = "reserving" /\ j.plan # <<>> /\ l = Head(j.plan)
    BY <1>1
  <2> HIDE DEF room, l, j
  <2>2. /\ JobOK(Reserved(j, room)) /\ Reserved(j, room).pc = "reserving"
        /\ Head(j.plan) \notin j.held
        /\ Reserved(j, room).held =
             IF room THEN j.held \union {Head(j.plan)} ELSE j.held
    BY <1>3, <2>1, ReservedOK, Zenon
  <2> QED BY <2>1, <2>2 DEF j
<1>5. RefusalOK(k, FALSE)
  BY <1>4 DEF RefusalOK
<1> HIDE DEF k, l
<1>6. CASE room
  BY <1>1, <1>2, <1>4, <1>5, <1>6, TakeSlot
<1>7. CASE ~room
  <2> HIDE DEF room
  <2> QED BY <1>1, <1>2, <1>4, <1>5, <1>7, OwnStep DEF IInv, LimiterInv
<1> QED BY <1>6, <1>7

LEMMA ReserveRateInv ==
  ASSUME IInv, NEW r \in Requests, ReserveRate(r)
  PROVE  IInv'
<1> DEFINE l == Now(r)
<1> DEFINE charged == BucketReserve(bucket[l], Cost(r, l), LimitOf[l])
<1> DEFINE wait == ReadyIn(charged, Cost(r, l))
<1> DEFINE j == Reserved(job[r], TRUE)
<1> DEFINE k == [j EXCEPT !.due[l] = wait]
<1>1. /\ JobOK(job[r]) /\ job[r].pc = "reserving" /\ job[r].plan # <<>>
      /\ job[r].est \in Nat /\ l \in Buckets /\ l = Head(job[r].plan)
  BY JobFacts DEF ReserveRate, Calls, At, Now
<1>2. /\ Becomes(r, k) /\ UNCHANGED <<sem, quota, expired>>
      /\ bucket' = [bucket EXCEPT ![l] = charged]
  BY DEF ReserveRate
<1>3. charged \in AnyBucket /\ wait \in Nat
  <2>1. bucket[l] \in AnyBucket /\ Cost(r, l) \in Nat /\ LimitOf[l] \in Nat
    BY <1>1, CostFacts, LimitFacts DEF IInv, LimiterInv
  <2>2. 0 \in Int
    OBVIOUS
  <2> HIDE DEF l
  <2>3. charged \in AnyBucket
    BY <2>1, <2>2, BucketFacts
  <2> QED BY <2>1, <2>2, <2>3, BucketFacts
<1>4. /\ JobOK(j) /\ j.pc = "reserving" /\ j.held = job[r].held \union {l}
  <2> DEFINE i == job[r]
  <2>1. JobOK(i) /\ i.pc = "reserving" /\ i.plan # <<>> /\ l = Head(i.plan)
    BY <1>1
  <2> HIDE DEF i, l
  <2>2. /\ JobOK(Reserved(i, TRUE)) /\ Reserved(i, TRUE).pc = "reserving"
        /\ Reserved(i, TRUE).held =
             IF TRUE THEN i.held \union {Head(i.plan)} ELSE i.held
    BY <2>1, ReservedOK, Zenon
  <2> QED BY <2>1, <2>2 DEF i
<1> HIDE DEF j, charged, wait
<1>5. JobOK(k) /\ k.pc = "reserving" /\ k.held = job[r].held \union {l}
  <2> HIDE DEF l
  <2> QED BY <1>1, <1>3, <1>4, TimerSet
<1>6. RefusalOK(k, FALSE)
  BY <1>5 DEF RefusalOK
<1>7. bucket' \in [Buckets -> AnyBucket]
  BY <1>2, <1>3 DEF IInv, LimiterInv
<1>8. \A i \in Semaphores : i \in k.held <=> i \in job[r].held
  BY <1>1, <1>5, LimitFacts
<1> HIDE DEF k, l
<1> QED BY <1>1, <1>2, <1>5, <1>6, <1>7, <1>8, OwnStep DEF IInv, LimiterInv

LEMMA ReserveQuotaInv ==
  ASSUME IInv, NEW r \in Requests, ReserveQuota(r)
  PROVE  IInv'
<1> DEFINE l == Now(r)
<1> DEFINE fits == Fits(Flushed(l), Cost(r, l), LimitOf[l])
<1> DEFINE k == Reserved(job[r], fits)
<1>1. /\ JobOK(job[r]) /\ job[r].pc = "reserving" /\ job[r].plan # <<>>
      /\ job[r].est \in Nat /\ l \in Quotas /\ l = Head(job[r].plan)
  BY JobFacts DEF ReserveQuota, Calls, At, Now
<1>2. /\ Becomes(r, k) /\ UNCHANGED <<sem, bucket, expired>>
      /\ quota' = [quota EXCEPT ![l] =
                     IF fits THEN Take(Flushed(l), Cost(r, l)) ELSE Flushed(l)]
  BY DEF ReserveQuota
<1>3. /\ Take(Flushed(l), Cost(r, l)) \in QuotaOf(DayTicks)
      /\ Flushed(l) \in QuotaOf(DayTicks)
  <2>1. Flushed(l) \in QuotaOf(DayTicks) /\ Cost(r, l) \in Nat /\ DayTicks \in Nat \ {0}
    BY <1>1, CostFacts, LimitFacts, FlushedFacts DEF IInv, LimiterInv
  <2> QED BY <2>1, QuotaFacts
<1>4. quota' \in [Quotas -> QuotaOf(DayTicks)]
  BY <1>2, <1>3 DEF IInv, LimiterInv
<1>5. fits \in BOOLEAN
  BY DEF Fits
<1>6. /\ JobOK(k) /\ k.pc = "reserving"
      /\ k.held = IF fits THEN job[r].held \union {l} ELSE job[r].held
  <2> DEFINE j == job[r]
  <2>1. JobOK(j) /\ j.pc = "reserving" /\ j.plan # <<>> /\ l = Head(j.plan)
    BY <1>1
  <2> HIDE DEF fits, l, j
  <2>2. /\ JobOK(Reserved(j, fits)) /\ Reserved(j, fits).pc = "reserving"
        /\ Head(j.plan) \notin j.held
        /\ Reserved(j, fits).held =
             IF fits THEN j.held \union {Head(j.plan)} ELSE j.held
    BY <1>5, <2>1, ReservedOK, Zenon
  <2> QED BY <2>1, <2>2 DEF j
<1>7. RefusalOK(k, FALSE)
  BY <1>6 DEF RefusalOK
<1> HIDE DEF k, fits
<1>8. \A i \in Semaphores : i \in k.held <=> i \in job[r].held
  BY <1>1, <1>6, LimitFacts
<1> HIDE DEF l
<1> QED BY <1>1, <1>2, <1>4, <1>6, <1>7, <1>8, OwnStep DEF IInv, LimiterInv

\* A delay of 0 is that of an acquired semaphore: the estimate of a busy one
\* is positive.
LEMMA CheckDelayInv ==
  ASSUME IInv, NEW r \in Requests, CheckDelay(r)
  PROVE  IInv'
<1> DEFINE j == job[r]
<1>1. /\ JobOK(j) /\ j.pc = "reserving" /\ j.plan = <<>>
  BY JobFacts DEF CheckDelay, At
<1>2. PICK guess \in Guesses :
        IF \A l \in Range(j.kept) : DelayOf(r, l, guess) = 0
        THEN Becomes(r, [j EXCEPT !.pc = "running"])
        ELSE Becomes(r, [j EXCEPT !.pc = "waiting", !.plan = ToWait(j)])
  BY DEF CheckDelay
<1>3. UNCHANGED <<sem, bucket, expired>> /\ FlushAll(Range(j.kept) \ j.held)
  BY DEF CheckDelay
<1>4. quota' \in [Quotas -> QuotaOf(DayTicks)]
  <2> HIDE DEF j
  <2> QED BY <1>3, FlushAllFacts DEF IInv, LimiterInv
<1>5. ASSUME \A l \in Range(j.kept) : DelayOf(r, l, guess) = 0
      PROVE  Semaphores \intersect Range(j.kept) \subseteq j.held
  <2> SUFFICES ASSUME NEW l \in Semaphores, l \in Range(j.kept)
               PROVE  l \in j.held
    OBVIOUS
  <2>1. DelayOf(r, l, guess) = IF l \in j.held THEN 0 ELSE guess
    BY LimitFacts DEF DelayOf
  <2>2. guess # 0
    BY ElectionAssumption
  <2> QED BY <1>5, <2>1, <2>2
<1>6. PICK k :
        /\ Becomes(r, k)
        /\ \/ /\ k = [j EXCEPT !.pc = "running"]
              /\ Semaphores \intersect Range(j.kept) \subseteq j.held
           \/ k = [j EXCEPT !.pc = "waiting", !.plan = ToWait(j)]
  <2> HIDE DEF j
  <2> QED BY <1>2, <1>5
<1>7. JobOK(k) /\ k.pc \in {"running", "waiting"} /\ k.held = j.held
  <2> HIDE DEF j
  <2> QED BY <1>1, <1>6, SetOK
<1>8. RefusalOK(k, FALSE)
  BY <1>7 DEF RefusalOK
<1>9. Becomes(r, k)
  BY <1>6
<1> QED BY <1>1, <1>3, <1>4, <1>7, <1>8, <1>9, OwnStep DEF IInv, LimiterInv

LEMMA WaitSlotInv ==
  ASSUME IInv, NEW r \in Requests, WaitSlot(r)
  PROVE  IInv'
<1> DEFINE j == job[r]
<1> DEFINE l == Now(r)
<1>1. /\ JobOK(j) /\ j.pc = "waiting" /\ j.plan # <<>>
      /\ l \in Semaphores /\ l = Head(j.plan)
  BY JobFacts DEF WaitSlot, Calls, At, Now
<1>2. UNCHANGED <<bucket, quota, expired>>
  BY DEF WaitSlot
<1>3. CASE /\ HasRoom(sem[l], LimitOf[l])
           /\ sem' = [sem EXCEPT ![l] = AcquireSlot(@)]
           /\ Becomes(r, AfterWait([j EXCEPT !.held = @ \union {l}]))
  <2> DEFINE k == AfterWait([j EXCEPT !.held = @ \union {l}])
  <2>1. /\ JobOK(k) /\ k.held = j.held \union {l} /\ l \notin j.held
        /\ k.pc \in {"running", "waiting"}
    BY <1>1, AcquiredOK
  <2>2. RefusalOK(k, FALSE)
    BY <2>1 DEF RefusalOK
  <2>3. Becomes(r, k)
    BY <1>3
  <2>4. HasRoom(sem[l], LimitOf[l]) /\ sem' = [sem EXCEPT ![l] = AcquireSlot(@)]
    BY <1>3
  <2> HIDE DEF k, l
  <2> QED BY <1>1, <1>2, <2>1, <2>2, <2>3, <2>4, TakeSlot
<1>4. CASE /\ sem' = [sem EXCEPT ![l] = Enqueue(@, r)]
           /\ Becomes(r, [j EXCEPT !.pc = "queued"])
  <2> DEFINE k == [j EXCEPT !.pc = "queued"]
  <2>1. /\ k \in Jobs /\ k.pc = "queued" /\ k.ask = j.ask /\ k.est = j.est
        /\ k.todo = j.todo /\ k.scores = j.scores /\ k.order = j.order
        /\ k.on = j.on /\ k.plan = j.plan /\ k.kept = j.kept /\ k.held = j.held
    BY <1>1 DEF JobOK, Jobs, Places
  <2>2. Becomes(r, k)
    BY <1>4
  <2> HIDE DEF k
  <2>3. JobOK(k)
    BY <1>1, <2>1, AwaitOK DEF Awaiting
  <2>4. RefusalOK(k, FALSE)
    BY <2>1 DEF RefusalOK
  <2>5. QueuedAt(k, l)
    BY <1>1, <2>1 DEF QueuedAt
  <2> HIDE DEF l
  <2> QED BY <1>1, <1>2, <1>4, <2>1, <2>2, <2>3, <2>4, <2>5, JoinQueue
<1>5. \/ /\ HasRoom(sem[l], LimitOf[l])
         /\ sem' = [sem EXCEPT ![l] = AcquireSlot(@)]
         /\ Becomes(r, AfterWait([j EXCEPT !.held = @ \union {l}]))
      \/ /\ sem' = [sem EXCEPT ![l] = Enqueue(@, r)]
         /\ Becomes(r, [j EXCEPT !.pc = "queued"])
  BY DEF WaitSlot
<1> QED BY <1>3, <1>4, <1>5

LEMMA WaitRateInv ==
  ASSUME IInv, NEW r \in Requests, WaitRate(r)
  PROVE  IInv'
<1> DEFINE k == AfterWait(job[r])
<1>1. /\ JobOK(job[r]) /\ job[r].pc = "waiting" /\ job[r].plan # <<>>
      /\ Head(job[r].plan) \notin Semaphores
  BY JobFacts, LimitFacts DEF WaitRate, Calls, At, Now
<1>2. Becomes(r, k) /\ UNCHANGED <<sem, bucket, quota, expired>>
  BY DEF WaitRate
<1>3. JobOK(k) /\ k.held = job[r].held /\ k.pc \in {"running", "waiting"}
  BY <1>1, PassedOK
<1>4. RefusalOK(k, FALSE)
  BY <1>3 DEF RefusalOK
<1> HIDE DEF k
<1> QED BY <1>1, <1>2, <1>3, <1>4, OwnStep DEF IInv, LimiterInv

LEMMA WaitQuotaInv ==
  ASSUME IInv, NEW r \in Requests, WaitQuota(r)
  PROVE  IInv'
<1> DEFINE j == job[r]
<1> DEFINE l == Now(r)
<1> DEFINE q == Flushed(l)
<1> DEFINE t == SleepTime(q, DayTicks)
<1>1. /\ JobOK(j) /\ j \in Jobs /\ j.pc = "waiting" /\ j.plan # <<>>
      /\ j.est \in Nat /\ l \in Quotas /\ l = Head(j.plan)
  BY JobFacts DEF WaitQuota, Calls, At, Now
<1>2. UNCHANGED <<sem, bucket, expired>>
  BY DEF WaitQuota
<1>3. /\ q \in QuotaOf(DayTicks) /\ Take(q, Cost(r, l)) \in QuotaOf(DayTicks)
      /\ t \in Nat
  <2>1. /\ q \in QuotaOf(DayTicks) /\ q.untilReset \in Nat
        /\ Cost(r, l) \in Nat /\ DayTicks \in Nat \ {0}
    BY <1>1, CostFacts, LimitFacts, FlushedFacts DEF IInv, LimiterInv
  <2> HIDE DEF q, l
  <2> QED BY <2>1, QuotaFacts DEF SleepTime
<1>4. \A i \in Semaphores : i # l
  BY <1>1, LimitFacts
<1>5. CASE /\ quota' = [quota EXCEPT ![l] = Take(q, Cost(r, l))]
           /\ Becomes(r, AfterWait([j EXCEPT !.held = @ \union {l}]))
  <2> DEFINE k == AfterWait([j EXCEPT !.held = @ \union {l}])
  <2>1. JobOK(k) /\ k.held = j.held \union {l} /\ k.pc \in {"running", "waiting"}
    BY <1>1, AcquiredOK
  <2>2. RefusalOK(k, FALSE)
    BY <2>1 DEF RefusalOK
  <2>3. Becomes(r, k)
    BY <1>5
  <2>4. quota' \in [Quotas -> QuotaOf(DayTicks)]
    BY <1>3, <1>5 DEF IInv, LimiterInv
  <2> HIDE DEF k
  <2>5. \A i \in Semaphores : i \in k.held <=> i \in j.held
    BY <1>4, <2>1
  <2> QED BY <1>1, <1>2, <2>1, <2>2, <2>3, <2>4, <2>5, OwnStep DEF IInv, LimiterInv
<1>6. CASE /\ quota' = [quota EXCEPT ![l] = q]
           /\ Becomes(r, [j EXCEPT !.pc = "sleeping", !.due[l] = t])
  <2> DEFINE d == [j.due EXCEPT ![l] = t]
  <2> DEFINE k == [j EXCEPT !.pc = "sleeping", !.due = d]
  <2>1. Becomes(r, k)
    BY <1>1, <1>6 DEF Jobs
  <2>2. d \in [Buckets \union Quotas -> Nat]
    BY <1>1, <1>3 DEF Jobs
  <2> HIDE DEF d
  <2>3. /\ k \in Jobs /\ k.pc = "sleeping" /\ k.ask = j.ask /\ k.est = j.est
        /\ k.todo = j.todo /\ k.scores = j.scores /\ k.order = j.order
        /\ k.on = j.on /\ k.plan = j.plan /\ k.kept = j.kept /\ k.held = j.held
    BY <1>1, <2>2 DEF Jobs, Places
  <2> HIDE DEF k
  <2>4. JobOK(k)
    BY <1>1, <2>3, AwaitOK DEF Awaiting
  <2>5. RefusalOK(k, FALSE)
    BY <2>3 DEF RefusalOK
  <2>6. quota' \in [Quotas -> QuotaOf(DayTicks)]
    BY <1>3, <1>6 DEF IInv, LimiterInv
  <2> QED BY <1>1, <1>2, <2>1, <2>3, <2>4, <2>5, <2>6, OwnStep DEF IInv, LimiterInv
<1>7. \/ /\ quota' = [quota EXCEPT ![l] = Take(q, Cost(r, l))]
         /\ Becomes(r, AfterWait([j EXCEPT !.held = @ \union {l}]))
      \/ /\ quota' = [quota EXCEPT ![l] = q]
         /\ Becomes(r, [j EXCEPT !.pc = "sleeping", !.due[l] = t])
  BY DEF WaitQuota
<1> QED BY <1>5, <1>6, <1>7

LEMMA TimerFiresInv ==
  ASSUME IInv, NEW r \in Requests, TimerFires(r)
  PROVE  IInv'
<1> DEFINE j == job[r]
<1> DEFINE k == [j EXCEPT !.pc = "waiting"]
<1>1. JobOK(j) /\ j \in Jobs /\ j.pc = "sleeping" /\ j.plan # <<>>
  BY JobFacts DEF TimerFires, At, JobOK, PhaseInv
<1>2. Becomes(r, k) /\ UNCHANGED <<sem, bucket, quota, expired>>
  BY DEF TimerFires
<1>3. /\ k \in Jobs /\ k.pc = "waiting" /\ k.ask = j.ask /\ k.est = j.est
      /\ k.todo = j.todo /\ k.scores = j.scores /\ k.order = j.order
      /\ k.on = j.on /\ k.plan = j.plan /\ k.kept = j.kept /\ k.held = j.held
  BY <1>1 DEF Jobs, Places
<1> HIDE DEF k
<1>4. JobOK(k)
  BY <1>1, <1>3, AwaitOK DEF Awaiting
<1>5. RefusalOK(k, FALSE)
  BY <1>3 DEF RefusalOK
<1> QED BY <1>1, <1>2, <1>3, <1>4, <1>5, OwnStep DEF IInv, LimiterInv

\* Releasing begins, after an answer, a failure or a wait in vain.
LEMMA ReleaseStarts ==
  ASSUME NEW j, JobOK(j), j.pc \notin Apart \union {"reserving"},
         NEW place \in Releasing, NEW k, k = StartRelease(j, place)
  PROVE  /\ JobOK(k) /\ k.held = j.held /\ k.pc # "queued" /\ RefusalOK(k, TRUE)
         /\ place # "cancelling" => RefusalOK(k, FALSE)
<1>1. /\ JobOK(k) /\ k.held = j.held
      /\ k.pc \in Releasing \union {"refused", "reserving", "done"}
      /\ k.pc \in {"cancelling", "refused"} => place = "cancelling"
  BY StartReleaseOK
<1>2. k.pc # "queued" /\ RefusalOK(k, TRUE)
  BY <1>1 DEF Releasing, RefusalOK
<1>3. place # "cancelling" => RefusalOK(k, FALSE)
  BY <1>1 DEF RefusalOK
<1> QED BY <1>1, <1>2, <1>3

LEMMA AnsweredInv ==
  ASSUME IInv, NEW r \in Requests, Answered(r)
  PROVE  IInv'
<1>1. JobOK(job[r]) /\ job[r].pc = "running" /\ job[r].est \in Nat
  BY JobFacts DEF Answered, At
<1>2. PICK u \in Actuals :
        Becomes(r, StartRelease([job[r] EXCEPT
          !.used = IF u > 0 THEN u ELSE job[r].est], "completing"))
  BY DEF Answered
<1> DEFINE n == IF u > 0 THEN u ELSE job[r].est
<1> DEFINE j == [job[r] EXCEPT !.used = n]
<1> DEFINE k == StartRelease(j, "completing")
<1>3. Becomes(r, k) /\ UNCHANGED <<sem, bucket, quota, expired>>
  BY <1>2 DEF Answered
<1>4. n \in Nat
  BY <1>1, ElectionAssumption
<1>5. job[r].due \in [Buckets \union Quotas -> Nat]
  BY JobFacts
<1> HIDE DEF n
<1>6. JobOK(j) /\ j.pc = "running" /\ j.held = job[r].held
  BY <1>1, <1>4, <1>5, TimersSet
<1> HIDE DEF j
<1>7. JobOK(k) /\ k.held = j.held /\ k.pc # "queued" /\ RefusalOK(k, FALSE)
  BY <1>6, ReleaseStarts DEF Apart, Releasing
<1> HIDE DEF k
<1> QED BY <1>1, <1>3, <1>6, <1>7, OwnStep DEF IInv, LimiterInv

LEMMA FailedInv ==
  ASSUME IInv, NEW r \in Requests, Failed(r)
  PROVE  IInv'
<1> DEFINE k == StartRelease(job[r], "closing")
<1>1. JobOK(job[r]) /\ job[r].pc = "running"
  BY JobFacts DEF Failed, At
<1>2. Becomes(r, k) /\ UNCHANGED <<sem, bucket, quota, expired>>
  BY DEF Failed
<1>3. JobOK(k) /\ k.held = job[r].held /\ k.pc # "queued" /\ RefusalOK(k, FALSE)
  BY <1>1, ReleaseStarts DEF Apart, Releasing
<1> HIDE DEF k
<1> QED BY <1>1, <1>2, <1>3, OwnStep DEF IInv, LimiterInv

LEMMA WaitFailsInv ==
  ASSUME IInv, NEW r \in Requests, WaitFails(r)
  PROVE  IInv'
<1> DEFINE d == [l \in DOMAIN job[r].due |-> IF l \in Quotas THEN 0 ELSE job[r].due[l]]
<1> DEFINE j == [job[r] EXCEPT !.due = d]
<1> DEFINE k == StartRelease(j, "cancelling")
<1>1. /\ JobOK(job[r]) /\ job[r] \in Jobs
      /\ job[r].due \in [Buckets \union Quotas -> Nat] /\ job[r].used \in Nat
  BY JobFacts
<1>2. job[r].pc \in Awaiting
  BY DEF WaitFails, At, Calls, Awaiting
<1>3. d \in [Buckets \union Quotas -> Nat]
  BY <1>1
<1>4. /\ expired' = expired \union {r} /\ UNCHANGED <<bucket, quota>>
      /\ sem' = [l \in Semaphores |->
                   IF At(r, "queued") /\ l = Now(r) THEN Dequeue(sem[l], r) ELSE sem[l]]
  BY DEF WaitFails
<1>5. Becomes(r, k)
  BY <1>1 DEF WaitFails, Jobs
<1> HIDE DEF d
<1>6. JobOK(j) /\ j.pc = job[r].pc /\ j.held = job[r].held
  BY <1>1, <1>3, TimersSet
<1> HIDE DEF j
<1>7. JobOK(k) /\ k.held = job[r].held /\ k.pc # "queued" /\ RefusalOK(k, TRUE)
  BY <1>2, <1>6, ReleaseStarts DEF Apart, Awaiting, Releasing
<1> HIDE DEF k
<1>8. CASE At(r, "queued")
  <2> DEFINE l == Now(r)
  <2>1. l \in Semaphores /\ QueuedAt(job[r], l)
    BY <1>1, <1>8 DEF At, JobOK, PhaseInv, QueuedAt, Now
  <2>2. sem' = [i \in Semaphores |-> IF i = l THEN Dequeue(sem[i], r) ELSE sem[i]]
    BY <1>4, <1>8
  <2> HIDE DEF l
  <2> QED BY <1>4, <1>5, <1>7, <2>1, <2>2, LeaveQueue
<1>9. CASE ~At(r, "queued")
  <2>1. sem' = sem
    BY <1>4, <1>9 DEF IInv, LimiterInv
  <2>2. job[r].pc # "queued"
    BY <1>9 DEF At
  <2> QED BY <1>4, <1>5, <1>7, <2>1, <2>2, OwnStep DEF IInv, LimiterInv
<1> QED BY <1>8, <1>9

LEMMA ReleaseSlotInv ==
  ASSUME IInv, NEW r \in Requests, ReleaseSlot(r)
  PROVE  IInv'
<1>1. /\ job[r].pc \in Releasing /\ Now(r) \in Semaphores
      /\ ReturnSlot(r, Now(r)) /\ UNCHANGED <<bucket, quota, expired>>
  BY DEF ReleaseSlot, Releases, Releasing
<1> QED BY <1>1, SlotReturned

\* What is released is no slot.
LEMMA ReleasedOK ==
  ASSUME IInv, NEW r \in Requests, NEW j, JobOK(j), j.pc = job[r].pc,
         j.held = job[r].held, j.plan = job[r].plan, job[r].pc \in Releasing,
         Now(r) \notin Semaphores, NEW k, k = AfterRelease(j)
  PROVE  /\ JobOK(k) /\ k.pc # "queued"
         /\ RefusalOK(k, FALSE) \/ (RefusalOK(k, TRUE) /\ r \in expired)
         /\ \A i \in Semaphores : i \in k.held <=> i \in job[r].held
<1>1. /\ JobOK(k) /\ k.held = j.held \ {Now(r)}
      /\ k.pc \in Releasing \union {"refused", "reserving", "done"}
      /\ k.pc \in {"cancelling", "refused"} => j.pc = "cancelling"
  BY AfterReleaseOK DEF Now
<1>2. job[r].pc = "cancelling" => r \in expired
  BY JobFacts DEF RefusalOK
<1>3. RefusalOK(k, FALSE) \/ (RefusalOK(k, TRUE) /\ r \in expired)
  BY <1>1, <1>2 DEF RefusalOK
<1>4. \A i \in Semaphores : i \in k.held <=> i \in job[r].held
  BY <1>1
<1>5. k.pc # "queued"
  BY <1>1 DEF Releasing
<1> QED BY <1>1, <1>3, <1>4, <1>5

LEMMA FinalFacts ==
  ASSUME IInv, NEW r \in Requests, NEW l \in Limiters
  PROVE  Final(r, l) \in Nat
BY JobFacts DEF Final

LEMMA ReleaseRateInv ==
  ASSUME IInv, NEW r \in Requests, ReleaseRate(r)
  PROVE  IInv'
<1> DEFINE l == Now(r)
<1> DEFINE diff == Cost(r, l) - Final(r, l)
<1> DEFINE j == [job[r] EXCEPT !.due[l] = 0]
<1> DEFINE k == AfterRelease(j)
<1>1. /\ JobOK(job[r]) /\ job[r].est \in Nat /\ job[r].pc \in Releasing /\ l \in Buckets
  BY JobFacts DEF ReleaseRate, Releases, Releasing
<1>2. /\ Becomes(r, k) /\ UNCHANGED <<sem, quota, expired>>
      /\ bucket' = IF diff = 0 THEN bucket
                   ELSE [bucket EXCEPT ![l] = Adjust(@, diff, LimitOf[l])]
  BY DEF ReleaseRate
<1>3. l \in Limiters /\ l \notin Semaphores
  BY <1>1, LimitFacts
<1>4. diff \in Int
  BY <1>1, <1>3, CostFacts, FinalFacts
<1>5. bucket' \in [Buckets -> AnyBucket]
  <2>1. bucket[l] \in AnyBucket /\ LimitOf[l] \in Nat /\ 0 \in Nat
    BY <1>1, LimitFacts DEF IInv, LimiterInv
  <2> HIDE DEF diff, l
  <2>2. Adjust(bucket[l], diff, LimitOf[l]) \in AnyBucket
    BY <1>4, <2>1, BucketFacts
  <2> QED BY <1>2, <2>2 DEF IInv, LimiterInv
<1>6. /\ JobOK(j) /\ j.pc = job[r].pc /\ j.held = job[r].held /\ j.plan = job[r].plan
  <2> HIDE DEF l
  <2> QED BY <1>1, TimerSet
<1> HIDE DEF j
<1>7. /\ JobOK(k) /\ k.pc # "queued"
      /\ RefusalOK(k, FALSE) \/ (RefusalOK(k, TRUE) /\ r \in expired)
      /\ \A i \in Semaphores : i \in k.held <=> i \in job[r].held
  BY <1>1, <1>3, <1>6, ReleasedOK
<1>8. job[r].pc # "queued" /\ expired' = expired
  BY <1>1, <1>2 DEF Releasing
<1> HIDE DEF k, l, diff
<1> QED BY <1>2, <1>5, <1>7, <1>8, OwnStep DEF IInv, LimiterInv

LEMMA ReleaseQuotaInv ==
  ASSUME IInv, NEW r \in Requests, ReleaseQuota(r)
  PROVE  IInv'
<1> DEFINE l == Now(r)
<1> DEFINE k == AfterRelease(job[r])
<1>1. /\ JobOK(job[r]) /\ job[r].est \in Nat /\ job[r].pc \in Releasing /\ l \in Quotas
  BY JobFacts DEF ReleaseQuota, Releases, Releasing
<1>2. /\ Becomes(r, k) /\ UNCHANGED <<sem, bucket, expired>>
      /\ quota' = [quota EXCEPT ![l] = Settle(@, Cost(r, l), Final(r, l))]
  BY DEF ReleaseQuota
<1>3. l \in Limiters /\ l \notin Semaphores
  BY <1>1, LimitFacts
<1>4. quota' \in [Quotas -> QuotaOf(DayTicks)]
  <2>1. /\ quota[l] \in QuotaOf(DayTicks) /\ DayTicks \in Nat \ {0}
        /\ Cost(r, l) \in Nat /\ Final(r, l) \in Nat
    BY <1>1, <1>3, CostFacts, FinalFacts, LimitFacts DEF IInv, LimiterInv
  <2> HIDE DEF l
  <2>2. Settle(quota[l], Cost(r, l), Final(r, l)) \in QuotaOf(DayTicks)
    BY <2>1, QuotaFacts
  <2> QED BY <1>2, <2>2 DEF IInv, LimiterInv
<1>5. /\ JobOK(k) /\ k.pc # "queued"
      /\ RefusalOK(k, FALSE) \/ (RefusalOK(k, TRUE) /\ r \in expired)
      /\ \A i \in Semaphores : i \in k.held <=> i \in job[r].held
  BY <1>1, <1>3, ReleasedOK
<1>6. job[r].pc # "queued" /\ expired' = expired
  BY <1>1, <1>2 DEF Releasing
<1> HIDE DEF k, l
<1> QED BY <1>2, <1>4, <1>5, <1>6, OwnStep DEF IInv, LimiterInv

LEMMA TickInv ==
  ASSUME IInv, Tick
  PROVE  IInv'
<1>1. /\ bucket' = [l \in Buckets |-> BucketTick(bucket[l], LimitOf[l])]
      /\ quota' = [l \in Quotas |-> QuotaTick(quota[l], DayTicks)]
      /\ UNCHANGED <<sem, expired>>
  BY DEF Tick
<1>2. ASSUME NEW r \in Requests
      PROVE  /\ JobOK(job'[r]) /\ job'[r].pc = job[r].pc
             /\ job'[r].ask = job[r].ask /\ job'[r].est = job[r].est
             /\ job'[r].plan = job[r].plan /\ job'[r].held = job[r].held
  <2> DEFINE j == job[r]
  <2> DEFINE d == [l \in DOMAIN j.due |-> IF j.due[l] > 0 THEN j.due[l] - 1 ELSE 0]
  <2>1. JobOK(j) /\ j \in Jobs /\ j.due \in [Buckets \union Quotas -> Nat] /\ j.used \in Nat
    BY JobFacts
  <2>2. job'[r] = [j EXCEPT !.due = d]
    BY <2>1 DEF Tick, Jobs
  <2>3. d \in [Buckets \union Quotas -> Nat]
    BY <2>1
  <2> HIDE DEF d, j
  <2>4. /\ JobOK(job'[r]) /\ job'[r].pc = j.pc /\ job'[r].ask = j.ask
        /\ job'[r].est = j.est /\ job'[r].plan = j.plan /\ job'[r].held = j.held
    BY <2>1, <2>2, <2>3, TimersSet
  <2> QED BY <2>4 DEF j
<1>3. LimiterInv'
  <2>1. \A l \in Buckets : BucketTick(bucket[l], LimitOf[l]) \in AnyBucket
    <3> SUFFICES ASSUME NEW l \in Buckets
                 PROVE  BucketTick(bucket[l], LimitOf[l]) \in AnyBucket
      OBVIOUS
    <3>1. bucket[l] \in AnyBucket /\ LimitOf[l] \in Nat /\ 0 \in Nat /\ 0 \in Int
      BY LimitFacts DEF IInv, LimiterInv
    <3> QED BY <3>1, BucketFacts
  <2>2. \A l \in Quotas : QuotaTick(quota[l], DayTicks) \in QuotaOf(DayTicks)
    <3> SUFFICES ASSUME NEW l \in Quotas
                 PROVE  QuotaTick(quota[l], DayTicks) \in QuotaOf(DayTicks)
      OBVIOUS
    <3>1. quota[l] \in QuotaOf(DayTicks) /\ DayTicks \in Nat \ {0} /\ 0 \in Nat
      BY LimitFacts DEF IInv, LimiterInv
    <3> QED BY <3>1, QuotaFacts
  <2> QED BY <1>1, <2>1, <2>2 DEF IInv, LimiterInv
<1>4. JobInv'
  <2>1. \A r \in Requests : RefusalOK(job'[r], r \in expired')
    <3> SUFFICES ASSUME NEW r \in Requests PROVE RefusalOK(job'[r], r \in expired')
      OBVIOUS
    <3>1. RefusalOK(job[r], r \in expired)
      BY JobFacts
    <3> QED BY <1>1, <1>2, <3>1 DEF RefusalOK
  <2>2. \A r \in Requests : job'[r] \in Jobs
    BY <1>2 DEF JobOK
  <2>3. job' = [r \in Requests |-> job'[r]]
    BY DEF Tick
  <2>4. job' \in [Requests -> Jobs]
    BY <2>2, <2>3
  <2> QED BY <1>2, <2>1, <2>4 DEF JobInv
<1>5. QueueInv'
  <2> SUFFICES ASSUME NEW l \in Semaphores
               PROVE  /\ Distinct(sem'[l].queue)
                      /\ \A q \in Requests :
                           q \in Members(sem'[l].queue) <=> QueuedAt(job'[q], l)
    BY DEF QueueInv
  <2>1. \A q \in Requests : QueuedAt(job'[q], l) <=> QueuedAt(job[q], l)
    BY <1>2 DEF QueuedAt
  <2> QED BY <1>1, <2>1, QueueStays DEF IInv
<1>6. HolderInv'
  <2> SUFFICES ASSUME NEW l \in Semaphores
               PROVE  IsFiniteSet(Holders(l)') /\ sem'[l].cur = Cardinality(Holders(l)')
    BY DEF HolderInv
  <2>1. \A q \in Requests : l \in job'[q].held <=> l \in job[q].held
    BY <1>2
  <2> QED BY <1>1, <2>1, HoldersStay DEF IInv
<1> QED BY <1>3, <1>4, <1>5, <1>6 DEF IInv

LEMMA NextIInv == IInv /\ [Next]_vars => IInv'
<1> SUFFICES ASSUME IInv, [Next]_vars PROVE IInv'
  OBVIOUS
<1>1. CASE UNCHANGED vars
  BY <1>1 DEF vars, IInv, LimiterInv, JobInv, QueueInv, HolderInv, Holders
<1>2. CASE Tick
  BY <1>2, TickInv
<1>3. ASSUME NEW r \in Requests,
             Arrive(r) \/ Proceed(r) \/ WaitFails(r) \/ Answered(r) \/ Failed(r)
      PROVE  IInv'
  <2>1. CASE Arrive(r)
    BY <2>1, ArriveInv
  <2>2. CASE WaitFails(r)
    BY <2>2, WaitFailsInv
  <2>3. CASE Answered(r)
    BY <2>3, AnsweredInv
  <2>4. CASE Failed(r)
    BY <2>4, FailedInv
  <2>5. CASE ProbeNext(r)
    BY <2>5, ProbeInvStep
  <2>6. CASE Rank(r)
    BY <2>6, RankInv
  <2>7. CASE ReserveSlot(r)
    BY <2>7, ReserveSlotInv
  <2>8. CASE ReserveRate(r)
    BY <2>8, ReserveRateInv
  <2>9. CASE ReserveQuota(r)
    BY <2>9, ReserveQuotaInv
  <2>10. CASE CheckDelay(r)
    BY <2>10, CheckDelayInv
  <2>11. CASE WaitSlot(r)
    BY <2>11, WaitSlotInv
  <2>12. CASE WaitRate(r)
    BY <2>12, WaitRateInv
  <2>13. CASE WaitQuota(r)
    BY <2>13, WaitQuotaInv
  <2>14. CASE TimerFires(r)
    BY <2>14, TimerFiresInv
  <2>15. CASE ReleaseSlot(r)
    BY <2>15, ReleaseSlotInv
  <2>16. CASE ReleaseRate(r)
    BY <2>16, ReleaseRateInv
  <2>17. CASE ReleaseQuota(r)
    BY <2>17, ReleaseQuotaInv
  <2> QED BY <1>3, <2>1, <2>2, <2>3, <2>4, <2>5, <2>6, <2>7, <2>8, <2>9, <2>10,
             <2>11, <2>12, <2>13, <2>14, <2>15, <2>16, <2>17 DEF Proceed
<1> QED BY <1>1, <1>2, <1>3 DEF Next

\* The inductive invariant holds in every reachable state.
THEOREM ElectionInvariance == Spec => []IInv
<1>1. Init => IInv
  BY InitIInv
<1>2. IInv /\ [Next]_vars => IInv'
  BY NextIInv
<1> QED BY <1>1, <1>2, PTL DEF Spec

-----------------------------------------------------------------------------
(* The properties                                                          *)

LEMMA OnFacts ==
  ASSUME NEW j \in Jobs
  PROVE  /\ j.on \in Seq(Models) /\ Len(j.on) <= 1 /\ IsInjective(j.on)
         /\ j.on # <<>> => j.on[1] \in Models /\ Range(j.on) = {j.on[1]}
<1>1. CASE j.on = <<>>
  BY <1>1, EmptyFacts, EmptySeq
<1>2. ASSUME NEW m \in Models, j.on = <<m>>
      PROVE  /\ j.on \in Seq(Models) /\ Len(j.on) = 1 /\ j.on[1] = m
  BY <1>2
<1>3. CASE j.on # <<>>
  <2>1. j.on \in Seq(Models) /\ Len(j.on) = 1 /\ j.on[1] \in Models
    BY <1>2, <1>3 DEF Jobs
  <2>2. /\ Range(j.on) = {j.on[i] : i \in 1..Len(j.on)}
        /\ IsInjective(j.on) <=> \A i, k \in 1..Len(j.on) : j.on[i] = j.on[k] => i = k
    BY <2>1, RangeFacts
  <2>3. 1..Len(j.on) = {1}
    BY <2>1
  <2> QED BY <2>1, <2>2, <2>3
<1> QED BY <1>1, <1>3

\* The state of every limiter and every job has its type, a semaphore never
\* counts more slots than it has, and no goroutine has acquired what it has
\* not reserved.
THEOREM TypeCorrect == Spec => []TypeOK
<1>1. ASSUME IInv PROVE TypeOK
  <2>1. \A l \in Semaphores : sem[l] \in [cur : 0..LimitOf[l], queue : Seq(Requests)]
    BY <1>1 DEF IInv, LimiterInv, SemaphoreOf
  <2>2. \A l \in Buckets : bucket[l].tokens \in Int /\ bucket[l].since \in Nat
    BY <1>1 DEF IInv, LimiterInv, AnyBucket
  <2>3. quota \in [Quotas -> [used : Nat, untilReset : -DayTicks..DayTicks]]
    BY <1>1 DEF IInv, LimiterInv, QuotaOf
  <2>4. ASSUME NEW r \in Requests
        PROVE  /\ job[r].ask \subseteq Asks
               /\ job[r].est \in {EstimateTokens(ask) : ask \in Asks} \union {0}
               /\ job[r].on \in Seq(Models) /\ Len(job[r].on) <= 1
               /\ job[r].held \subseteq Range(job[r].kept)
               /\ job[r].due \in [Buckets \union Quotas -> Nat]
    <3>1. JobOK(job[r]) /\ job[r] \in Jobs
      BY <1>1, JobFacts
    <3>2. job[r].on \in Seq(Models) /\ Len(job[r].on) <= 1
      BY <3>1, OnFacts
    <3> QED BY <3>1, <3>2 DEF JobOK, Jobs, EstimateInv, PhaseInv
  <2>5. expired \subseteq Requests
    BY <1>1 DEF IInv, LimiterInv
  <2> QED BY <2>1, <2>2, <2>3, <2>4, <2>5 DEF TypeOK
<1> QED BY <1>1, ElectionInvariance, PTL

\* No slot of a semaphore leaks and none is returned twice, whatever failed on
\* the way: a later limiter, a wait, the upstream call, or nothing.
THEOREM SlotsCorrect == Spec => []SlotsConserved
<1>1. IInv => SlotsConserved
  BY DEF IInv, HolderInv, Holders, SlotsConserved
<1> QED BY <1>1, ElectionInvariance, PTL

\* A request that runs holds a slot of every concurrency limiter of its model
\* and of that model's upstream, although wait may have returned at once.
THEOREM RunningCorrect == Spec => []RunningHoldsItsSlots
<1>1. ASSUME IInv, NEW r \in Requests, At(r, "running"),
             NEW l \in Semaphores \intersect Range(ReserveOrder(job[r].est, job[r].on[1]))
      PROVE  l \in job[r].held
  <2>1. PhaseInv(job[r]) /\ job[r].pc = "running"
    BY <1>1, JobFacts DEF JobOK, At
  <2>2. Range(job[r].kept) = Asked(job[r].est, job[r].on[1])
    BY <2>1 DEF PhaseInv, Apart
  <2>3. Semaphores \intersect Range(job[r].kept) \subseteq job[r].held
    BY <2>1 DEF PhaseInv
  <2> QED BY <1>1, <2>2, <2>3 DEF Asked
<1>2. IInv => RunningHoldsItsSlots
  BY <1>1 DEF RunningHoldsItsSlots
<1> QED BY <1>2, ElectionInvariance, PTL

\* A request that is over holds nothing, and a queue holds a request exactly
\* while its goroutine waits in it: no slot is handed to one that has left.
THEOREM LeavingCorrect == Spec => []NothingLeftBehind
<1>1. ASSUME IInv, NEW r \in Requests
      PROVE  /\ job[r].pc \in {"refused", "done"} => job[r].held = {}
             /\ \A l \in Semaphores :
                  r \in Range(sem[l].queue) <=> At(r, "queued") /\ Now(r) = l
  <2>1. PhaseInv(job[r])
    BY <1>1, JobFacts DEF JobOK
  <2>2. job[r].pc \in {"refused", "done"} => job[r].held = {}
    BY <2>1, EmptyFacts DEF PhaseInv, Apart
  <2>3. ASSUME NEW l \in Semaphores
        PROVE  r \in Range(sem[l].queue) <=> At(r, "queued") /\ Now(r) = l
    <3>1. sem[l].queue \in Seq(Requests)
      BY <1>1 DEF IInv, LimiterInv
    <3>2. Range(sem[l].queue) = Members(sem[l].queue)
      BY <3>1, RangeFacts DEF Members
    <3>3. r \in Members(sem[l].queue) <=> QueuedAt(job[r], l)
      BY <1>1 DEF IInv, QueueInv
    <3> QED BY <3>2, <3>3 DEF QueuedAt, At, Now
  <2> QED BY <2>2, <2>3
<1>2. IInv => NothingLeftBehind
  BY <1>1 DEF NothingLeftBehind
<1> QED BY <1>2, ElectionInvariance, PTL

\* No limiter refuses a reservation, because the ranking has dropped every
\* candidate that one of them would refuse: tryReserveAll has no error to
\* report.
THEOREM ReservingCorrect == Spec => []ReserveNeverRefused
<1>1. ASSUME IInv, NEW r \in Requests, Calls(r, "reserving", Limiters)
      PROVE  ~Oversized(r, Now(r))
  <2> DEFINE j == job[r]
  <2>1. JobOK(j) /\ j \in Jobs /\ j.est \in Nat /\ Now(r) \in Limiters
    BY <1>1, JobFacts DEF Calls
  <2>2. j.pc = "reserving" /\ j.plan # <<>> /\ Now(r) = Head(j.plan)
    BY <1>1 DEF Calls, At, Now
  <2>3. j.on # <<>> /\ Range(j.plan) \subseteq Asked(j.est, j.on[1])
    BY <2>1, <2>2 DEF JobOK, PhaseInv, Apart
  <2>4. j.on[1] \in Range(j.on)
    BY <2>1, <2>3, OnFacts
  <2>5. ~Hopeless(j.est, j.on[1])
    BY <2>1, <2>4 DEF JobOK, OrderInv
  <2>6. Head(j.plan) \in Range(j.plan)
    BY <2>1, <2>2, TailFacts DEF Jobs
  <2>7. ~Exceeds(j.est, Now(r))
    BY <2>2, <2>3, <2>5, <2>6 DEF Hopeless
  <2> QED BY <2>1, <2>7, CostFacts
<1>2. IInv => ReserveNeverRefused
  BY <1>1 DEF ReserveNeverRefused
<1> QED BY <1>2, ElectionInvariance, PTL

\* While its context lives, a request is refused only if the limits of every
\* candidate are below its size: ErrNoUpstream is not a matter of timing.
THEOREM RefusalCorrect == Spec => []RefusedOnlyIfHopeless
<1>1. ASSUME IInv, NEW r \in Requests, At(r, "refused"), r \notin expired,
             NEW ask \in job[r].ask, NEW m \in Range(CandidatesOf(ask))
      PROVE  \E l \in Range(ReserveOrder(job[r].est, m)) : Oversized(r, l)
  <2>1. JobOK(job[r]) /\ RefusalOK(job[r], r \in expired) /\ job[r].est \in Nat
    BY <1>1, JobFacts
  <2>2. Hopeless(job[r].est, m)
    BY <1>1, <2>1 DEF RefusalOK, At
  <2>3. PICK l \in Asked(job[r].est, m) : Exceeds(job[r].est, l)
    BY <2>2 DEF Hopeless
  <2>4. m \in Models
    <3>1. ask \in Asks
      BY <1>1, <2>1, JobFacts DEF Jobs
    <3> QED BY <1>1, <3>1, CandidatesFacts, RangeFacts
  <2>5. l \in Limiters
    BY <2>1, <2>3, <2>4, AskedFacts
  <2>6. Oversized(r, l)
    BY <2>1, <2>3, <2>5, CostFacts
  <2> QED BY <2>3, <2>6 DEF Asked
<1>2. IInv => RefusedOnlyIfHopeless
  BY <1>1 DEF RefusedOnlyIfHopeless
<1> QED BY <1>2, ElectionInvariance, PTL

\* Every model a request is tried on has the capability it needs, is meant by
\* the name it asks for if any capable model is, and is tried once.
THEOREM RouteCorrect == Spec => []RouteHonoured
<1>1. ASSUME IInv, NEW r \in Requests, NEW ask \in job[r].ask
      PROVE  LET left == job[r].on \o job[r].order IN
             /\ \A m \in Range(left) :
                  /\ Serves(m, ask)
                  /\ (\E n \in Models : Serves(n, ask) /\ Means(n, ask.model))
                       => Means(m, ask.model)
             /\ IsInjective(left) /\ IsInjective(job[r].todo)
  <2> DEFINE j == job[r]
  <2>1. JobOK(j) /\ j \in Jobs
    BY <1>1, JobFacts
  <2>2. ask \in Asks /\ j.order \in Seq(Models)
    BY <1>1, <2>1 DEF Jobs
  <2>3. j.on \in Seq(Models) /\ IsInjective(j.on)
    BY <2>1, OnFacts
  <2>4. IsInjective(j.order) /\ Range(j.order) \intersect Range(j.on) = {}
    BY <2>1 DEF JobOK, OrderInv
  <2>5. /\ Range(j.on \o j.order) = Range(j.on) \union Range(j.order)
        /\ IsInjective(j.on \o j.order)
    BY <2>2, <2>3, <2>4, ConcatFacts
  <2>6. Range(j.order) \union Range(j.on) \subseteq Range(CandidatesOf(ask))
    BY <1>1, <2>1 DEF JobOK, OrderInv
  <2>7. IsInjective(j.todo)
    BY <2>1 DEF JobOK, ProbeInv
  <2> QED BY <2>2, <2>5, <2>6, <2>7, CandidatesFacts
<1>2. IInv => RouteHonoured
  BY <1>1 DEF RouteHonoured
<1> QED BY <1>2, ElectionInvariance, PTL

=============================================================================
