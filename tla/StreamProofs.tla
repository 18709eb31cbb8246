---------------------------- MODULE StreamProofs ----------------------------
(***************************************************************************)
(* What a reader makes of a stream of chat events that follows the         *)
(* protocol: the lemmas on the reducer and on the events that wait to be   *)
(* delivered, which the proofs about the upstream clients share.           *)
(***************************************************************************)
EXTENDS EventStream, ProviderTurn, FiniteSetTheorems, SequenceTheorems, TLAPS

-----------------------------------------------------------------------------
(* Events, contents and the reader's state                                 *)

Usages == [in : Nat, out : Nat]

ItemNames == {NoItem} \union {<<"item", o>> : o \in Nat}

ContentKinds == TextKinds \union {"tool", "opaque"}

ContentSet == [kind : ContentKinds, item : ItemNames, call : Nat,
               text : Seq(Nat), signature : Seq(Nat)]

EventTypes == {"message_start", "message_stop", "usage_only", "content_start",
               "content_delta", "content_stop", "content_snapshot"}

EventKinds == ContentKinds \union DeltaKinds \union {""}

EventSet == [type : EventTypes, index : Nat, kind : EventKinds, item : ItemNames,
             call : Nat, text : Seq(Nat), status : Statuses, usage : Usages]

\* The events whose fields fit their type.
Proper == {e \in EventSet :
             /\ e.type = "content_start" => e.kind \in TextKinds \union {"tool"}
             /\ e.type = "content_snapshot" => e.kind = "opaque"
             /\ e.type = "content_delta" => e.kind \in DeltaKinds
             /\ e.type # "message_stop" => e.status = "unspecified"}

BlockMaps == UNION {[D -> Nat] : D \in SUBSET Nat}

Replies == [contents : Seq(ContentSet), blocks : BlockMaps, status : Statuses,
            usage : Usages]

\* The reducer knows the content of every block, and where it is.
ReaderOK(t, q) ==
  /\ t \in Turns /\ q \in Replies
  /\ \A i \in DOMAIN q.blocks : i < t.next /\ q.blocks[i] \in 1..Len(q.contents)
  /\ \A k \in 1..Len(q.contents) : \E i \in DOMAIN q.blocks : q.blocks[i] = k
  /\ \A i, j \in DOMAIN q.blocks : q.blocks[i] = q.blocks[j] => i = j
  /\ \A b \in t.blocks :
       /\ b.index \in DOMAIN q.blocks
       /\ q.contents[q.blocks[b.index]].kind = b.kind
  /\ \A b, d \in t.blocks : b.index = d.index => b = d

-----------------------------------------------------------------------------
LEMMA MergeFacts ==
  ASSUME NEW u \in Usages, NEW v \in Usages
  PROVE  /\ MergeUsage(u, v) \in Usages /\ MergeUsage(u, NoUsage) = u
         /\ MergeUsage(NoUsage, v) = v
BY DEF MergeUsage, Usages, NoUsage

LEMMA PutFacts ==
  ASSUME NEW f \in BlockMaps, NEW k \in Nat, NEW v \in Nat
  PROVE  /\ Put(f, k, v) \in BlockMaps
         /\ DOMAIN Put(f, k, v) = DOMAIN f \union {k}
         /\ Put(f, k, v)[k] = v
         /\ \A i \in DOMAIN f : i # k => Put(f, k, v)[i] = f[i]
<1>1. PICK D \in SUBSET Nat : f \in [D -> Nat]
  BY DEF BlockMaps
<1>2. Put(f, k, v) \in [D \union {k} -> Nat]
  BY <1>1 DEF Put
<1> QED BY <1>1, <1>2 DEF Put, BlockMaps

\* What the reducer does first, whatever the event.
Noted(q, e) == [q EXCEPT !.usage = MergeUsage(@, e.usage)]

LEMMA ReduceCases ==
  ASSUME NEW q, NEW e
  PROVE  /\ e.type = "message_stop" => Reduce(q, e) = [Noted(q, e) EXCEPT !.status = e.status]
         /\ e.type = "content_delta" => Reduce(q, e) = ApplyDelta(Noted(q, e), e)
         /\ e.type \in {"content_start", "content_snapshot"} =>
              Reduce(q, e) = AddContent(Noted(q, e), e)
         /\ e.type \in {"message_start", "content_stop", "usage_only"} =>
              Reduce(q, e) = Noted(q, e)
<1> DEFINE r == Noted(q, e)
<1>1. Reduce(q, e) =
        CASE e.type = "message_stop"  -> [r EXCEPT !.status = e.status]
          [] e.type = "content_delta" -> ApplyDelta(r, e)
          [] e.type \in {"content_start", "content_snapshot"} -> AddContent(r, e)
          [] OTHER -> r
  BY Zenon DEF Reduce, Noted
<1> HIDE DEF r
<1>2. /\ "message_stop" \notin {"content_start", "content_snapshot"}
      /\ "content_delta" \notin {"content_start", "content_snapshot"}
  OBVIOUS
<1>3. e.type = "message_stop" => Reduce(q, e) = [r EXCEPT !.status = e.status]
  BY Zenon, <1>1
<1>4. e.type = "content_delta" => Reduce(q, e) = ApplyDelta(r, e)
  BY <1>1
<1>5. e.type \in {"content_start", "content_snapshot"} => Reduce(q, e) = AddContent(r, e)
  BY <1>1, <1>2
<1>6. e.type \in {"message_start", "content_stop", "usage_only"} => Reduce(q, e) = r
  BY <1>1
<1> QED BY Zenon, <1>3, <1>4, <1>5, <1>6 DEF r

LEMMA NotedFacts ==
  ASSUME NEW q \in Replies, NEW e \in EventSet
  PROVE  /\ Noted(q, e) \in Replies
         /\ Noted(q, e) = [contents |-> q.contents, blocks |-> q.blocks,
                           status |-> q.status, usage |-> MergeUsage(q.usage, e.usage)]
<1>1. MergeUsage(q.usage, e.usage) \in Usages
  BY MergeFacts DEF Replies, EventSet
<1> QED BY <1>1 DEF Noted, Replies

\* What the reducer makes of each kind of event.
LEMMA ReduceOpens ==
  ASSUME NEW q \in Replies, NEW e \in EventSet,
         e.type \in {"content_start", "content_snapshot"}
  PROVE  Reduce(q, e) =
           [contents |-> Append(q.contents, Content(e.kind, e.item, e.call, e.text)),
            blocks   |-> Put(q.blocks, e.index, Len(q.contents) + 1),
            status   |-> q.status, usage |-> MergeUsage(q.usage, e.usage)]
<1> DEFINE r == Noted(q, e)
<1>1. Reduce(q, e) = AddContent(r, e)
  BY ReduceCases
<1>2. /\ r \in Replies /\ r.contents = q.contents /\ r.blocks = q.blocks
      /\ r.status = q.status /\ r.usage = MergeUsage(q.usage, e.usage)
  BY NotedFacts
<1> HIDE DEF r
<1> QED BY <1>1, <1>2 DEF AddContent, Replies

LEMMA ReduceStop ==
  ASSUME NEW q \in Replies, NEW e \in EventSet, e.type = "message_stop"
  PROVE  Reduce(q, e) = [contents |-> q.contents, blocks |-> q.blocks,
                         status |-> e.status, usage |-> MergeUsage(q.usage, e.usage)]
<1> DEFINE r == Noted(q, e)
<1>1. Reduce(q, e) = [r EXCEPT !.status = e.status]
  BY ReduceCases
<1>2. /\ r \in Replies /\ r.contents = q.contents /\ r.blocks = q.blocks
      /\ r.usage = MergeUsage(q.usage, e.usage)
  BY NotedFacts
<1> HIDE DEF r
<1> QED BY <1>1, <1>2 DEF Replies

LEMMA ReduceOther ==
  ASSUME NEW q \in Replies, NEW e \in EventSet,
         e.type \in {"message_start", "content_stop", "usage_only"}
  PROVE  Reduce(q, e) = [contents |-> q.contents, blocks |-> q.blocks,
                         status |-> q.status, usage |-> MergeUsage(q.usage, e.usage)]
BY ReduceCases, NotedFacts

\* A content with a fragment more, of its text or of its signature.
Extended(c, kind, text) ==
  [c EXCEPT !.text      = IF kind = "signature" THEN @ ELSE @ \o text,
            !.signature = IF kind = "signature" THEN @ \o text ELSE @]

\* The contents m with that fragment more in the content at k.
Amend(m, k, kind, text) == [m EXCEPT ![k] = Extended(@, kind, text)]

LEMMA ExtendedFacts ==
  ASSUME NEW c \in ContentSet, NEW kind, NEW text \in Seq(Nat)
  PROVE  /\ Extended(c, kind, text) \in ContentSet
         /\ Extended(c, kind, text).kind = c.kind
         /\ kind = "signature" =>
              Extended(c, kind, text) = [c EXCEPT !.signature = @ \o text]
         /\ kind # "signature" =>
              Extended(c, kind, text) = [c EXCEPT !.text = @ \o text]
<1>1. c.text \o text \in Seq(Nat) /\ c.signature \o text \in Seq(Nat)
  BY ConcatProperties DEF ContentSet
<1> QED BY <1>1 DEF Extended, ContentSet

LEMMA ReduceDelta ==
  ASSUME NEW q \in Replies, NEW e \in EventSet, e.type = "content_delta",
         e.index \in DOMAIN q.blocks, q.blocks[e.index] \in 1..Len(q.contents),
         FitsKind(e.kind, q.contents[q.blocks[e.index]].kind)
  PROVE  Reduce(q, e) =
           [contents |-> [q.contents EXCEPT ![q.blocks[e.index]] =
                            Extended(@, e.kind, e.text)],
            blocks |-> q.blocks, status |-> q.status,
            usage |-> MergeUsage(q.usage, e.usage)]
<1> DEFINE r == Noted(q, e)
<1> DEFINE k == q.blocks[e.index]
<1> DEFINE c == q.contents[k]
<1> DEFINE x == Extended(c, e.kind, e.text)
<1> DEFINE new == [q.contents EXCEPT ![k] = x]
<1>1. Reduce(q, e) = ApplyDelta(r, e)
  BY ReduceCases
<1>2. /\ r \in Replies /\ r.contents = q.contents /\ r.blocks = q.blocks
      /\ r.status = q.status /\ r.usage = MergeUsage(q.usage, e.usage)
  BY NotedFacts
<1> HIDE DEF r
<1>3. c \in ContentSet /\ FitsKind(e.kind, c.kind) /\ e.index \in DOMAIN r.blocks
  BY <1>2, ElementOfSeq, LenProperties DEF Replies
<1>4. r.blocks[e.index] = k /\ r.contents[k] = c
  BY <1>2
<1> HIDE DEF k, c
<1>5. ApplyDelta(r, e) =
        CASE e.index \notin DOMAIN r.blocks -> r
          [] e.index \in DOMAIN r.blocks /\ e.kind = "signature" ->
               [r EXCEPT !.contents[k].signature = @ \o e.text]
          [] e.index \in DOMAIN r.blocks /\ e.kind = "text" /\ c.kind \in TextKinds ->
               [r EXCEPT !.contents[k].text = @ \o e.text]
          [] e.index \in DOMAIN r.blocks /\ e.kind = "tool" /\ c.kind = "tool" ->
               [r EXCEPT !.contents[k].text = @ \o e.text]
          [] OTHER -> r
  BY <1>4, Zenon DEF ApplyDelta
<1>6. "text" # "tool" /\ "text" # "signature" /\ "tool" # "signature"
  OBVIOUS
<1>7. ASSUME e.kind = "signature"
      PROVE  ApplyDelta(r, e) = [r EXCEPT !.contents = [r.contents EXCEPT ![k] = x]]
  <2>1. ApplyDelta(r, e) = [r EXCEPT !.contents[k].signature = @ \o e.text]
    BY <1>3, <1>5, <1>6, <1>7, Zenon
  <2>2. [c EXCEPT !.signature = @ \o e.text] = x
    BY <1>3, <1>7 DEF Extended, ContentSet
  <2> HIDE DEF x
  <2> QED BY <1>4, <2>1, <2>2, Zenon
<1>8. ASSUME e.kind # "signature"
      PROVE  ApplyDelta(r, e) = [r EXCEPT !.contents = [r.contents EXCEPT ![k] = x]]
  <2>1. ApplyDelta(r, e) = [r EXCEPT !.contents[k].text = @ \o e.text]
    <3>1. \/ e.kind = "text" /\ c.kind \in TextKinds
          \/ e.kind = "tool" /\ c.kind = "tool"
      BY <1>3, <1>8 DEF FitsKind
    <3>2. CASE e.kind = "text" /\ c.kind \in TextKinds
      BY <1>3, <1>5, <1>6, <3>2, Zenon
    <3>3. CASE e.kind = "tool" /\ c.kind = "tool"
      BY <1>3, <1>5, <1>6, <3>3, Zenon
    <3> QED BY <3>1, <3>2, <3>3
  <2>2. [c EXCEPT !.text = @ \o e.text] = x
    BY <1>3, <1>8 DEF Extended, ContentSet
  <2> HIDE DEF x
  <2> QED BY <1>4, <2>1, <2>2, Zenon
<1>9. ApplyDelta(r, e) = [r EXCEPT !.contents = [r.contents EXCEPT ![k] = x]]
  BY <1>7, <1>8
<1> HIDE DEF x
<1>10. Reduce(q, e) = [r EXCEPT !.contents = new]
  BY <1>1, <1>2, <1>9
<1> HIDE DEF new
<1>11. Reduce(q, e) = [contents |-> new, blocks |-> q.blocks, status |-> q.status,
                       usage |-> MergeUsage(q.usage, e.usage)]
  BY <1>2, <1>10 DEF Replies
<1> QED BY <1>11 DEF new, x, k, c

\* How each kind of event changes the turn.
LEMMA AfterCases ==
  ASSUME NEW t \in Turns, NEW e
  PROVE  /\ e.type = "message_start" =>
              After(t, e) = [turn |-> "open", next |-> t.next, blocks |-> t.blocks]
         /\ e.type = "message_stop" =>
              After(t, e) = [turn |-> "stopped", next |-> t.next, blocks |-> t.blocks]
         /\ e.type = "content_snapshot" =>
              After(t, e) = [turn |-> t.turn, next |-> e.index + 1, blocks |-> t.blocks]
         /\ e.type = "content_start" =>
              After(t, e) = [turn |-> t.turn, next |-> e.index + 1,
                             blocks |-> t.blocks \union {[index |-> e.index, kind |-> e.kind]}]
         /\ e.type = "content_stop" =>
              After(t, e) = [turn |-> t.turn, next |-> t.next,
                             blocks |-> {b \in t.blocks : b.index # e.index}]
         /\ e.type \in {"content_delta", "usage_only"} => After(t, e) = t
<1> DEFINE started == t.blocks \union {[index |-> e.index, kind |-> e.kind]}
<1> DEFINE stopped == {b \in t.blocks : b.index # e.index}
<1>1. After(t, e) =
        CASE e.type = "message_start"    -> [t EXCEPT !.turn = "open"]
          [] e.type = "message_stop"     -> [t EXCEPT !.turn = "stopped"]
          [] e.type = "content_snapshot" -> [t EXCEPT !.next = e.index + 1]
          [] e.type = "content_start"    ->
               [t EXCEPT !.next = e.index + 1, !.blocks = started]
          [] e.type = "content_stop"     -> [t EXCEPT !.blocks = stopped]
          [] OTHER -> t
  BY Zenon DEF After
<1> HIDE DEF started, stopped
<1>2. \A a, b \in EventTypes : a # b => ~(e.type = a /\ e.type = b)
  OBVIOUS
<1>3. e.type = "message_start" => After(t, e) = [t EXCEPT !.turn = "open"]
  BY <1>1
<1>4. e.type = "message_stop" => After(t, e) = [t EXCEPT !.turn = "stopped"]
  BY <1>1
<1>5. e.type = "content_snapshot" => After(t, e) = [t EXCEPT !.next = e.index + 1]
  BY <1>1
<1>6. e.type = "content_start" =>
        After(t, e) = [t EXCEPT !.next = e.index + 1, !.blocks = started]
  BY <1>1
<1>7. e.type = "content_stop" => After(t, e) = [t EXCEPT !.blocks = stopped]
  BY <1>1
<1>8. e.type \in {"content_delta", "usage_only"} => After(t, e) = t
  BY <1>1
<1> QED BY <1>3, <1>4, <1>5, <1>6, <1>7, <1>8 DEF Turns, started, stopped

-----------------------------------------------------------------------------
(* A reader of a legal stream                                              *)

\* A content that is opened or passed on whole gets an index no content has.
LEMMA ReaderOpens ==
  ASSUME NEW t \in Turns, NEW q \in Replies, NEW e \in Proper, ReaderOK(t, q),
         OpensContent(t, e)
  PROVE  ReaderOK(After(t, e), Reduce(q, e))
<1> DEFINE n == Len(q.contents)
<1> DEFINE c == Content(e.kind, e.item, e.call, e.text)
<1> DEFINE m == Append(q.contents, c)
<1> DEFINE f == Put(q.blocks, e.index, n + 1)
<1> DEFINE B == IF e.type = "content_start"
                THEN t.blocks \union {[index |-> e.index, kind |-> e.kind]} ELSE t.blocks
<1> DEFINE v == MergeUsage(q.usage, e.usage)
<1>1. e \in EventSet /\ e.type \in {"content_start", "content_snapshot"} /\ e.index >= t.next
  BY DEF OpensContent, Proper
<1>2. After(t, e) = [turn |-> t.turn, next |-> e.index + 1, blocks |-> B]
  BY <1>1, AfterCases
<1>3. Reduce(q, e) = [contents |-> m, blocks |-> f, status |-> q.status, usage |-> v]
  BY <1>1, ReduceOpens
<1>4. c \in ContentSet /\ c.kind = e.kind
  BY <1>1, EmptySeq DEF Content, ContentSet, ContentKinds, EventSet, Proper
<1>5. q.contents \in Seq(ContentSet) /\ q.blocks \in BlockMaps /\ q.usage \in Usages
      /\ e.usage \in Usages /\ n \in Nat /\ e.index \in Nat /\ t.next \in Nat
      /\ q.status \in Statuses
  BY <1>1, LenProperties DEF Replies, EventSet, Turns
<1>6. m \in Seq(ContentSet) /\ Len(m) = n + 1 /\ m[n + 1] = c
      /\ \A k \in 1..n : m[k] = q.contents[k]
  <2> HIDE DEF c
  <2> QED BY <1>4, <1>5, AppendProperties
<1>7. f \in BlockMaps /\ DOMAIN f = DOMAIN q.blocks \union {e.index} /\ f[e.index] = n + 1
      /\ \A i \in DOMAIN q.blocks : i # e.index => f[i] = q.blocks[i]
  <2> DEFINE k == n + 1
  <2>1. k \in Nat
    BY <1>5
  <2> HIDE DEF k
  <2>2. /\ Put(q.blocks, e.index, k) \in BlockMaps
        /\ DOMAIN Put(q.blocks, e.index, k) = DOMAIN q.blocks \union {e.index}
        /\ Put(q.blocks, e.index, k)[e.index] = k
        /\ \A i \in DOMAIN q.blocks : i # e.index =>
             Put(q.blocks, e.index, k)[i] = q.blocks[i]
    BY <1>5, <2>1, PutFacts
  <2> QED BY <2>2 DEF k
<1>8. v \in Usages
  BY <1>5, MergeFacts
<1>9. \A i \in DOMAIN q.blocks : i \in Nat /\ i < e.index
  <2>1. DOMAIN q.blocks \subseteq Nat
    BY <1>5 DEF BlockMaps
  <2> QED BY <1>1, <1>5, <2>1 DEF ReaderOK
<1>10. B \subseteq [index : Nat, kind : TextKinds \union {"tool"}]
  <2>1. t.blocks \subseteq [index : Nat, kind : TextKinds \union {"tool"}]
    BY DEF Turns
  <2>2. ASSUME e.type = "content_start"
        PROVE  [index |-> e.index, kind |-> e.kind] \in
                 [index : Nat, kind : TextKinds \union {"tool"}]
    <3>1. e.index \in Nat /\ e.kind \in TextKinds \union {"tool"}
      BY <1>5, <2>2 DEF Proper
    <3> QED BY <3>1
  <2> QED BY <2>1, <2>2
<1>11. \A b \in B : \/ b \in t.blocks /\ b.index # e.index
                    \/ b.index = e.index /\ b.kind = e.kind /\ b \notin t.blocks
                       /\ e.type = "content_start"
  BY <1>9, <1>1, <1>5 DEF ReaderOK
<1> DEFINE u == [turn |-> t.turn, next |-> e.index + 1, blocks |-> B]
<1> DEFINE p == [contents |-> m, blocks |-> f, status |-> q.status, usage |-> v]
<1>12. u \in Turns /\ u.next = e.index + 1 /\ u.blocks = B
  <2> HIDE DEF B
  <2> QED BY <1>5, <1>10 DEF Turns
<1>13. p \in Replies /\ p.contents = m /\ p.blocks = f
  <2> HIDE DEF m, f, v
  <2> QED BY <1>5, <1>6, <1>7, <1>8 DEF Replies
<1> HIDE DEF u, p, m, f, c, n, v
<1>14. \A i \in DOMAIN f : i < e.index + 1 /\ f[i] \in 1..Len(m)
  BY <1>5, <1>6, <1>7, <1>9 DEF ReaderOK, n
<1>15. ASSUME NEW k \in 1..Len(m)
       PROVE  \E i \in DOMAIN f : f[i] = k
  <2>1. CASE k = n + 1
    BY <1>7, <2>1
  <2>2. CASE k \in 1..n
    <3>1. PICK i \in DOMAIN q.blocks : q.blocks[i] = k
      BY <2>2 DEF ReaderOK, n
    <3> QED BY <1>7, <1>9, <3>1
  <2> QED BY <1>5, <1>6, <2>1, <2>2
<1>16. \A i, j \in DOMAIN f : f[i] = f[j] => i = j
  BY <1>5, <1>6, <1>7, <1>9 DEF ReaderOK, n
<1>17. ASSUME NEW b \in B
       PROVE  b.index \in DOMAIN f /\ m[f[b.index]].kind = b.kind
  <2>1. CASE b \in t.blocks /\ b.index # e.index
    <3>1. /\ b.index \in DOMAIN q.blocks /\ q.blocks[b.index] \in 1..n
          /\ q.contents[q.blocks[b.index]].kind = b.kind
      BY <2>1 DEF ReaderOK, n
    <3> QED BY <1>6, <1>7, <2>1, <3>1
  <2>2. CASE b.index = e.index /\ b.kind = e.kind
    BY <1>4, <1>6, <1>7, <2>2
  <2> QED BY <1>11, <2>1, <2>2
<1>18. \A b, d \in B : b.index = d.index => b = d
  <2> SUFFICES ASSUME NEW b \in B, NEW d \in B, b.index = d.index PROVE b = d
    OBVIOUS
  <2>1. CASE b \in t.blocks /\ d \in t.blocks
    BY <2>1 DEF ReaderOK
  <2>2. CASE b \notin t.blocks \/ d \notin t.blocks
    <3>1. b \notin t.blocks /\ d \notin t.blocks
      BY <2>2, <1>11
    <3> QED BY <3>1
  <2> QED BY <2>1, <2>2
<1>19. ReaderOK(u, p)
  <2> HIDE DEF B
  <2> QED BY <1>12, <1>13, <1>14, <1>15, <1>16, <1>17, <1>18 DEF ReaderOK
<1> QED BY <1>2, <1>3, <1>19 DEF u, p

\* A delta is written to the content of its block, and no other changes.
LEMMA ReaderExtends ==
  ASSUME NEW t \in Turns, NEW q \in Replies, NEW e \in Proper, ReaderOK(t, q),
         ExtendsBlock(t, e)
  PROVE  ReaderOK(After(t, e), Reduce(q, e))
<1>1. e \in EventSet /\ e.type = "content_delta"
  BY DEF ExtendsBlock, Proper
<1>2. PICK b \in t.blocks : b.index = e.index /\ FitsKind(e.kind, b.kind)
  BY DEF ExtendsBlock
<1> DEFINE k == q.blocks[e.index]
<1> DEFINE x == Extended(q.contents[k], e.kind, e.text)
<1> DEFINE m == [q.contents EXCEPT ![k] = x]
<1> DEFINE v == MergeUsage(q.usage, e.usage)
<1>3. e.index \in DOMAIN q.blocks /\ k \in 1..Len(q.contents)
      /\ FitsKind(e.kind, q.contents[k].kind)
  BY <1>2 DEF ReaderOK
<1>4. After(t, e) = t
  BY <1>1, AfterCases
<1>5. Reduce(q, e) = [contents |-> m, blocks |-> q.blocks, status |-> q.status, usage |-> v]
  BY <1>1, <1>3, ReduceDelta
<1>6. q.contents \in Seq(ContentSet) /\ q.blocks \in BlockMaps /\ q.usage \in Usages
      /\ e.usage \in Usages /\ q.status \in Statuses /\ e.text \in Seq(Nat)
  BY <1>1 DEF Replies, EventSet
<1>7. x \in ContentSet /\ x.kind = q.contents[k].kind
  BY <1>3, <1>6, ElementOfSeq, ExtendedFacts
<1> HIDE DEF x, k
<1>8. m \in Seq(ContentSet) /\ Len(m) = Len(q.contents)
      /\ \A i \in 1..Len(q.contents) : m[i].kind = q.contents[i].kind
  BY <1>3, <1>6, <1>7, ExceptSeq, LenProperties
<1>9. v \in Usages
  BY <1>6, MergeFacts
<1> DEFINE p == [contents |-> m, blocks |-> q.blocks, status |-> q.status, usage |-> v]
<1>10. p \in Replies /\ p.contents = m /\ p.blocks = q.blocks
  <2> HIDE DEF m, v
  <2> QED BY <1>6, <1>8, <1>9 DEF Replies
<1> HIDE DEF p, m
<1>11. ReaderOK(t, p)
  BY <1>8, <1>10 DEF ReaderOK
<1> QED BY <1>4, <1>5, <1>11 DEF p

\* The other events leave the contents as they are.
LEMMA ReaderKeeps ==
  ASSUME NEW t \in Turns, NEW q \in Replies, NEW e \in Proper, ReaderOK(t, q),
         e.type \in {"message_start", "message_stop", "content_stop", "usage_only"}
  PROVE  ReaderOK(After(t, e), Reduce(q, e))
<1> DEFINE s == IF e.type = "message_stop" THEN e.status ELSE q.status
<1> DEFINE v == MergeUsage(q.usage, e.usage)
<1> DEFINE p == [contents |-> q.contents, blocks |-> q.blocks, status |-> s, usage |-> v]
<1>1. e \in EventSet
  BY DEF Proper
<1>2. Reduce(q, e) = p
  BY <1>1, ReduceStop, ReduceOther
<1>3. v \in Usages /\ s \in Statuses
  BY <1>1, MergeFacts DEF Replies, EventSet
<1>4. p \in Replies /\ p.contents = q.contents /\ p.blocks = q.blocks
  <2> HIDE DEF s, v
  <2> QED BY <1>3 DEF Replies
<1>5. /\ After(t, e) \in Turns /\ After(t, e).next = t.next
      /\ After(t, e).blocks \subseteq t.blocks
  <2>1. /\ t.next \in Nat /\ t.turn \in {"new", "open", "stopped"}
        /\ t.blocks \in SUBSET [index : Nat, kind : TextKinds \union {"tool"}]
    BY DEF Turns
  <2>2. PICK tn \in {"new", "open", "stopped"}, B \in SUBSET t.blocks :
          After(t, e) = [turn |-> tn, next |-> t.next, blocks |-> B]
    <3>1. CASE e.type = "message_start"
      BY <2>1, <3>1, AfterCases
    <3>2. CASE e.type = "message_stop"
      BY <2>1, <3>2, AfterCases
    <3>3. CASE e.type = "content_stop"
      <4>1. After(t, e) = [turn |-> t.turn, next |-> t.next,
                           blocks |-> {b \in t.blocks : b.index # e.index}]
        BY <3>3, AfterCases
      <4> QED BY <2>1, <4>1
    <3>4. CASE e.type = "usage_only"
      <4>1. After(t, e) = t /\ t = [turn |-> t.turn, next |-> t.next, blocks |-> t.blocks]
        BY <3>4, AfterCases DEF Turns
      <4> QED BY <2>1, <4>1
    <3> QED BY <3>1, <3>2, <3>3, <3>4
  <2> QED BY <2>1, <2>2 DEF Turns
<1> HIDE DEF p
<1> QED BY <1>2, <1>4, <1>5 DEF ReaderOK

\* Whatever the protocol lets come next, the reader keeps track: no delta is
\* dropped, and none goes to a content of another block.
LEMMA ReaderStep ==
  ASSUME NEW t \in Turns, NEW q \in Replies, NEW e \in Proper, ReaderOK(t, q), Legal(t, e)
  PROVE  ReaderOK(After(t, e), Reduce(q, e))
BY ReaderOpens, ReaderExtends, ReaderKeeps DEF Legal, Begins, ClosesBlock, Ends

-----------------------------------------------------------------------------
(* Events that wait to be delivered                                        *)

\* Delivered one by one, the events `out' lead a reader that is at t and q to
\* u and p, and the protocol allows each of them when its turn comes.
Leads(t, q, out, u, p) ==
  /\ out \in Seq(Proper)
  /\ \E ft \in [0..Len(out) -> Turns], fq \in [0..Len(out) -> Replies] :
       /\ ft[0] = t /\ fq[0] = q /\ ft[Len(out)] = u /\ fq[Len(out)] = p
       /\ \A i \in 0..Len(out) : ReaderOK(ft[i], fq[i])
       /\ \A i \in 1..Len(out) : /\ Legal(ft[i - 1], out[i])
                                 /\ ft[i] = After(ft[i - 1], out[i])
                                 /\ fq[i] = Reduce(fq[i - 1], out[i])

LEMMA LeadsEnds ==
  ASSUME NEW t, NEW q, NEW out, NEW u, NEW p, Leads(t, q, out, u, p)
  PROVE  /\ out \in Seq(Proper) /\ Len(out) \in Nat /\ ReaderOK(t, q) /\ ReaderOK(u, p)
         /\ out = <<>> => u = t /\ p = q
<1>1. out \in Seq(Proper) /\ Len(out) \in Nat
  BY LenProperties DEF Leads
<1>2. PICK ft \in [0..Len(out) -> Turns], fq \in [0..Len(out) -> Replies] :
        /\ ft[0] = t /\ fq[0] = q /\ ft[Len(out)] = u /\ fq[Len(out)] = p
        /\ \A i \in 0..Len(out) : ReaderOK(ft[i], fq[i])
  BY DEF Leads
<1>3. 0 \in 0..Len(out) /\ Len(out) \in 0..Len(out)
  BY <1>1
<1>4. out = <<>> => Len(out) = 0
  BY <1>1, LenProperties
<1> QED BY <1>1, <1>2, <1>3, <1>4

LEMMA LeadsNowhere ==
  ASSUME NEW t, NEW q, ReaderOK(t, q)
  PROVE  Leads(t, q, <<>>, t, q)
<1> DEFINE ft == [i \in 0..0 |-> t]
<1> DEFINE fq == [i \in 0..0 |-> q]
<1>1. ft \in [0..0 -> Turns] /\ fq \in [0..0 -> Replies]
  BY DEF ReaderOK
<1>2. <<>> \in Seq(Proper) /\ Len(<<>>) = 0
  BY EmptySeq
<1>3. ft[0] = t /\ fq[0] = q /\ \A i \in 0..0 : ReaderOK(ft[i], fq[i])
  OBVIOUS
<1>4. 1..0 = {}
  OBVIOUS
<1> HIDE DEF ft, fq
<1> QED BY <1>1, <1>2, <1>3, <1>4 DEF Leads

LEMMA LeadsOn ==
  ASSUME NEW t, NEW q, NEW out, NEW u, NEW p, Leads(t, q, out, u, p),
         NEW e \in Proper, Legal(u, e)
  PROVE  Leads(t, q, Append(out, e), After(u, e), Reduce(p, e))
<1> DEFINE n == Len(out)
<1> DEFINE x == Append(out, e)
<1> DEFINE w == After(u, e)
<1> DEFINE r == Reduce(p, e)
<1>1. out \in Seq(Proper) /\ n \in Nat /\ ReaderOK(u, p)
  BY LeadsEnds
<1>2. PICK ft \in [0..n -> Turns], fq \in [0..n -> Replies] :
        /\ ft[0] = t /\ fq[0] = q /\ ft[n] = u /\ fq[n] = p
        /\ \A i \in 0..n : ReaderOK(ft[i], fq[i])
        /\ \A i \in 1..n : /\ Legal(ft[i - 1], out[i])
                           /\ ft[i] = After(ft[i - 1], out[i])
                           /\ fq[i] = Reduce(fq[i - 1], out[i])
  BY DEF Leads
<1>3. ReaderOK(w, r)
  BY <1>1, ReaderStep DEF ReaderOK
<1>4. x \in Seq(Proper) /\ Len(x) = n + 1 /\ x[n + 1] = e /\ \A i \in 1..n : x[i] = out[i]
  BY <1>1, AppendProperties
<1> HIDE DEF n, x, w, r
<1> DEFINE gt == [i \in 0..(n + 1) |-> IF i = n + 1 THEN w ELSE ft[i]]
<1> DEFINE gq == [i \in 0..(n + 1) |-> IF i = n + 1 THEN r ELSE fq[i]]
<1>5. gt \in [0..(n + 1) -> Turns] /\ gq \in [0..(n + 1) -> Replies]
  BY <1>1, <1>2, <1>3 DEF ReaderOK
<1>6. /\ gt[n + 1] = w /\ gq[n + 1] = r
      /\ \A i \in 0..n : gt[i] = ft[i] /\ gq[i] = fq[i]
  BY <1>1
<1> HIDE DEF gt, gq
<1>7. gt[0] = t /\ gq[0] = q
  BY <1>1, <1>2, <1>6
<1>8. \A i \in 0..(n + 1) : ReaderOK(gt[i], gq[i])
  BY <1>1, <1>2, <1>3, <1>6
<1>9. ASSUME NEW i \in 1..(n + 1)
      PROVE  /\ Legal(gt[i - 1], x[i])
             /\ gt[i] = After(gt[i - 1], x[i])
             /\ gq[i] = Reduce(gq[i - 1], x[i])
  <2>1. CASE i = n + 1
    <3>1. gt[i - 1] = u /\ gq[i - 1] = p
      BY <1>1, <1>2, <1>6, <2>1
    <3> QED BY <1>4, <1>6, <2>1, <3>1 DEF w, r
  <2>2. CASE i \in 1..n
    <3>1. gt[i - 1] = ft[i - 1] /\ gq[i - 1] = fq[i - 1] /\ gt[i] = ft[i] /\ gq[i] = fq[i]
      BY <1>1, <1>6, <2>2
    <3> QED BY <1>2, <1>4, <2>2, <3>1
  <2> QED BY <1>1, <2>1, <2>2
<1>10. Leads(t, q, x, w, r)
  <2>1. x \in Seq(Proper) /\ n + 1 = Len(x)
    BY <1>4
  <2> DEFINE k == n + 1
  <2>2. /\ gt \in [0..k -> Turns] /\ gq \in [0..k -> Replies]
        /\ gt[0] = t /\ gq[0] = q /\ gt[k] = w /\ gq[k] = r
        /\ \A i \in 0..k : ReaderOK(gt[i], gq[i])
        /\ \A i \in 1..k : /\ Legal(gt[i - 1], x[i])
                          /\ gt[i] = After(gt[i - 1], x[i])
                          /\ gq[i] = Reduce(gq[i - 1], x[i])
    BY <1>5, <1>6, <1>7, <1>8, <1>9
  <2>3. k = Len(x)
    BY <2>1
  <2> HIDE DEF k
  <2> QED BY Zenon, <2>1, <2>2, <2>3 DEF Leads
<1> QED BY <1>10 DEF x, w, r

LEMMA LeadsFirst ==
  ASSUME NEW t, NEW q, NEW out, NEW u, NEW p, Leads(t, q, out, u, p), out # <<>>
  PROVE  /\ Head(out) \in Proper /\ Legal(t, Head(out))
         /\ Leads(After(t, Head(out)), Reduce(q, Head(out)), Tail(out), u, p)
<1> DEFINE n == Len(out)
<1> DEFINE x == Tail(out)
<1>1. out \in Seq(Proper) /\ n \in Nat /\ n # 0
  BY LeadsEnds, EmptySeq
<1>2. PICK ft \in [0..n -> Turns], fq \in [0..n -> Replies] :
        /\ ft[0] = t /\ fq[0] = q /\ ft[n] = u /\ fq[n] = p
        /\ \A i \in 0..n : ReaderOK(ft[i], fq[i])
        /\ \A i \in 1..n : /\ Legal(ft[i - 1], out[i])
                           /\ ft[i] = After(ft[i - 1], out[i])
                           /\ fq[i] = Reduce(fq[i - 1], out[i])
  BY DEF Leads
<1>3. /\ Head(out) = out[1] /\ Head(out) \in Proper /\ x \in Seq(Proper) /\ Len(x) = n - 1
      /\ \A i \in 1..(n - 1) : x[i] = out[i + 1]
  BY <1>1, HeadTailProperties, ElementOfSeq
<1>4. Legal(t, Head(out)) /\ ft[1] = After(t, Head(out)) /\ fq[1] = Reduce(q, Head(out))
  <2>1. 1 \in 1..n
    BY <1>1
  <2> QED BY <1>2, <1>3, <2>1
<1> HIDE DEF n, x
<1> DEFINE gt == [i \in 0..(n - 1) |-> ft[i + 1]]
<1> DEFINE gq == [i \in 0..(n - 1) |-> fq[i + 1]]
<1>5. gt \in [0..(n - 1) -> Turns] /\ gq \in [0..(n - 1) -> Replies]
  BY <1>1, <1>2
<1>6. /\ \A i \in 0..(n - 1) : gt[i] = ft[i + 1] /\ gq[i] = fq[i + 1]
      /\ n - 1 \in 0..(n - 1) /\ 0 \in 0..(n - 1)
  BY <1>1
<1> HIDE DEF gt, gq
<1>7. gt[0] = After(t, Head(out)) /\ gq[0] = Reduce(q, Head(out))
  BY <1>4, <1>6
<1>8. gt[n - 1] = u /\ gq[n - 1] = p
  BY <1>1, <1>2, <1>6
<1>9. \A i \in 0..(n - 1) : ReaderOK(gt[i], gq[i])
  BY <1>1, <1>2, <1>6
<1>10. ASSUME NEW i \in 1..(n - 1)
       PROVE  /\ Legal(gt[i - 1], x[i])
              /\ gt[i] = After(gt[i - 1], x[i])
              /\ gq[i] = Reduce(gq[i - 1], x[i])
  <2>1. gt[i - 1] = ft[i] /\ gq[i - 1] = fq[i] /\ gt[i] = ft[i + 1] /\ gq[i] = fq[i + 1]
    BY <1>1, <1>6
  <2>2. i + 1 \in 1..n /\ (i + 1) - 1 = i /\ x[i] = out[i + 1]
    BY <1>1, <1>3
  <2> QED BY <1>2, <2>1, <2>2
<1>11. Leads(gt[0], gq[0], x, u, p)
  <2> DEFINE k == n - 1
  <2>1. x \in Seq(Proper) /\ k = Len(x)
    BY <1>3
  <2>2. /\ gt \in [0..k -> Turns] /\ gq \in [0..k -> Replies]
        /\ gt[k] = u /\ gq[k] = p
        /\ \A i \in 0..k : ReaderOK(gt[i], gq[i])
        /\ \A i \in 1..k : /\ Legal(gt[i - 1], x[i])
                          /\ gt[i] = After(gt[i - 1], x[i])
                          /\ gq[i] = Reduce(gq[i - 1], x[i])
    BY <1>5, <1>8, <1>9, <1>10
  <2> HIDE DEF k
  <2> QED BY Zenon, <2>1, <2>2 DEF Leads
<1> QED BY <1>3, <1>4, <1>7, <1>11 DEF x

\* Nothing waits once the turn has stopped.
LEMMA LeadsStopped ==
  ASSUME NEW t, NEW q, NEW out, NEW u, NEW p, Leads(t, q, out, u, p), t.turn = "stopped"
  PROVE  out = <<>>
<1>1. out # <<>> => Legal(t, Head(out))
  BY LeadsFirst
<1>2. ~Legal(t, Head(out))
  BY DEF Legal, Begins
<1> QED BY <1>1, <1>2

-----------------------------------------------------------------------------
(* Readers of a client that numbers the contents in the order it opens     *)
(* them: the content of index i is the one at i + 1.                       *)

Positions(n) == [i \in 0..(n - 1) |-> i + 1]

LEMMA PutNext ==
  ASSUME NEW n \in Nat
  PROVE  Put(Positions(n), n, n + 1) = Positions(n + 1)
<1>1. DOMAIN Positions(n) = 0..(n - 1) /\ (0..(n - 1)) \union {n} = 0..((n + 1) - 1)
  BY DEF Positions
<1>2. \A i \in 0..(n - 1) : Positions(n)[i] = i + 1 /\ i # n
  BY DEF Positions
<1> QED BY <1>1, <1>2 DEF Positions, Put

TurnOf(state, B, m)    == [turn |-> state, next |-> Len(m), blocks |-> B]
ReplyOf(m, status, v)  == [contents |-> m, blocks |-> Positions(Len(m)),
                           status |-> status, usage |-> v]

\* The events `out' bring a reader that is at t and q to a turn that is
\* `state', with the open blocks B, the contents m, that status and usage.
Tells(t, q, out, state, B, m, status, v) ==
  Leads(t, q, out, TurnOf(state, B, m), ReplyOf(m, status, v))

Block(i, kind) == [index |-> i, kind |-> kind]

LEMMA TellsFacts ==
  ASSUME NEW t, NEW q, NEW out, NEW state, NEW B, NEW m, NEW status, NEW v,
         Tells(t, q, out, state, B, m, status, v)
  PROVE  /\ out \in Seq(Proper) /\ m \in Seq(ContentSet) /\ Len(m) \in Nat
         /\ status \in Statuses /\ v \in Usages /\ state \in {"new", "open", "stopped"}
         /\ B \subseteq [index : Nat, kind : TextKinds \union {"tool"}]
         /\ \A b \in B : b.index + 1 \in 1..Len(m) /\ m[b.index + 1].kind = b.kind
<1> DEFINE u == TurnOf(state, B, m)
<1> DEFINE p == ReplyOf(m, status, v)
<1>1. out \in Seq(Proper) /\ ReaderOK(u, p)
  BY LeadsEnds DEF Tells
<1>2. /\ u.turn = state /\ u.blocks = B /\ u.next = Len(m)
      /\ p.contents = m /\ p.blocks = Positions(Len(m)) /\ p.status = status /\ p.usage = v
  BY DEF TurnOf, ReplyOf
<1> HIDE DEF u, p
<1>3. u \in Turns /\ p \in Replies
  BY <1>1 DEF ReaderOK
<1>4. /\ m \in Seq(ContentSet) /\ Len(m) \in Nat
      /\ status \in Statuses /\ v \in Usages /\ state \in {"new", "open", "stopped"}
      /\ B \subseteq [index : Nat, kind : TextKinds \union {"tool"}]
  BY <1>2, <1>3, LenProperties DEF Turns, Replies
<1>5. ASSUME NEW b \in B
      PROVE  b.index + 1 \in 1..Len(m) /\ m[b.index + 1].kind = b.kind
  <2>1. b.index \in DOMAIN Positions(Len(m)) /\ m[Positions(Len(m))[b.index]].kind = b.kind
    BY <1>1, <1>2, <1>5 DEF ReaderOK
  <2>2. b.index \in 0..(Len(m) - 1) /\ Positions(Len(m))[b.index] = b.index + 1
    BY <2>1 DEF Positions
  <2> QED BY <1>4, <2>1, <2>2
<1> QED BY <1>1, <1>4, <1>5

LEMMA NewReader ==
  /\ Tells(NewTurn, NewReducer, <<>>, "new", {}, <<>>, "unspecified", NoUsage)
  /\ TurnOf("new", {}, <<>>) = NewTurn /\ ReplyOf(<<>>, "unspecified", NoUsage) = NewReducer
<1>1. Len(<<>>) = 0 /\ <<>> \in Seq(ContentSet)
  BY EmptySeq
<1>2. 0..(0 - 1) = {} /\ 1..0 = {}
  OBVIOUS
<1>3. Positions(0) = <<>> /\ DOMAIN Positions(0) = {}
  BY <1>2 DEF Positions
<1>4. Positions(0) \in BlockMaps
  <2>1. Positions(0) \in [{} -> Nat] /\ {} \in SUBSET Nat
    BY <1>2 DEF Positions
  <2> QED BY <2>1 DEF BlockMaps
<1>5. TurnOf("new", {}, <<>>) = NewTurn
  BY <1>1 DEF TurnOf, NewTurn
<1>6. ReplyOf(<<>>, "unspecified", NoUsage) = NewReducer
  <2>1. ReplyOf(<<>>, "unspecified", NoUsage)
          = [contents |-> <<>>, blocks |-> Positions(0), status |-> "unspecified", usage |-> NoUsage]
    BY <1>1, Zenon DEF ReplyOf
  <2> QED BY <2>1, <1>3, Zenon DEF NewReducer
<1>7. NewTurn \in Turns /\ NewTurn.blocks = {}
  BY DEF NewTurn, Turns
<1>8. ReplyOf(<<>>, "unspecified", NoUsage) \in Replies
      /\ ReplyOf(<<>>, "unspecified", NoUsage).blocks = Positions(0)
      /\ ReplyOf(<<>>, "unspecified", NoUsage).contents = <<>>
  BY <1>1, <1>4 DEF ReplyOf, Replies, Statuses, Usages, NoUsage
<1>9. ReaderOK(NewTurn, NewReducer)
  BY <1>1, <1>2, <1>3, <1>6, <1>7, <1>8 DEF ReaderOK
<1> QED BY <1>5, <1>6, <1>9, LeadsNowhere DEF Tells

\* The events the converters emit, field by field.
IsEvent(e, type, index, kind, item, call, text, status, usage) ==
  /\ e.type = type /\ e.index = index /\ e.kind = kind /\ e.item = item
  /\ e.call = call /\ e.text = text /\ e.status = status /\ e.usage = usage

LEMMA BlankFields ==
  Blank \in EventSet /\ IsEvent(Blank, "usage_only", 0, "", NoItem, 0, <<>>, "unspecified", NoUsage)
<1> DEFINE Ev(ty, k, x, st) == [type |-> ty, index |-> 0, kind |-> k, item |-> NoItem, call |-> 0,
                                text |-> x, status |-> st, usage |-> NoUsage]
<1>1. ASSUME NEW ty \in EventTypes, NEW k \in EventKinds, NEW x \in Seq(Nat), NEW st \in Statuses,
             NoItem \in ItemNames, NoUsage \in Usages
      PROVE  Ev(ty, k, x, st) \in EventSet
             /\ IsEvent(Ev(ty, k, x, st), ty, 0, k, NoItem, 0, x, st, NoUsage)
  BY <1>1 DEF EventSet, IsEvent
<1>2. Blank = Ev("usage_only", "", <<>>, "unspecified")
  BY Zenon DEF Blank
<1>3. NoItem \in ItemNames /\ NoUsage \in Usages /\ <<>> \in Seq(Nat)
      /\ "unspecified" \in Statuses /\ "usage_only" \in EventTypes /\ "" \in EventKinds
  BY EmptySeq DEF ItemNames, NoItem, NoUsage, Usages, Statuses, EventTypes, EventKinds
<1> HIDE DEF Ev
<1> QED BY <1>1, <1>2, <1>3

LEMMA EmittedProper ==
  ASSUME NEW i \in Nat, NEW w \in Usages, NEW s \in Statuses, NEW item \in ItemNames,
         NEW call \in Nat, NEW text \in Seq(Nat)
  PROVE  /\ UsageOnly(w) \in Proper
         /\ IsEvent(UsageOnly(w), "usage_only", 0, "", NoItem, 0, <<>>, "unspecified", w)
         /\ MessageStart(w) \in Proper
         /\ IsEvent(MessageStart(w), "message_start", 0, "", NoItem, 0, <<>>, "unspecified", w)
         /\ MessageStop(s, w) \in Proper
         /\ IsEvent(MessageStop(s, w), "message_stop", 0, "", NoItem, 0, <<>>, s, w)
         /\ ContentStop(i) \in Proper
         /\ IsEvent(ContentStop(i), "content_stop", i, "", NoItem, 0, <<>>, "unspecified", NoUsage)
         /\ \A k \in TextKinds \union {"tool"} :
              /\ ContentStart(i, k, item, call) \in Proper
              /\ IsEvent(ContentStart(i, k, item, call), "content_start", i, k, item, call, <<>>,
                         "unspecified", NoUsage)
         /\ \A k \in DeltaKinds :
              /\ ContentDelta(i, k, text) \in Proper
              /\ IsEvent(ContentDelta(i, k, text), "content_delta", i, k, NoItem, 0, text,
                         "unspecified", NoUsage)
         /\ ContentSnapshot(i, item, text) \in Proper
         /\ IsEvent(ContentSnapshot(i, item, text), "content_snapshot", i, "opaque", item, 0, text,
                    "unspecified", NoUsage)
<1>1. Blank \in EventSet
      /\ IsEvent(Blank, "usage_only", 0, "", NoItem, 0, <<>>, "unspecified", NoUsage)
  BY BlankFields
<1>2. UsageOnly(w) \in Proper
      /\ IsEvent(UsageOnly(w), "usage_only", 0, "", NoItem, 0, <<>>, "unspecified", w)
  BY <1>1 DEF UsageOnly, EventSet, IsEvent, Proper
<1>3. ASSUME NEW ty \in {"message_start", "message_stop", "content_stop"}
      PROVE  ty \in EventTypes /\ ty # "content_start" /\ ty # "content_snapshot"
             /\ ty # "content_delta"
  BY DEF EventTypes
<1>4. MessageStart(w) \in Proper
      /\ IsEvent(MessageStart(w), "message_start", 0, "", NoItem, 0, <<>>, "unspecified", w)
  <2>1. MessageStart(w) \in EventSet
        /\ IsEvent(MessageStart(w), "message_start", 0, "", NoItem, 0, <<>>, "unspecified", w)
    BY <1>1, <1>3 DEF MessageStart, EventSet, IsEvent
  <2> QED BY <1>3, <2>1 DEF IsEvent, Proper
<1>5. MessageStop(s, w) \in Proper
      /\ IsEvent(MessageStop(s, w), "message_stop", 0, "", NoItem, 0, <<>>, s, w)
  <2>1. MessageStop(s, w) \in EventSet
        /\ IsEvent(MessageStop(s, w), "message_stop", 0, "", NoItem, 0, <<>>, s, w)
    BY <1>1, <1>3 DEF MessageStop, EventSet, IsEvent
  <2> QED BY <1>3, <2>1 DEF IsEvent, Proper
<1>6. ContentStop(i) \in Proper
      /\ IsEvent(ContentStop(i), "content_stop", i, "", NoItem, 0, <<>>, "unspecified", NoUsage)
  <2>1. ContentStop(i) \in EventSet
        /\ IsEvent(ContentStop(i), "content_stop", i, "", NoItem, 0, <<>>, "unspecified", NoUsage)
    BY <1>1, <1>3 DEF ContentStop, EventSet, IsEvent
  <2> QED BY <1>3, <2>1 DEF IsEvent, Proper
<1>7. ASSUME NEW k \in TextKinds \union {"tool"}
      PROVE  /\ ContentStart(i, k, item, call) \in Proper
             /\ IsEvent(ContentStart(i, k, item, call), "content_start", i, k, item, call, <<>>,
                        "unspecified", NoUsage)
  <2>1. k \in EventKinds /\ "content_start" \in EventTypes
    BY DEF EventKinds, ContentKinds, EventTypes
  <2>2. /\ ContentStart(i, k, item, call) \in EventSet
        /\ IsEvent(ContentStart(i, k, item, call), "content_start", i, k, item, call, <<>>,
                   "unspecified", NoUsage)
    BY <1>1, <2>1 DEF ContentStart, EventSet, IsEvent
  <2> QED BY <2>2 DEF IsEvent, Proper
<1>8. ASSUME NEW k \in DeltaKinds
      PROVE  /\ ContentDelta(i, k, text) \in Proper
             /\ IsEvent(ContentDelta(i, k, text), "content_delta", i, k, NoItem, 0, text,
                        "unspecified", NoUsage)
  <2>1. k \in EventKinds /\ "content_delta" \in EventTypes
    BY DEF EventKinds, EventTypes
  <2>2. /\ ContentDelta(i, k, text) \in EventSet
        /\ IsEvent(ContentDelta(i, k, text), "content_delta", i, k, NoItem, 0, text,
                   "unspecified", NoUsage)
    BY <1>1, <2>1 DEF ContentDelta, EventSet, IsEvent
  <2> QED BY <2>2 DEF IsEvent, Proper
<1>9. /\ ContentSnapshot(i, item, text) \in Proper
      /\ IsEvent(ContentSnapshot(i, item, text), "content_snapshot", i, "opaque", item, 0, text,
                 "unspecified", NoUsage)
  <2>1. "opaque" \in EventKinds /\ "content_snapshot" \in EventTypes
    BY DEF EventKinds, ContentKinds, EventTypes
  <2>2. /\ ContentSnapshot(i, item, text) \in EventSet
        /\ IsEvent(ContentSnapshot(i, item, text), "content_snapshot", i, "opaque", item, 0, text,
                   "unspecified", NoUsage)
    BY <1>1, <2>1 DEF ContentSnapshot, EventSet, IsEvent
  <2> QED BY <2>2 DEF IsEvent, Proper
<1> QED BY <1>2, <1>4, <1>5, <1>6, <1>7, <1>8, <1>9

\* The turn and the reply of a reader, and what an event makes of them.
LEMMA ReaderParts ==
  ASSUME NEW t, NEW q, NEW out, NEW state, NEW B, NEW m, NEW status, NEW v,
         Tells(t, q, out, state, B, m, status, v)
  PROVE  LET u == TurnOf(state, B, m)  p == ReplyOf(m, status, v) IN
         /\ u \in Turns /\ u.turn = state /\ u.blocks = B /\ u.next = Len(m)
         /\ p \in Replies /\ p.contents = m /\ p.blocks = Positions(Len(m))
         /\ p.status = status /\ p.usage = v
<1>1. TurnOf(state, B, m) \in Turns /\ ReplyOf(m, status, v) \in Replies
  BY LeadsEnds DEF Tells, ReaderOK
<1> QED BY <1>1 DEF TurnOf, ReplyOf

LEMMA TellsBy ==
  ASSUME NEW t, NEW q, NEW out, NEW state, NEW B, NEW m, NEW status, NEW v,
         Tells(t, q, out, state, B, m, status, v),
         NEW e \in Proper, Legal(TurnOf(state, B, m), e),
         NEW state2, NEW B2, NEW m2, NEW status2, NEW v2,
         After(TurnOf(state, B, m), e) = TurnOf(state2, B2, m2),
         Reduce(ReplyOf(m, status, v), e) = ReplyOf(m2, status2, v2)
  PROVE  Tells(t, q, Append(out, e), state2, B2, m2, status2, v2)
<1>1. Leads(t, q, Append(out, e), After(TurnOf(state, B, m), e), Reduce(ReplyOf(m, status, v), e))
  BY LeadsOn DEF Tells
<1> QED BY <1>1 DEF Tells

\* The message starts.
LEMMA TellsStart ==
  ASSUME NEW t, NEW q, NEW out, NEW B, NEW m, NEW status, NEW v, NEW w \in Usages,
         Tells(t, q, out, "new", B, m, status, v)
  PROVE  Tells(t, q, Append(out, MessageStart(w)), "open", B, m, status, MergeUsage(v, w))
<1> DEFINE u == TurnOf("new", B, m)
<1> DEFINE p == ReplyOf(m, status, v)
<1> DEFINE e == MessageStart(w)
<1>1. /\ u \in Turns /\ u.turn = "new" /\ u.blocks = B /\ u.next = Len(m)
      /\ p \in Replies /\ p.contents = m /\ p.blocks = Positions(Len(m))
      /\ p.status = status /\ p.usage = v
  BY ReaderParts
<1>2. /\ e \in Proper /\ e \in EventSet /\ e.type = "message_start" /\ e.usage = w
  <2>1. 0 \in Nat /\ "unspecified" \in Statuses /\ NoItem \in ItemNames /\ <<>> \in Seq(Nat)
    BY EmptySeq DEF Statuses, ItemNames
  <2>2. e \in Proper /\ IsEvent(e, "message_start", 0, "", NoItem, 0, <<>>, "unspecified", w)
    BY <2>1, EmittedProper
  <2> QED BY <2>2 DEF Proper, IsEvent
<1> HIDE DEF u, p, e
<1>3. Legal(u, e)
  BY <1>1, <1>2 DEF Legal, Begins
<1>4. After(u, e) = TurnOf("open", B, m)
  BY <1>1, <1>2, AfterCases DEF TurnOf
<1>5. Reduce(p, e) = ReplyOf(m, status, MergeUsage(v, w))
  BY <1>1, <1>2, ReduceOther DEF ReplyOf
<1> QED BY <1>2, <1>3, <1>4, <1>5, TellsBy DEF u, p, e

\* A report of its own.
LEMMA TellsUsage ==
  ASSUME NEW t, NEW q, NEW out, NEW B, NEW m, NEW status, NEW v, NEW w \in Usages,
         Tells(t, q, out, "open", B, m, status, v)
  PROVE  Tells(t, q, Append(out, UsageOnly(w)), "open", B, m, status, MergeUsage(v, w))
<1> DEFINE u == TurnOf("open", B, m)
<1> DEFINE p == ReplyOf(m, status, v)
<1> DEFINE e == UsageOnly(w)
<1>1. /\ u \in Turns /\ u.turn = "open" /\ u.blocks = B /\ u.next = Len(m)
      /\ p \in Replies /\ p.contents = m /\ p.blocks = Positions(Len(m))
      /\ p.status = status /\ p.usage = v
  BY ReaderParts
<1>2. /\ e \in Proper /\ e \in EventSet /\ e.type = "usage_only" /\ e.usage = w
  <2>1. 0 \in Nat /\ "unspecified" \in Statuses /\ NoItem \in ItemNames /\ <<>> \in Seq(Nat)
    BY EmptySeq DEF Statuses, ItemNames
  <2>2. e \in Proper /\ IsEvent(e, "usage_only", 0, "", NoItem, 0, <<>>, "unspecified", w)
    BY <2>1, EmittedProper
  <2> QED BY <2>2 DEF Proper, IsEvent
<1>3. u = TurnOf("open", B, m)
  OBVIOUS
<1> HIDE DEF u, p, e
<1>4. Legal(u, e)
  BY <1>1, <1>2 DEF Legal
<1>5. After(u, e) = TurnOf("open", B, m)
  BY <1>1, <1>2, <1>3, AfterCases
<1>6. Reduce(p, e) = ReplyOf(m, status, MergeUsage(v, w))
  BY <1>1, <1>2, ReduceOther DEF ReplyOf
<1> QED BY <1>2, <1>4, <1>5, <1>6, TellsBy DEF u, p, e

\* A content is opened.
LEMMA TellsOpen ==
  ASSUME NEW t, NEW q, NEW out, NEW B, NEW m, NEW status, NEW v,
         NEW kind \in TextKinds \union {"tool"}, NEW item \in ItemNames, NEW call \in Nat,
         Tells(t, q, out, "open", B, m, status, v)
  PROVE  Tells(t, q, Append(out, ContentStart(Len(m), kind, item, call)), "open",
               B \union {Block(Len(m), kind)},
               Append(m, Content(kind, item, call, <<>>)), status, v)
<1> DEFINE u == TurnOf("open", B, m)
<1> DEFINE p == ReplyOf(m, status, v)
<1> DEFINE n == Len(m)
<1> DEFINE e == ContentStart(n, kind, item, call)
<1> DEFINE m2 == Append(m, Content(kind, item, call, <<>>))
<1>1. /\ u \in Turns /\ u.turn = "open" /\ u.blocks = B /\ u.next = n
      /\ p \in Replies /\ p.contents = m /\ p.blocks = Positions(n)
      /\ p.status = status /\ p.usage = v
  BY ReaderParts
<1>2. n \in Nat /\ m \in Seq(ContentSet) /\ v \in Usages
  BY TellsFacts
<1>3. /\ e \in Proper /\ e \in EventSet /\ e.type = "content_start" /\ e.usage = NoUsage
      /\ e.index = n /\ e.kind = kind /\ e.item = item /\ e.call = call /\ e.text = <<>>
  <2>1. "unspecified" \in Statuses /\ <<>> \in Seq(Nat) /\ NoUsage \in Usages
    BY EmptySeq DEF Statuses, NoUsage, Usages
  <2> HIDE DEF n
  <2>2. e \in Proper /\ IsEvent(e, "content_start", n, kind, item, call, <<>>, "unspecified", NoUsage)
    BY <1>2, <2>1, EmittedProper
  <2> QED BY <2>2 DEF Proper, IsEvent
<1>4. Len(m2) = n + 1
  <2> DEFINE c == Content(kind, item, call, <<>>)
  <2>1. c \in ContentSet
    BY EmptySeq DEF Content, ContentSet, ContentKinds
  <2> HIDE DEF c
  <2> QED BY <1>2, <2>1, AppendProperties DEF m2, c
<1>5. Put(Positions(n), n, n + 1) = Positions(n + 1)
  BY <1>2, PutNext
<1>6. MergeUsage(v, NoUsage) = v
  BY <1>2, MergeFacts
<1> HIDE DEF u, p, e, n
<1>7. Legal(u, e)
  BY <1>1, <1>2, <1>3 DEF Legal, OpensContent
<1>8. After(u, e) = TurnOf("open", B \union {Block(n, kind)}, m2)
  <2>1. After(u, e) = [turn |-> "open", next |-> n + 1,
                       blocks |-> B \union {[index |-> n, kind |-> kind]}]
    BY <1>1, <1>3, AfterCases
  <2> QED BY <1>4, <2>1 DEF TurnOf, Block
<1>9. Reduce(p, e) = ReplyOf(m2, status, v)
  <2>1. Reduce(p, e) = [contents |-> m2, blocks |-> Put(Positions(n), n, n + 1),
                        status |-> status, usage |-> v]
    BY <1>1, <1>3, <1>6, ReduceOpens DEF n
  <2> HIDE DEF m2
  <2> QED BY <1>4, <1>5, <2>1, Zenon DEF ReplyOf
<1> HIDE DEF m2
<1>10. Tells(t, q, Append(out, e), "open", B \union {Block(n, kind)}, m2, status, v)
  BY <1>3, <1>7, <1>8, <1>9, TellsBy DEF u, p
<1> QED BY <1>10 DEF e, n, m2

\* A content is passed on whole.
LEMMA TellsSnapshot ==
  ASSUME NEW t, NEW q, NEW out, NEW B, NEW m, NEW status, NEW v,
         NEW item \in ItemNames, NEW text \in Seq(Nat),
         Tells(t, q, out, "open", B, m, status, v)
  PROVE  Tells(t, q, Append(out, ContentSnapshot(Len(m), item, text)), "open", B,
               Append(m, Content("opaque", item, 0, text)), status, v)
<1> DEFINE u == TurnOf("open", B, m)
<1> DEFINE p == ReplyOf(m, status, v)
<1> DEFINE n == Len(m)
<1> DEFINE e == ContentSnapshot(n, item, text)
<1> DEFINE m2 == Append(m, Content("opaque", item, 0, text))
<1>1. /\ u \in Turns /\ u.turn = "open" /\ u.blocks = B /\ u.next = n
      /\ p \in Replies /\ p.contents = m /\ p.blocks = Positions(n)
      /\ p.status = status /\ p.usage = v
  BY ReaderParts
<1>2. n \in Nat /\ m \in Seq(ContentSet) /\ v \in Usages
  BY TellsFacts
<1>3. /\ e \in Proper /\ e \in EventSet /\ e.type = "content_snapshot" /\ e.usage = NoUsage
      /\ e.index = n /\ e.kind = "opaque" /\ e.item = item /\ e.call = 0 /\ e.text = text
  <2>1. "unspecified" \in Statuses /\ NoUsage \in Usages /\ 0 \in Nat
    BY DEF Statuses, NoUsage, Usages
  <2> HIDE DEF n
  <2>2. e \in Proper /\ IsEvent(e, "content_snapshot", n, "opaque", item, 0, text, "unspecified", NoUsage)
    BY <1>2, <2>1, EmittedProper
  <2> QED BY <2>2 DEF Proper, IsEvent
<1>4. Len(m2) = n + 1
  <2> DEFINE c == Content("opaque", item, 0, text)
  <2>1. c \in ContentSet
    BY EmptySeq DEF Content, ContentSet, ContentKinds
  <2> HIDE DEF c
  <2> QED BY <1>2, <2>1, AppendProperties DEF m2, c
<1>5. Put(Positions(n), n, n + 1) = Positions(n + 1)
  BY <1>2, PutNext
<1>6. MergeUsage(v, NoUsage) = v
  BY <1>2, MergeFacts
<1> HIDE DEF u, p, e, n
<1>7. Legal(u, e)
  BY <1>1, <1>2, <1>3 DEF Legal, OpensContent
<1>8. After(u, e) = TurnOf("open", B, m2)
  <2>1. After(u, e) = [turn |-> "open", next |-> n + 1, blocks |-> B]
    BY <1>1, <1>3, AfterCases
  <2> QED BY <1>4, <2>1 DEF TurnOf
<1>9. Reduce(p, e) = ReplyOf(m2, status, v)
  <2>1. Reduce(p, e) = [contents |-> m2, blocks |-> Put(Positions(n), n, n + 1),
                        status |-> status, usage |-> v]
    BY <1>1, <1>3, <1>6, ReduceOpens DEF n
  <2> HIDE DEF m2
  <2> QED BY <1>4, <1>5, <2>1, Zenon DEF ReplyOf
<1> HIDE DEF m2
<1>10. Tells(t, q, Append(out, e), "open", B, m2, status, v)
  BY <1>3, <1>7, <1>8, <1>9, TellsBy DEF u, p
<1> QED BY <1>10 DEF e, n, m2

\* A fragment for an open block.
LEMMA TellsDelta ==
  ASSUME NEW t, NEW q, NEW out, NEW B, NEW m, NEW status, NEW v,
         NEW b \in B, NEW kind \in DeltaKinds, FitsKind(kind, b.kind), NEW text \in Seq(Nat),
         Tells(t, q, out, "open", B, m, status, v)
  PROVE  Tells(t, q, Append(out, ContentDelta(b.index, kind, text)), "open", B,
               Amend(m, b.index + 1, kind, text), status, v)
<1> DEFINE u == TurnOf("open", B, m)
<1> DEFINE p == ReplyOf(m, status, v)
<1> DEFINE i == b.index
<1> DEFINE e == ContentDelta(i, kind, text)
<1> DEFINE m2 == Amend(m, i + 1, kind, text)
<1>1. /\ u \in Turns /\ u.turn = "open" /\ u.blocks = B /\ u.next = Len(m)
      /\ p \in Replies /\ p.contents = m /\ p.blocks = Positions(Len(m))
      /\ p.status = status /\ p.usage = v
  BY ReaderParts
<1>2. Len(m) \in Nat /\ m \in Seq(ContentSet) /\ v \in Usages /\ i \in Nat
      /\ i + 1 \in 1..Len(m) /\ m[i + 1].kind = b.kind
  BY TellsFacts
<1>3. /\ e \in Proper /\ e \in EventSet /\ e.type = "content_delta" /\ e.usage = NoUsage
      /\ e.index = i /\ e.kind = kind /\ e.text = text
  <2>1. "unspecified" \in Statuses /\ NoUsage \in Usages /\ NoItem \in ItemNames /\ 0 \in Nat
    BY DEF Statuses, NoUsage, Usages, ItemNames
  <2> HIDE DEF i
  <2>2. e \in Proper /\ IsEvent(e, "content_delta", i, kind, NoItem, 0, text, "unspecified", NoUsage)
    BY <1>2, <2>1, EmittedProper
  <2> QED BY <2>2 DEF Proper, IsEvent
<1>4. Len(m2) = Len(m)
  <2> DEFINE x == Extended(m[i + 1], kind, text)
  <2>1. x \in ContentSet
    BY <1>2, ExtendedFacts, ElementOfSeq
  <2> HIDE DEF x
  <2>2. Len([m EXCEPT ![i + 1] = x]) = Len(m)
    BY <1>2, <2>1, ExceptSeq
  <2> QED BY <2>2 DEF x, Amend
<1>5. MergeUsage(v, NoUsage) = v
  BY <1>2, MergeFacts
<1>6. i \in DOMAIN Positions(Len(m)) /\ Positions(Len(m))[i] = i + 1
  BY <1>2 DEF Positions
<1> HIDE DEF u, p, e, i
<1>7. Legal(u, e)
  BY <1>1, <1>3 DEF Legal, ExtendsBlock, i
<1>8. After(u, e) = TurnOf("open", B, m2)
  <2>1. After(u, e) = u
    BY <1>1, <1>3, AfterCases
  <2>2. u = TurnOf("open", B, m2)
    BY <1>4 DEF u, TurnOf
  <2> QED BY <2>1, <2>2
<1>9. Reduce(p, e) = ReplyOf(m2, status, v)
  <2>1. /\ e.index \in DOMAIN p.blocks /\ p.blocks[e.index] = i + 1
        /\ p.blocks[e.index] \in 1..Len(p.contents)
        /\ FitsKind(e.kind, p.contents[p.blocks[e.index]].kind)
    BY <1>1, <1>2, <1>3, <1>6
  <2>2. Reduce(p, e) = [contents |-> m2, blocks |-> Positions(Len(m)),
                        status |-> status, usage |-> v]
    BY <1>1, <1>3, <1>5, <2>1, ReduceDelta DEF Amend
  <2> HIDE DEF m2
  <2> QED BY <1>4, <2>2, Zenon DEF ReplyOf
<1> HIDE DEF m2
<1>10. Tells(t, q, Append(out, e), "open", B, m2, status, v)
  BY <1>3, <1>7, <1>8, <1>9, TellsBy DEF u, p
<1> QED BY <1>10 DEF e, i, m2

\* A block is closed.
LEMMA TellsClose ==
  ASSUME NEW t, NEW q, NEW out, NEW B, NEW m, NEW status, NEW v, NEW b \in B,
         Tells(t, q, out, "open", B, m, status, v)
  PROVE  Tells(t, q, Append(out, ContentStop(b.index)), "open",
               {d \in B : d.index # b.index}, m, status, v)
<1> DEFINE u == TurnOf("open", B, m)
<1> DEFINE p == ReplyOf(m, status, v)
<1> DEFINE i == b.index
<1> DEFINE e == ContentStop(i)
<1> DEFINE B2 == {d \in B : d.index # i}
<1>1. /\ u \in Turns /\ u.turn = "open" /\ u.blocks = B /\ u.next = Len(m)
      /\ p \in Replies /\ p.contents = m /\ p.blocks = Positions(Len(m))
      /\ p.status = status /\ p.usage = v
  BY ReaderParts
<1>2. v \in Usages /\ i \in Nat
  BY TellsFacts
<1>3. /\ e \in Proper /\ e \in EventSet /\ e.type = "content_stop" /\ e.usage = NoUsage
      /\ e.index = i
  <2>1. "unspecified" \in Statuses /\ NoUsage \in Usages /\ NoItem \in ItemNames /\ 0 \in Nat
        /\ <<>> \in Seq(Nat)
    BY EmptySeq DEF Statuses, NoUsage, Usages, ItemNames
  <2> HIDE DEF i
  <2>2. e \in Proper /\ IsEvent(e, "content_stop", i, "", NoItem, 0, <<>>, "unspecified", NoUsage)
    BY <1>2, <2>1, EmittedProper
  <2> QED BY <2>2 DEF Proper, IsEvent
<1>4. MergeUsage(v, NoUsage) = v
  BY <1>2, MergeFacts
<1> HIDE DEF u, p, e, i
<1>5. Legal(u, e)
  BY <1>1, <1>3 DEF Legal, ClosesBlock, i
<1>6. After(u, e) = TurnOf("open", B2, m)
  <2>1. After(u, e) = [turn |-> "open", next |-> Len(m), blocks |-> {d \in B : d.index # e.index}]
    BY <1>1, <1>3, AfterCases
  <2> QED BY <1>3, <2>1 DEF TurnOf
<1>7. Reduce(p, e) = ReplyOf(m, status, v)
  BY <1>1, <1>3, <1>4, ReduceOther DEF ReplyOf
<1> HIDE DEF B2
<1>8. Tells(t, q, Append(out, e), "open", B2, m, status, v)
  BY <1>3, <1>5, <1>6, <1>7, TellsBy DEF u, p
<1> QED BY <1>8 DEF e, i, B2

\* The turn ends, with no block open.
LEMMA TellsStop ==
  ASSUME NEW t, NEW q, NEW out, NEW m, NEW status, NEW v,
         NEW s \in Statuses, NEW w \in Usages, Tells(t, q, out, "open", {}, m, status, v)
  PROVE  Tells(t, q, Append(out, MessageStop(s, w)), "stopped", {}, m, s, MergeUsage(v, w))
<1> DEFINE u == TurnOf("open", {}, m)
<1> DEFINE p == ReplyOf(m, status, v)
<1> DEFINE e == MessageStop(s, w)
<1>1. /\ u \in Turns /\ u.turn = "open" /\ u.blocks = {} /\ u.next = Len(m)
      /\ p \in Replies /\ p.contents = m /\ p.blocks = Positions(Len(m))
      /\ p.status = status /\ p.usage = v
  BY ReaderParts
<1>2. /\ e \in Proper /\ e \in EventSet /\ e.type = "message_stop" /\ e.usage = w /\ e.status = s
  <2>1. 0 \in Nat /\ NoItem \in ItemNames /\ <<>> \in Seq(Nat)
    BY EmptySeq DEF ItemNames
  <2>2. e \in Proper /\ IsEvent(e, "message_stop", 0, "", NoItem, 0, <<>>, s, w)
    BY <2>1, EmittedProper
  <2> QED BY <2>2 DEF Proper, IsEvent
<1> HIDE DEF u, p, e
<1>3. Legal(u, e)
  BY <1>1, <1>2 DEF Legal, Ends
<1>4. After(u, e) = TurnOf("stopped", {}, m)
  BY <1>1, <1>2, AfterCases DEF TurnOf
<1>5. Reduce(p, e) = ReplyOf(m, s, MergeUsage(v, w))
  BY <1>1, <1>2, ReduceStop DEF ReplyOf
<1> QED BY <1>2, <1>3, <1>4, <1>5, TellsBy DEF u, p, e

-----------------------------------------------------------------------------
(* Clients with at most one open block (ChatEvents: CloseOpenBlock,        *)
(* StartBlock, WriteDelta)                                                 *)

IsClient(c) == /\ c = [x \in DOMAIN c |-> c[x]]
               /\ {"open", "nextIndex", "out"} \subseteq DOMAIN c

\* The client c with its block, its next index and its events replaced.
With(c, open, next, out) == [c EXCEPT !.open = open, !.nextIndex = next, !.out = out]

LEMMA WithFacts ==
  ASSUME NEW c, IsClient(c), NEW open, NEW next, NEW out
  PROVE  LET d == With(c, open, next, out) IN
         /\ IsClient(d) /\ d.open = open /\ d.nextIndex = next /\ d.out = out
         /\ DOMAIN d = DOMAIN c
         /\ \A f \in DOMAIN c \ {"open", "nextIndex", "out"} : d[f] = c[f]
         /\ With(c, c.open, c.nextIndex, c.out) = c
         /\ \A o, n, x : With(d, o, n, x) = With(c, o, n, x)
<1>1. "open" # "nextIndex" /\ "open" # "out" /\ "nextIndex" # "out"
  OBVIOUS
<1>2. With(c, open, next, out) =
        [x \in DOMAIN c |-> IF x = "out" THEN out ELSE IF x = "nextIndex" THEN next
                            ELSE IF x = "open" THEN open ELSE c[x]]
  BY <1>1 DEF With, IsClient
<1>3. With(c, c.open, c.nextIndex, c.out) = c
  BY <1>1 DEF With, IsClient
<1>4. \A o, n, x : With(With(c, open, next, out), o, n, x) = With(c, o, n, x)
  BY <1>1 DEF With, IsClient
<1> QED BY <1>1, <1>2, <1>3, <1>4 DEF IsClient

\* The block of a client, as a turn has it.
BlocksOf(open) == IF open = <<>> THEN {} ELSE {Block(Head(open).index, Head(open).kind)}

\* c's open block, if any, is the last of the contents m, which its events
\* bring a reader to.
AtMostOne(t, q, c, m, status, v) ==
  /\ IsClient(c)
  /\ c.nextIndex = Len(m)
  /\ \/ c.open = <<>>
     \/ m # <<>> /\ \E call \in Nat :
          c.open = <<[index |-> Len(m) - 1, kind |-> m[Len(m)].kind, call |-> call]>>
  /\ Tells(t, q, c.out, "open", BlocksOf(c.open), m, status, v)

\* The last content as a block, the number of the call if it is one.
LastBlock(m, call) == [index |-> Len(m) - 1, kind |-> m[Len(m)].kind, call |-> call]

LEMMA OpenFacts ==
  ASSUME NEW t, NEW q, NEW c, NEW m, NEW status, NEW v, AtMostOne(t, q, c, m, status, v),
         c.open # <<>>
  PROVE  /\ Head(c.open).index = Len(m) - 1 /\ Head(c.open).kind = m[Len(m)].kind
         /\ Head(c.open).call \in Nat /\ Len(m) \in Nat /\ Len(m) \in 1..Len(m)
         /\ c.open = <<LastBlock(m, Head(c.open).call)>> /\ m # <<>>
         /\ BlocksOf(c.open) = {Block(Len(m) - 1, m[Len(m)].kind)}
<1>1. PICK call \in Nat :
        m # <<>> /\ c.open = <<[index |-> Len(m) - 1, kind |-> m[Len(m)].kind, call |-> call]>>
  BY DEF AtMostOne
<1>2. m \in Seq(ContentSet) /\ Len(m) \in Nat
  BY TellsFacts DEF AtMostOne
<1>3. Len(m) # 0
  BY <1>1, <1>2, EmptySeq
<1>4. Head(c.open) = [index |-> Len(m) - 1, kind |-> m[Len(m)].kind, call |-> call]
  <2> DEFINE b == [index |-> Len(m) - 1, kind |-> m[Len(m)].kind, call |-> call]
  <2>1. c.open = <<b>>
    BY <1>1
  <2> HIDE DEF b
  <2>2. Head(<<b>>) = b
    OBVIOUS
  <2> QED BY <2>1, <2>2 DEF b
<1>5. /\ Head(c.open).index = Len(m) - 1 /\ Head(c.open).kind = m[Len(m)].kind
      /\ Head(c.open).call = call
  BY <1>4
<1>6. Len(m) \in 1..Len(m)
  BY <1>2, <1>3
<1>7. BlocksOf(c.open) = {Block(Len(m) - 1, m[Len(m)].kind)}
  BY <1>5 DEF BlocksOf
<1>8. c.open = <<LastBlock(m, Head(c.open).call)>>
  BY <1>1, <1>5 DEF LastBlock
<1> QED BY <1>1, <1>2, <1>5, <1>6, <1>7, <1>8

LEMMA CloseFacts ==
  ASSUME NEW t, NEW q, NEW c, NEW m, NEW status, NEW v, AtMostOne(t, q, c, m, status, v)
  PROVE  LET d == CloseOpenBlock(c) IN
         /\ AtMostOne(t, q, d, m, status, v)
         /\ d.open = <<>>
         /\ d = With(c, <<>>, c.nextIndex, d.out)
<1> DEFINE d == CloseOpenBlock(c)
<1>1. CASE c.open = <<>>
  <2>1. d = c
    BY <1>1 DEF CloseOpenBlock
  <2>2. With(c, c.open, c.nextIndex, c.out) = c
    BY WithFacts DEF AtMostOne
  <2> QED BY <1>1, <2>1, <2>2
<1>2. CASE c.open # <<>>
  <2> DEFINE i == Head(c.open).index
  <2> DEFINE x == Append(c.out, ContentStop(i))
  <2>1. d = With(c, <<>>, c.nextIndex, x)
    <3>1. d = [[c EXCEPT !.out = Append(@, ContentStop(i))] EXCEPT !.open = <<>>]
      BY <1>2 DEF CloseOpenBlock, Emit
    <3>2. "open" # "nextIndex" /\ "open" # "out" /\ "nextIndex" # "out"
      OBVIOUS
    <3>3. IsClient(c)
      BY DEF AtMostOne
    <3> HIDE DEF d, i
    <3> QED BY <3>1, <3>2, <3>3 DEF With, IsClient
  <2>2. /\ IsClient(d) /\ d.open = <<>> /\ d.nextIndex = c.nextIndex /\ d.out = x
    <3>1. IsClient(c)
      BY DEF AtMostOne
    <3> HIDE DEF d, x
    <3> QED BY <2>1, <3>1, WithFacts
  <2>3. Tells(t, q, x, "open", {}, m, status, v)
    <3> DEFINE b == Block(Head(c.open).index, Head(c.open).kind)
    <3>1. Tells(t, q, c.out, "open", {b}, m, status, v)
      BY <1>2 DEF AtMostOne, BlocksOf
    <3>2. b.index = i
      BY DEF Block
    <3> DEFINE B == {b}
    <3> HIDE DEF b, i
    <3>3. Tells(t, q, Append(c.out, ContentStop(b.index)), "open",
                {e \in {b} : e.index # b.index}, m, status, v)
      <4>1. b \in B /\ Tells(t, q, c.out, "open", B, m, status, v)
        BY <3>1
      <4> HIDE DEF B
      <4>2. Tells(t, q, Append(c.out, ContentStop(b.index)), "open",
                  {e \in B : e.index # b.index}, m, status, v)
        BY <4>1, TellsClose
      <4> QED BY <4>2 DEF B
    <3>4. {e \in {b} : e.index # b.index} = {}
      OBVIOUS
    <3> QED BY <3>2, <3>3, <3>4
  <2>4. BlocksOf(d.open) = {}
    BY <2>2 DEF BlocksOf
  <2> HIDE DEF d, x
  <2>5. AtMostOne(t, q, d, m, status, v)
    BY <2>2, <2>3, <2>4 DEF AtMostOne
  <2> QED BY <2>1, <2>2, <2>5 DEF d
<1> QED BY <1>1, <1>2

LEMMA StartFacts ==
  ASSUME NEW t, NEW q, NEW c, NEW m, NEW status, NEW v, AtMostOne(t, q, c, m, status, v),
         c.open = <<>>, NEW kind \in TextKinds \union {"tool"}, NEW call \in Nat, NEW id \in Nat
  PROVE  LET d == StartBlock(c, kind, call, id) IN
         /\ AtMostOne(t, q, d, Append(m, Content(kind, NoItem, id, <<>>)), status, v)
         /\ d.open # <<>> /\ Head(d.open).kind = kind /\ Head(d.open).call = call
         /\ d = With(c, d.open, c.nextIndex + 1, d.out)
<1> DEFINE d == StartBlock(c, kind, call, id)
<1> DEFINE n == Len(m)
<1> DEFINE b == [index |-> n, kind |-> kind, call |-> call]
<1> DEFINE x == Append(c.out, ContentStart(n, kind, NoItem, id))
<1> DEFINE z == Content(kind, NoItem, id, <<>>)
<1> DEFINE m2 == Append(m, z)
<1>1. IsClient(c) /\ c.nextIndex = n
  BY DEF AtMostOne
<1>2. d = With(c, <<b>>, n + 1, x)
  <2>1. d = [[c EXCEPT !.out = x] EXCEPT !.open = <<b>>, !.nextIndex = @ + 1]
    BY <1>1 DEF StartBlock, Emit
  <2>2. "open" # "nextIndex" /\ "open" # "out" /\ "nextIndex" # "out"
    OBVIOUS
  <2> HIDE DEF d, b, x, n
  <2> QED BY <1>1, <2>1, <2>2 DEF With, IsClient
<1>3. IsClient(d) /\ d.open = <<b>> /\ d.nextIndex = n + 1 /\ d.out = x
  <2> HIDE DEF d, b, x, n
  <2> QED BY <1>1, <1>2, WithFacts
<1>4. m \in Seq(ContentSet) /\ n \in Nat
  BY TellsFacts DEF AtMostOne
<1>5. NoItem \in ItemNames
  BY DEF ItemNames
<1>6. z \in ContentSet /\ z.kind = kind
  BY <1>5, EmptySeq DEF Content, ContentSet, ContentKinds
<1>7. m2 \in Seq(ContentSet) /\ Len(m2) = n + 1 /\ m2[n + 1] = z /\ m2 # <<>>
  <2> HIDE DEF z
  <2> QED BY <1>4, <1>6, AppendProperties
<1>8. Tells(t, q, x, "open", {Block(n, kind)}, m2, status, v)
  <2>1. Tells(t, q, c.out, "open", {}, m, status, v)
    BY DEF AtMostOne, BlocksOf
  <2>2. Tells(t, q, x, "open", {} \union {Block(n, kind)}, m2, status, v)
    BY <1>5, <2>1, TellsOpen
  <2> QED BY <2>2
<1>9. Head(<<b>>) = b /\ <<b>> # <<>> /\ b.kind = kind /\ b.call = call /\ b.index = n
  OBVIOUS
<1>10. b = [index |-> Len(m2) - 1, kind |-> m2[Len(m2)].kind, call |-> call]
  BY <1>4, <1>6, <1>7
<1>11. BlocksOf(d.open) = {Block(n, kind)}
  BY <1>3, <1>9 DEF BlocksOf
<1> HIDE DEF d, b, x, m2, z, n
<1>12. AtMostOne(t, q, d, m2, status, v)
  BY <1>3, <1>7, <1>8, <1>10, <1>11 DEF AtMostOne
<1> QED BY <1>1, <1>2, <1>3, <1>9, <1>12 DEF m2, z, d

LEMMA ExtendedByNothing ==
  ASSUME NEW m \in Seq(ContentSet), NEW k \in 1..Len(m), NEW kind
  PROVE  Amend(m, k, kind, <<>>) = m
<1>1. m[k] \in ContentSet
  BY ElementOfSeq
<1> DEFINE c == m[k]
<1> HIDE DEF c
<1>2. c \in ContentSet => Extended(c, kind, <<>>) = c
  <2>1. ASSUME NEW x \in Seq(Nat) PROVE x \o <<>> = x
    BY ConcatEmptySeq
  <2> QED BY <2>1 DEF Extended, ContentSet
<1>3. Extended(m[k], kind, <<>>) = m[k]
  BY <1>1, <1>2 DEF c
<1>4. m = [i \in 1..Len(m) |-> m[i]]
  BY LenProperties
<1> QED BY <1>3, <1>4 DEF Amend

LEMMA WriteFacts ==
  ASSUME NEW t, NEW q, NEW c, NEW m, NEW status, NEW v, AtMostOne(t, q, c, m, status, v),
         c.open # <<>>, NEW kind \in DeltaKinds, FitsKind(kind, Head(c.open).kind),
         NEW text \in Seq(Nat)
  PROVE  LET d == WriteDelta(c, kind, text) IN
         /\ AtMostOne(t, q, d, Amend(m, Len(m), kind, text), status, v)
         /\ d.open = c.open
         /\ d = With(c, c.open, c.nextIndex, d.out)
<1> DEFINE d == WriteDelta(c, kind, text)
<1> DEFINE n == Len(m)
<1> DEFINE m2 == Amend(m, n, kind, text)
<1>1. /\ IsClient(c) /\ c.nextIndex = n
      /\ Tells(t, q, c.out, "open", BlocksOf(c.open), m, status, v)
  BY DEF AtMostOne
<1>2. /\ Head(c.open).index = n - 1 /\ Head(c.open).kind = m[n].kind
      /\ Head(c.open).call \in Nat /\ n \in Nat /\ n \in 1..n
      /\ c.open = <<LastBlock(m, Head(c.open).call)>>
      /\ BlocksOf(c.open) = {Block(n - 1, m[n].kind)}
  BY OpenFacts
<1>3. m \in Seq(ContentSet)
  BY <1>1, TellsFacts
<1>4. CASE text = <<>>
  <2>1. d = c
    BY <1>4 DEF WriteDelta
  <2>2. m2 = m
    BY <1>2, <1>3, <1>4, ExtendedByNothing
  <2>3. With(c, c.open, c.nextIndex, c.out) = c
    BY <1>1, WithFacts
  <2> QED BY <2>1, <2>2, <2>3
<1>5. CASE text # <<>>
  <2> DEFINE x == Append(c.out, ContentDelta(n - 1, kind, text))
  <2>1. d = With(c, c.open, c.nextIndex, x)
    <3>1. d = [c EXCEPT !.out = x]
      BY <1>2, <1>5 DEF WriteDelta, Emit
    <3>2. "open" # "nextIndex" /\ "open" # "out" /\ "nextIndex" # "out"
      OBVIOUS
    <3> HIDE DEF d, x
    <3> QED BY <1>1, <3>1, <3>2 DEF With, IsClient
  <2>2. IsClient(d) /\ d.open = c.open /\ d.nextIndex = n /\ d.out = x
    <3> HIDE DEF d, x
    <3> QED BY <1>1, <2>1, WithFacts
  <2>3. Tells(t, q, x, "open", BlocksOf(c.open), m2, status, v)
    <3> DEFINE b == Block(n - 1, m[n].kind)
    <3>1. b \in BlocksOf(c.open) /\ b.index = n - 1 /\ b.kind = m[n].kind
      BY <1>2 DEF Block
    <3>2. FitsKind(kind, b.kind)
      BY <1>2, <3>1
    <3> HIDE DEF b
    <3>3. Tells(t, q, Append(c.out, ContentDelta(b.index, kind, text)), "open", BlocksOf(c.open),
                Amend(m, b.index + 1, kind, text), status, v)
      BY <1>1, <3>1, <3>2, TellsDelta
    <3>4. b.index + 1 = n
      BY <1>2, <3>1
    <3> QED BY <3>1, <3>3, <3>4
  <2>4. m2 \in Seq(ContentSet) /\ Len(m2) = n /\ m2[n].kind = m[n].kind
    <3> DEFINE y == Extended(m[n], kind, text)
    <3>1. y \in ContentSet /\ y.kind = m[n].kind
      BY <1>2, <1>3, ElementOfSeq, ExtendedFacts
    <3> HIDE DEF y
    <3>2. [m EXCEPT ![n] = y] \in Seq(ContentSet) /\ Len([m EXCEPT ![n] = y]) = n
          /\ [m EXCEPT ![n] = y][n] = y
      BY <1>2, <1>3, <3>1, ExceptSeq
    <3> QED BY <3>1, <3>2 DEF y, Amend
  <2>5. m2 # <<>>
    BY <1>2, <2>4, EmptySeq
  <2> HIDE DEF d, x, m2, n
  <2>6. AtMostOne(t, q, d, m2, status, v)
    <3>1. c.open = <<[index |-> n - 1, kind |-> m2[n].kind, call |-> Head(c.open).call]>>
      BY <1>2, <2>4, Zenon DEF LastBlock, n
    <3> QED BY <1>2, <2>2, <2>3, <2>4, <2>5, <3>1 DEF AtMostOne
  <2> QED BY <2>1, <2>2, <2>6 DEF m2, n, d
<1> QED BY <1>4, <1>5

\* A new content that is written to has been a content with that text.
LEMMA StartThenWrite ==
  ASSUME NEW m \in Seq(ContentSet), NEW kind \in TextKinds \union {"tool"}, NEW id \in Nat,
         NEW delta \in {"text", "tool"}, NEW text \in Seq(Nat)
  PROVE  LET m1 == Append(m, Content(kind, NoItem, id, <<>>)) IN
         /\ Len(m1) = Len(m) + 1
         /\ Amend(m1, Len(m1), delta, text)
              = Append(m, Content(kind, NoItem, id, text))
<1> DEFINE z == Content(kind, NoItem, id, <<>>)
<1> DEFINE y == Content(kind, NoItem, id, text)
<1> DEFINE m1 == Append(m, z)
<1>1. NoItem \in ItemNames
  BY DEF ItemNames
<1>2. z \in ContentSet /\ y \in ContentSet
  BY <1>1, EmptySeq DEF Content, ContentSet, ContentKinds
<1>3. Extended(z, delta, text) = y
  <2>1. <<>> \o text = text
    BY ConcatEmptySeq
  <2>2. delta # "signature"
    OBVIOUS
  <2>3. Extended(z, delta, text) = [z EXCEPT !.text = @ \o text]
    <3> HIDE DEF z
    <3> QED BY <1>2, <2>2, ExtendedFacts
  <2>4. z.text = <<>> /\ [z EXCEPT !.text = text] = y
    BY DEF Content
  <2> HIDE DEF z, y
  <2> QED BY <2>1, <2>3, <2>4
<1> HIDE DEF z, y
<1>4. /\ Len(m) \in Nat /\ Len(m1) = Len(m) + 1 /\ m1 \in Seq(ContentSet)
      /\ m1[Len(m) + 1] = z /\ \A i \in 1..Len(m) : m1[i] = m[i]
  BY <1>2, AppendProperties, LenProperties
<1> DEFINE m2 == Append(m, y)
<1>5. /\ Len(m2) = Len(m) + 1 /\ m2 \in Seq(ContentSet)
      /\ m2[Len(m) + 1] = y /\ \A i \in 1..Len(m) : m2[i] = m[i]
  BY <1>2, AppendProperties
<1> HIDE DEF m1, m2
<1>6. /\ m1 = [i \in 1..(Len(m) + 1) |-> m1[i]]
      /\ m2 = [i \in 1..(Len(m) + 1) |-> m2[i]]
  BY <1>4, <1>5, LenProperties
<1>7. [m1 EXCEPT ![Len(m) + 1] = y] = m2
  <2> DEFINE n == Len(m) + 1
  <2> DEFINE m3 == [m1 EXCEPT ![n] = y]
  <2>1. /\ n \in 1..n /\ \A i \in 1..n : i = n \/ i \in 1..Len(m)
        /\ m2[n] = y /\ \A i \in 1..Len(m) : m1[i] = m2[i]
    BY <1>4, <1>5
  <2>2. DOMAIN m1 = 1..n
    BY <1>4, LenProperties
  <2>3. m2 = [i \in 1..n |-> m2[i]]
    BY <1>6
  <2> HIDE DEF n
  <2>4. m3 = [i \in 1..n |-> m3[i]]
    <3>1. m3 = [i \in DOMAIN m1 |-> m3[i]]
      OBVIOUS
    <3> QED BY <2>2, <3>1
  <2>5. \A i \in 1..n : m3[i] = m2[i]
    BY <2>1, <2>2
  <2> HIDE DEF m3
  <2>6. m3 = m2
    BY <2>4, <2>5, <2>3
  <2> QED BY <2>6 DEF n, m3
<1> QED BY <1>3, <1>4, <1>7 DEF m1, m2, z, y, Amend

\* A fragment of a kind and, for a tool, of a call goes on with the open block
\* or opens another.
GoesOn(c, kind, call) == c.open # <<>> /\ Head(c.open).kind = kind /\ Head(c.open).call = call

\* Nothing else changed between two clients.
Rewritten(c, d) == d = With(c, d.open, d.nextIndex, d.out)

LEMMA RewrittenFacts ==
  ASSUME NEW c, IsClient(c), NEW d, Rewritten(c, d)
  PROVE  /\ IsClient(d) /\ Rewritten(c, c) /\ DOMAIN d = DOMAIN c
         /\ \A f \in DOMAIN c \ {"open", "nextIndex", "out"} : d[f] = c[f]
         /\ \A e : Rewritten(d, e) => Rewritten(c, e)
<1> DEFINE w == With(c, d.open, d.nextIndex, d.out)
<1>1. d = w
  BY DEF Rewritten
<1>2. /\ IsClient(w) /\ DOMAIN w = DOMAIN c
      /\ \A f \in DOMAIN c \ {"open", "nextIndex", "out"} : w[f] = c[f]
      /\ With(c, c.open, c.nextIndex, c.out) = c
      /\ \A o, n, x : With(w, o, n, x) = With(c, o, n, x)
  BY WithFacts
<1> HIDE DEF w
<1>3. \A o, n, x : With(d, o, n, x) = With(c, o, n, x)
  BY <1>1, <1>2
<1>4. Rewritten(c, c)
  BY <1>2 DEF Rewritten
<1>5. \A e : Rewritten(d, e) => Rewritten(c, e)
  BY <1>3 DEF Rewritten
<1> QED BY <1>1, <1>2, <1>4, <1>5

LEMMA CloseRewrites ==
  ASSUME NEW t, NEW q, NEW c, NEW m, NEW status, NEW v, AtMostOne(t, q, c, m, status, v)
  PROVE  Rewritten(c, CloseOpenBlock(c)) /\ CloseOpenBlock(c).nextIndex = c.nextIndex
<1> DEFINE d == CloseOpenBlock(c)
<1>1. /\ d.open = <<>> /\ d = With(c, <<>>, c.nextIndex, d.out) /\ IsClient(c)
  BY CloseFacts DEF AtMostOne
<1> HIDE DEF d
<1>2. d.nextIndex = c.nextIndex
  BY <1>1, WithFacts
<1>3. Rewritten(c, d)
  BY <1>1, <1>2 DEF Rewritten
<1> QED BY <1>2, <1>3 DEF d

\* What the fragment makes of the contents.
Fragmented(c, m, kind, call, id, delta, text) ==
  IF GoesOn(c, kind, call) THEN Amend(m, Len(m), delta, text)
  ELSE Append(m, Content(kind, NoItem, id, text))

\* The client d is c after the fragment.
Wrote(t, q, c, d, m, status, v, kind, call, id, delta, text) ==
  /\ AtMostOne(t, q, d, Fragmented(c, m, kind, call, id, delta, text), status, v)
  /\ GoesOn(d, kind, call)
  /\ Rewritten(c, d)

LEMMA OpenWriteFacts ==
  ASSUME NEW t, NEW q, NEW c, NEW m, NEW status, NEW v, AtMostOne(t, q, c, m, status, v),
         NEW kind \in TextKinds \union {"tool"}, NEW call \in Nat, NEW id \in Nat,
         NEW delta \in {"text", "tool"}, FitsKind(delta, kind), NEW text \in Seq(Nat)
  PROVE  Wrote(t, q, c, WriteDelta(OpenBlock(c, kind, call, id), delta, text),
               m, status, v, kind, call, id, delta, text)
<1> DEFINE m2 == Fragmented(c, m, kind, call, id, delta, text)
<1>0. m2 = IF GoesOn(c, kind, call) THEN Amend(m, Len(m), delta, text)
           ELSE Append(m, Content(kind, NoItem, id, text))
  BY DEF Fragmented
<1> HIDE DEF m2
<1> DEFINE b == OpenBlock(c, kind, call, id)
<1> DEFINE d == WriteDelta(b, delta, text)
<1>1. IsClient(c) /\ m \in Seq(ContentSet)
  BY TellsFacts DEF AtMostOne
<1>2. delta \in DeltaKinds
  BY DEF DeltaKinds
<1>3. ASSUME GoesOn(c, kind, call)
      PROVE  Wrote(t, q, c, d, m, status, v, kind, call, id, delta, text)
  <2>1. b = c
    BY <1>3 DEF OpenBlock, GoesOn
  <2>2. /\ AtMostOne(t, q, d, Amend(m, Len(m), delta, text), status, v)
        /\ d.open = c.open /\ d = With(c, c.open, c.nextIndex, d.out)
    <3>1. c.open # <<>> /\ FitsKind(delta, Head(c.open).kind)
      BY <1>3 DEF GoesOn
    <3>2. d = WriteDelta(c, delta, text)
      BY <2>1
    <3> HIDE DEF d
    <3> QED BY <1>2, <3>1, <3>2, WriteFacts
  <2>3. GoesOn(d, kind, call)
    BY <1>3, <2>2 DEF GoesOn
  <2>4. d.nextIndex = c.nextIndex
    BY <1>1, <2>2, WithFacts
  <2>5. AtMostOne(t, q, d, m2, status, v)
    BY <1>0, <1>3, <2>2
  <2> HIDE DEF d
  <2> QED BY <2>2, <2>3, <2>4, <2>5 DEF Wrote, m2, Rewritten
<1>4. ASSUME ~GoesOn(c, kind, call)
      PROVE  Wrote(t, q, c, d, m, status, v, kind, call, id, delta, text)
  <2> DEFINE a == CloseOpenBlock(c)
  <2> DEFINE z == Content(kind, NoItem, id, <<>>)
  <2> DEFINE m1 == Append(m, z)
  <2>1. b = StartBlock(a, kind, call, id)
    BY <1>4 DEF OpenBlock, GoesOn
  <2>2. AtMostOne(t, q, a, m, status, v) /\ a.open = <<>>
        /\ a = With(c, <<>>, c.nextIndex, a.out)
    BY CloseFacts
  <2> HIDE DEF a, d
  <2>3. AtMostOne(t, q, b, m1, status, v) /\ GoesOn(b, kind, call)
        /\ b = With(a, b.open, a.nextIndex + 1, b.out)
    <3> DEFINE e == StartBlock(a, kind, call, id)
    <3>1. /\ AtMostOne(t, q, e, m1, status, v)
          /\ e.open # <<>> /\ Head(e.open).kind = kind /\ Head(e.open).call = call
          /\ e = With(a, e.open, a.nextIndex + 1, e.out)
      BY <2>2, StartFacts
    <3> HIDE DEF b, e, m1
    <3>2. b = e
      BY <2>1 DEF e
    <3> QED BY <3>1, <3>2 DEF GoesOn
  <2> HIDE DEF b, m1
  <2>4. AtMostOne(t, q, d, Amend(m1, Len(m1), delta, text), status, v)
        /\ d.open = b.open /\ d = With(b, b.open, b.nextIndex, d.out)
    <3>1. b.open # <<>> /\ FitsKind(delta, Head(b.open).kind)
      BY <2>3 DEF GoesOn
    <3> QED BY <1>2, <2>3, <3>1, WriteFacts DEF d
  <2>5. Amend(m1, Len(m1), delta, text) = m2
    BY <1>0, <1>1, <1>4, StartThenWrite DEF m1
  <2>6. GoesOn(d, kind, call)
    BY <2>3, <2>4 DEF GoesOn
  <2>7. IsClient(a) /\ IsClient(b)
    BY <2>2, <2>3 DEF AtMostOne
  <2>8. d.nextIndex = b.nextIndex /\ d.open = b.open
    BY <2>4, <2>7, WithFacts
  <2>9. With(b, b.open, b.nextIndex, d.out) = With(a, b.open, b.nextIndex, d.out)
    <3>1. \A o, n, x : With(With(a, b.open, a.nextIndex + 1, b.out), o, n, x) = With(a, o, n, x)
      BY <2>7, WithFacts
    <3> QED BY <2>3, <3>1
  <2>10. With(a, b.open, b.nextIndex, d.out) = With(c, b.open, b.nextIndex, d.out)
    <3>1. \A o, n, x : With(With(c, <<>>, c.nextIndex, a.out), o, n, x) = With(c, o, n, x)
      BY <1>1, WithFacts
    <3> QED BY <2>2, <3>1
  <2>11. d = With(c, d.open, d.nextIndex, d.out)
    BY <2>4, <2>8, <2>9, <2>10
  <2>12. AtMostOne(t, q, d, m2, status, v)
    BY <2>4, <2>5
  <2> QED BY <2>6, <2>11, <2>12 DEF Wrote, m2, Rewritten
<1>5. Wrote(t, q, c, d, m, status, v, kind, call, id, delta, text)
  BY <1>3, <1>4
<1> QED BY <1>5 DEF d, b

-----------------------------------------------------------------------------
(* The provider                                                            *)

ItemSet == [type : {"message", "reasoning", "function_call"}, phase : {"text", "outcome"},
            state : {"open", "done"}, part : Nat]

ItemMaps == UNION {[0..(n - 1) -> ItemSet] : n \in Nat}

OneOrNone(S) == {<<>>} \union {<<x>> : x \in S}

SentSet == [began : BOOLEAN, contents : Seq(ContentSet), written : Nat, items : ItemMaps,
            block : OneOrNone(Nat),
            reason : {"", "stop", "calls", "length", "filter", "other"}, usage : Usages]

\* The provider counts no more than it wrote.
SentOK(s) == s \in SentSet /\ s.usage.in <= 1 /\ s.usage.out <= s.written

BlockSet == [index : Nat, kind : TextKinds \union {"tool"}, call : Nat]

LastCall(s) == IF s.contents[Len(s.contents)].kind = "tool" THEN NextCall(s) - 1 ELSE 0

\* What a step that only writes leaves alone.
SameTurn(s, s2) == /\ s2.began = s.began /\ s2.items = s.items /\ s2.block = s.block
                   /\ s2.reason = s.reason /\ s2.usage = s.usage

LEMMA TextsTyped ==
  ASSUME NEW s \in SentSet
  PROVE  Fragment(s) \in Seq(Nat) /\ Fragment(s) # <<>> /\ Texts(s) \subseteq Seq(Nat)
<1>1. s.written \in Nat
  BY DEF SentSet
<1>2. Fragment(s) \in Seq(Nat)
  <2>1. s.written + 1 \in Nat
    BY <1>1
  <2> DEFINE n == s.written + 1
  <2> HIDE DEF n
  <2>2. n \in Nat => <<n>> \in Seq(Nat)
    OBVIOUS
  <2> QED BY <2>1, <2>2 DEF Fragment, n
<1>3. Fragment(s) # <<>>
  BY DEF Fragment
<1> QED BY <1>2, <1>3, EmptySeq DEF Texts

LEMMA AddsFacts ==
  ASSUME NEW s, SentOK(s), NEW c \in ContentSet
  PROVE  /\ SentOK(Adds(s, c)) /\ SameTurn(s, Adds(s, c))
         /\ Adds(s, c).contents = Append(s.contents, c)
<1> DEFINE m == Append(s.contents, c)
<1> DEFINE w == s.written + Len(c.text)
<1>1. s \in SentSet /\ s.contents \in Seq(ContentSet) /\ s.written \in Nat
      /\ s.usage \in Usages
  BY DEF SentOK, SentSet
<1>2. m \in Seq(ContentSet)
  BY <1>1, AppendProperties
<1>3. w \in Nat /\ w >= s.written
  <2>1. c.text \in Seq(Nat)
    BY DEF ContentSet
  <2>2. Len(c.text) \in Nat
    BY <2>1, LenProperties
  <2> QED BY <1>1, <2>2
<1>4. Adds(s, c) = [s EXCEPT !.contents = m, !.written = w]
  BY DEF Adds
<1> HIDE DEF m, w
<1>5. /\ Adds(s, c) \in SentSet /\ SameTurn(s, Adds(s, c))
      /\ Adds(s, c).contents = m /\ Adds(s, c).written = w
  BY <1>1, <1>2, <1>3, <1>4 DEF SentSet, SameTurn
<1>6. s.usage.out \in Nat
  BY <1>1 DEF Usages
<1> QED BY <1>1, <1>3, <1>5, <1>6 DEF SentOK, SameTurn, m

LEMMA AmendFacts ==
  ASSUME NEW m \in Seq(ContentSet), NEW k \in 1..Len(m), NEW kind, NEW text \in Seq(Nat)
  PROVE  /\ Amend(m, k, kind, text) \in Seq(ContentSet)
         /\ Len(Amend(m, k, kind, text)) = Len(m) /\ (m = <<>>) = (Amend(m, k, kind, text) = <<>>)
         /\ \A i \in 1..Len(m) : Amend(m, k, kind, text)[i].kind = m[i].kind
<1> DEFINE x == Extended(m[k], kind, text)
<1>1. x \in ContentSet /\ x.kind = m[k].kind
  BY ElementOfSeq, ExtendedFacts
<1> HIDE DEF x
<1>2. /\ [m EXCEPT ![k] = x] \in Seq(ContentSet) /\ Len([m EXCEPT ![k] = x]) = Len(m)
      /\ \A i \in 1..Len(m) : [m EXCEPT ![k] = x][i] = IF i = k THEN x ELSE m[i]
  BY <1>1, ExceptSeq
<1>3. Amend(m, k, kind, text) = [m EXCEPT ![k] = x]
  BY DEF Amend, x
<1>4. Len(m) \in Nat /\ Len(m) # 0
  BY LenProperties
<1> QED BY <1>1, <1>2, <1>3, <1>4, EmptySeq

LEMMA WritesFacts ==
  ASSUME NEW s, SentOK(s), NEW k \in 1..Len(s.contents), NEW text \in Seq(Nat)
  PROVE  /\ SentOK(Writes(s, k, text)) /\ SameTurn(s, Writes(s, k, text))
         /\ \A kind \in {"text", "tool"} :
              Writes(s, k, text).contents = Amend(s.contents, k, kind, text)
<1> DEFINE m == Amend(s.contents, k, "text", text)
<1> DEFINE w == s.written + Len(text)
<1>1. s \in SentSet /\ s.contents \in Seq(ContentSet) /\ s.written \in Nat
      /\ s.usage \in Usages
  BY DEF SentOK, SentSet
<1>2. m \in Seq(ContentSet)
  BY <1>1, AmendFacts
<1>3. w \in Nat /\ w >= s.written
  BY <1>1, LenProperties
<1>4. m = [s.contents EXCEPT ![k] = [s.contents[k] EXCEPT !.text = s.contents[k].text \o text]]
  <2>1. s.contents[k] \in ContentSet
    BY <1>1, ElementOfSeq
  <2>2. Extended(s.contents[k], "text", text) = [s.contents[k] EXCEPT !.text = @ \o text]
    <3> DEFINE c == s.contents[k]
    <3> HIDE DEF c
    <3>1. c \in ContentSet => Extended(c, "text", text) = [c EXCEPT !.text = @ \o text]
      BY ExtendedFacts
    <3> QED BY <2>1, <3>1 DEF c
  <2> QED BY <2>2, Zenon DEF Amend
<1>5. Writes(s, k, text) = [s EXCEPT !.contents = m, !.written = w]
  <2>1. Writes(s, k, text) = [s EXCEPT !.contents = [s.contents EXCEPT ![k] =
                               [s.contents[k] EXCEPT !.text = s.contents[k].text \o text]],
                                       !.written = w]
    BY Zenon DEF Writes
  <2> QED BY <1>4, <2>1, Zenon
<1>6. \A kind \in {"text", "tool"} : Amend(s.contents, k, kind, text) = m
  BY DEF Amend, Extended
<1> HIDE DEF m, w
<1>7. /\ Writes(s, k, text) \in SentSet /\ SameTurn(s, Writes(s, k, text))
      /\ Writes(s, k, text).contents = m /\ Writes(s, k, text).written = w
  BY <1>1, <1>2, <1>3, <1>5 DEF SentSet, SameTurn
<1>8. s.usage.out \in Nat
  BY <1>1 DEF Usages
<1> QED BY <1>1, <1>3, <1>6, <1>7, <1>8 DEF SentOK, SameTurn

LEMMA SignsFacts ==
  ASSUME NEW s, SentOK(s), NEW k \in 1..Len(s.contents), NEW text \in Seq(Nat)
  PROVE  /\ SentOK(Signs(s, k, text)) /\ SameTurn(s, Signs(s, k, text))
         /\ Signs(s, k, text).contents = Amend(s.contents, k, "signature", text)
<1> DEFINE m == Amend(s.contents, k, "signature", text)
<1> DEFINE w == s.written + Len(text)
<1>1. s \in SentSet /\ s.contents \in Seq(ContentSet) /\ s.written \in Nat
      /\ s.usage \in Usages
  BY DEF SentOK, SentSet
<1>2. m \in Seq(ContentSet)
  BY <1>1, AmendFacts
<1>3. w \in Nat /\ w >= s.written
  BY <1>1, LenProperties
<1>4. m = [s.contents EXCEPT ![k] = [s.contents[k] EXCEPT !.signature = s.contents[k].signature \o text]]
  <2>1. s.contents[k] \in ContentSet
    BY <1>1, ElementOfSeq
  <2>2. Extended(s.contents[k], "signature", text) = [s.contents[k] EXCEPT !.signature = @ \o text]
    <3> DEFINE c == s.contents[k]
    <3> HIDE DEF c
    <3>1. c \in ContentSet => Extended(c, "signature", text) = [c EXCEPT !.signature = @ \o text]
      BY ExtendedFacts
    <3> QED BY <2>1, <3>1 DEF c
  <2> QED BY <2>2, Zenon DEF Amend
<1>5. Signs(s, k, text) = [s EXCEPT !.contents = m, !.written = w]
  <2>1. Signs(s, k, text) = [s EXCEPT !.contents = [s.contents EXCEPT ![k] =
                               [s.contents[k] EXCEPT !.signature = s.contents[k].signature \o text]],
                                      !.written = w]
    BY Zenon DEF Signs
  <2> QED BY <1>4, <2>1, Zenon
<1> HIDE DEF m, w
<1>6. /\ Signs(s, k, text) \in SentSet /\ SameTurn(s, Signs(s, k, text))
      /\ Signs(s, k, text).contents = m /\ Signs(s, k, text).written = w
  BY <1>1, <1>2, <1>3, <1>5 DEF SentSet, SameTurn
<1>7. s.usage.out \in Nat
  BY <1>1 DEF Usages
<1> QED BY <1>1, <1>3, <1>6, <1>7 DEF SentOK, SameTurn, m


LEMMA CallsFacts ==
  ASSUME NEW s \in SentSet
  PROVE  /\ IsFiniteSet(Calls(s)) /\ NextCall(s) \in Nat /\ NextCall(s) >= 1
         /\ Calls(s) = {k \in 1..Len(s.contents) : s.contents[k].kind = "tool"}
         /\ Len(s.contents) \in Nat
<1>1. s.contents \in Seq(ContentSet) /\ Len(s.contents) \in Nat
      /\ DOMAIN s.contents = 1..Len(s.contents)
  BY LenProperties DEF SentSet
<1>2. Calls(s) \subseteq 1..Len(s.contents) /\ IsFiniteSet(1..Len(s.contents))
  BY <1>1, FS_Interval DEF Calls
<1>3. IsFiniteSet(Calls(s)) /\ Cardinality(Calls(s)) \in Nat
  BY <1>2, FS_Subset, FS_CardinalityType
<1> QED BY <1>1, <1>3 DEF NextCall, Calls

\* A new content is the next call if it is one.
LEMMA CallsAppended ==
  ASSUME NEW s \in SentSet, NEW s2 \in SentSet, NEW c \in ContentSet,
         s2.contents = Append(s.contents, c)
  PROVE  /\ c.kind = "tool" => Calls(s2) # {} /\ NextCall(s2) = NextCall(s) + 1
         /\ c.kind # "tool" => Calls(s2) = Calls(s) /\ NextCall(s2) = NextCall(s)
<1> DEFINE n == Len(s.contents)
<1>1. /\ Calls(s) = {k \in 1..n : s.contents[k].kind = "tool"} /\ n \in Nat
      /\ IsFiniteSet(Calls(s)) /\ NextCall(s) \in Nat
      /\ Calls(s2) = {k \in 1..Len(s2.contents) : s2.contents[k].kind = "tool"}
  BY CallsFacts
<1>2. s.contents \in Seq(ContentSet)
  BY DEF SentSet
<1>3. /\ Len(s2.contents) = n + 1 /\ s2.contents[n + 1] = c
      /\ \A k \in 1..n : s2.contents[k] = s.contents[k]
  BY <1>2, AppendProperties
<1>4. ASSUME c.kind = "tool" PROVE Calls(s2) # {} /\ NextCall(s2) = NextCall(s) + 1
  <2>1. Calls(s2) = Calls(s) \union {n + 1} /\ n + 1 \notin Calls(s)
    BY <1>1, <1>3, <1>4
  <2>2. Cardinality(Calls(s2)) = Cardinality(Calls(s)) + 1
    BY <1>1, <2>1, FS_AddElement
  <2>3. Cardinality(Calls(s)) \in Nat
    BY <1>1, FS_CardinalityType
  <2> QED BY <2>1, <2>2, <2>3 DEF NextCall
<1>5. ASSUME c.kind # "tool" PROVE Calls(s2) = Calls(s) /\ NextCall(s2) = NextCall(s)
  <2>1. Calls(s2) = Calls(s)
    BY <1>1, <1>3, <1>5
  <2> QED BY <2>1 DEF NextCall
<1> QED BY <1>4, <1>5

\* More of a content is no new call.
LEMMA CallsAmended ==
  ASSUME NEW s \in SentSet, NEW s2 \in SentSet, NEW k \in 1..Len(s.contents), NEW kind,
         NEW text \in Seq(Nat), s2.contents = Amend(s.contents, k, kind, text)
  PROVE  Calls(s2) = Calls(s) /\ NextCall(s2) = NextCall(s)
<1>1. s.contents \in Seq(ContentSet)
  BY DEF SentSet
<1>2. /\ Len(s2.contents) = Len(s.contents)
      /\ \A i \in 1..Len(s.contents) : s2.contents[i].kind = s.contents[i].kind
  BY <1>1, AmendFacts
<1>3. /\ Calls(s) = {i \in 1..Len(s.contents) : s.contents[i].kind = "tool"}
      /\ Calls(s2) = {i \in 1..Len(s2.contents) : s2.contents[i].kind = "tool"}
  BY CallsFacts
<1>4. Calls(s2) = Calls(s)
  BY <1>2, <1>3
<1> QED BY <1>4 DEF NextCall

LEMMA ContentFacts ==
  ASSUME NEW kind \in ContentKinds, NEW item \in ItemNames, NEW call \in Nat,
         NEW text \in Seq(Nat)
  PROVE  /\ Content(kind, item, call, text) \in ContentSet
         /\ Content(kind, item, call, text).kind = kind
         /\ Content(kind, item, call, text).text = text
BY EmptySeq DEF Content, ContentSet

LEMMA LastFacts ==
  ASSUME NEW s \in SentSet, s.contents # <<>>
  PROVE  /\ Len(s.contents) \in 1..Len(s.contents)
         /\ Last(s.contents) = s.contents[Len(s.contents)]
<1>1. s.contents \in Seq(ContentSet)
  BY DEF SentSet
<1>2. Len(s.contents) \in Nat /\ Len(s.contents) # 0
  BY <1>1, LenProperties, EmptySeq
<1> QED BY <1>2 DEF Last

\* A text goes on with the last content or is a new one.
LEMMA SaysFacts ==
  ASSUME NEW s, SentOK(s), NEW kind \in TextKinds, NEW text \in Seq(Nat), text # <<>>
  PROVE  LET n == Len(s.contents) IN
         /\ SentOK(Says(s, kind, text)) /\ SameTurn(s, Says(s, kind, text))
         /\ Continues(s, kind) =>
              /\ n \in 1..n /\ s.contents # <<>> /\ s.contents[n].kind = kind
              /\ Says(s, kind, text).contents = Amend(s.contents, n, "text", text)
         /\ ~Continues(s, kind) =>
              /\ s.contents = <<>> \/ s.contents[n].kind # kind
              /\ Says(s, kind, text).contents
                   = Append(s.contents, Content(kind, NoItem, 0, text))
<1>1. s \in SentSet
  BY DEF SentOK
<1>2. CASE Continues(s, kind)
  <2>1. /\ s.contents # <<>> /\ Len(s.contents) \in 1..Len(s.contents)
        /\ s.contents[Len(s.contents)].kind = kind
    BY <1>1, <1>2, LastFacts DEF Continues
  <2>2. Says(s, kind, text) = Writes(s, Len(s.contents), text)
    BY <1>2 DEF Says
  <2> QED BY <1>2, <2>1, <2>2, WritesFacts
<1>3. CASE ~Continues(s, kind)
  <2>1. Says(s, kind, text) = Adds(s, Content(kind, NoItem, 0, text))
    BY <1>3 DEF Says
  <2>2. Content(kind, NoItem, 0, text) \in ContentSet
    <3>1. kind \in ContentKinds /\ NoItem \in ItemNames
      BY DEF ContentKinds, ItemNames
    <3> QED BY <3>1, ContentFacts
  <2>3. s.contents = <<>> \/ s.contents[Len(s.contents)].kind # kind
    BY <1>1, <1>3, LastFacts DEF Continues
  <2> QED BY <1>3, <2>1, <2>2, <2>3, AddsFacts
<1> QED BY <1>2, <1>3

-----------------------------------------------------------------------------
(* A client of chat completions, in the middle of a chunk: the last        *)
(* content is open, and it is of the last call if it is a call.            *)

LastOpen(c, s) ==
  c.open = IF s.contents = <<>> THEN <<>> ELSE <<LastBlock(s.contents, LastCall(s))>>

InChunk(t, q, c, s) ==
  /\ SentOK(s) /\ LastOpen(c, s)
  /\ AtMostOne(t, q, c, s.contents, "unspecified", NoUsage)

LEMMA HeadOfBlock ==
  ASSUME NEW m, NEW call
  PROVE  /\ <<LastBlock(m, call)>> # <<>> /\ Head(<<LastBlock(m, call)>>) = LastBlock(m, call)
         /\ LastBlock(m, call).kind = m[Len(m)].kind /\ LastBlock(m, call).call = call
BY DEF LastBlock

\* What goes on is the last content.
LEMMA GoesOnFacts ==
  ASSUME NEW t, NEW q, NEW c, NEW s, InChunk(t, q, c, s), NEW kind, NEW call
  PROVE  GoesOn(c, kind, call) =
           (/\ s.contents # <<>> /\ s.contents[Len(s.contents)].kind = kind
            /\ LastCall(s) = call)
<1> DEFINE m == s.contents
<1> DEFINE b == LastBlock(m, LastCall(s))
<1>1. Head(<<b>>) = b /\ <<b>> # <<>> /\ b.kind = m[Len(m)].kind /\ b.call = LastCall(s)
  BY HeadOfBlock
<1>2. c.open = IF m = <<>> THEN <<>> ELSE <<b>>
  BY DEF InChunk, LastOpen
<1> HIDE DEF b
<1>3. CASE m = <<>>
  BY <1>2, <1>3 DEF GoesOn
<1>4. CASE m # <<>>
  <2>1. c.open = <<b>>
    BY <1>2, <1>4
  <2> QED BY <1>1, <1>4, <2>1, Zenon DEF GoesOn
<1> QED BY <1>3, <1>4

\* After a fragment, the last content is open.
LEMMA StillLastOpen ==
  ASSUME NEW t, NEW q, NEW d, NEW s2, NEW kind, NEW call,
         SentOK(s2), AtMostOne(t, q, d, s2.contents, "unspecified", NoUsage),
         GoesOn(d, kind, call), kind = "tool" => call = NextCall(s2) - 1,
         kind # "tool" => call = 0
  PROVE  InChunk(t, q, d, s2)
<1> DEFINE m == s2.contents
<1>1. d.open # <<>> /\ AtMostOne(t, q, d, m, "unspecified", NoUsage)
  BY DEF GoesOn
<1>2. Head(d.open).call = call /\ Head(d.open).kind = kind
  BY DEF GoesOn
<1>3. m # <<>> /\ m[Len(m)].kind = kind /\ d.open = <<LastBlock(m, Head(d.open).call)>>
  <2> HIDE DEF m
  <2> QED BY <1>1, <1>2, OpenFacts
<1>4. call = LastCall(s2)
  BY <1>3 DEF LastCall
<1>5. d.open = <<LastBlock(m, LastCall(s2))>>
  BY <1>2, <1>3, <1>4
<1> QED BY <1>3, <1>5 DEF InChunk, LastOpen

\* A text of a chunk is what the provider said.
LEMMA ChunkText ==
  ASSUME NEW t, NEW q, NEW c, NEW s, InChunk(t, q, c, s), NEW kind \in TextKinds,
         NEW text \in Seq(Nat), text # <<>>
  PROVE  LET d == WriteDelta(OpenBlock(c, kind, 0, 0), "text", text) IN
         /\ InChunk(t, q, d, Says(s, kind, text))
         /\ Rewritten(c, d)
<1> DEFINE d == WriteDelta(OpenBlock(c, kind, 0, 0), "text", text)
<1> DEFINE s2 == Says(s, kind, text)
<1> DEFINE m == s.contents
<1>1. SentOK(s) /\ s \in SentSet /\ AtMostOne(t, q, c, m, "unspecified", NoUsage)
  BY DEF InChunk, SentOK
<1>2. kind # "tool" /\ FitsKind("text", kind) /\ kind \in TextKinds \union {"tool"}
  BY DEF FitsKind, TextKinds
<1>3. SentOK(s2) /\ SameTurn(s, s2)
  BY <1>1, SaysFacts
<1>4. GoesOn(c, kind, 0) = Continues(s, kind)
  <2>1. GoesOn(c, kind, 0) = (/\ m # <<>> /\ m[Len(m)].kind = kind /\ LastCall(s) = 0)
    BY GoesOnFacts
  <2>2. m # <<>> /\ m[Len(m)].kind = kind => LastCall(s) = 0
    BY <1>2 DEF LastCall
  <2>3. m # <<>> => Last(m) = m[Len(m)]
    BY <1>1, LastFacts
  <2> QED BY <2>1, <2>2, <2>3 DEF Continues
<1>5. s2.contents = Fragmented(c, m, kind, 0, 0, "text", text)
  BY <1>1, <1>4, SaysFacts DEF Fragmented
<1>6. /\ AtMostOne(t, q, d, s2.contents, "unspecified", NoUsage)
      /\ GoesOn(d, kind, 0) /\ Rewritten(c, d)
  <2>1. Wrote(t, q, c, d, m, "unspecified", NoUsage, kind, 0, 0, "text", text)
    BY <1>1, <1>2, OpenWriteFacts
  <2> HIDE DEF d, s2
  <2> QED BY <1>5, <2>1 DEF Wrote
<1> HIDE DEF d, s2
<1>7. InChunk(t, q, d, s2)
  BY <1>2, <1>3, <1>6, StillLastOpen
<1> QED BY <1>6, <1>7 DEF d, s2

\* So is a delta of a tool call.
LEMMA ChunkCall ==
  ASSUME NEW t, NEW q, NEW c, NEW s, InChunk(t, q, c, s), NEW x \in ToolDeltas(s)
  PROVE  LET d == WriteDelta(OpenBlock(c, "tool", x.delta.call, x.delta.id), "tool", x.delta.text) IN
         /\ InChunk(t, q, d, x.sent) /\ SameTurn(s, x.sent)
         /\ Rewritten(c, d)
<1> DEFINE m == s.contents
<1> DEFINE d == WriteDelta(OpenBlock(c, "tool", x.delta.call, x.delta.id), "tool", x.delta.text)
<1>1. SentOK(s) /\ s \in SentSet /\ AtMostOne(t, q, c, m, "unspecified", NoUsage)
  BY DEF InChunk, SentOK
<1>2. NextCall(s) \in Nat /\ NextCall(s) >= 1
  BY <1>1, CallsFacts
<1>3. FitsKind("tool", "tool")
  BY DEF FitsKind
<1>4. ASSUME NEW text \in Texts(s),
             x = [delta |-> [call |-> NextCall(s), id |-> NextCall(s), text |-> text],
                  sent  |-> Adds(s, Content("tool", NoItem, NextCall(s), text))]
      PROVE  /\ InChunk(t, q, d, x.sent) /\ SameTurn(s, x.sent)
             /\ Rewritten(c, d)
  <2> DEFINE z == Content("tool", NoItem, NextCall(s), text)
  <2>1. text \in Seq(Nat) /\ "tool" \in ContentKinds /\ NoItem \in ItemNames
    BY <1>1, TextsTyped DEF ContentKinds, ItemNames
  <2>2. z \in ContentSet /\ z.kind = "tool"
    BY <1>2, <2>1, ContentFacts
  <2>3. /\ x.delta.call = NextCall(s) /\ x.delta.id = NextCall(s) /\ x.delta.text = text
        /\ x.sent = Adds(s, z)
    BY <1>4
  <2> HIDE DEF z
  <2>4. SentOK(x.sent) /\ SameTurn(s, x.sent) /\ x.sent.contents = Append(m, z)
    BY <1>1, <2>2, <2>3, AddsFacts
  <2>5. NextCall(x.sent) = NextCall(s) + 1
    BY <1>1, <2>2, <2>4, CallsAppended DEF SentOK
  <2>6. ~GoesOn(c, "tool", NextCall(s))
    <3>1. GoesOn(c, "tool", NextCall(s)) =>
            m[Len(m)].kind = "tool" /\ LastCall(s) = NextCall(s)
      BY GoesOnFacts
    <3>2. m[Len(m)].kind = "tool" => LastCall(s) = NextCall(s) - 1
      BY DEF LastCall
    <3> QED BY <1>2, <3>1, <3>2
  <2>7. x.sent.contents = Fragmented(c, m, "tool", NextCall(s), NextCall(s), "tool", text)
    BY <2>4, <2>6 DEF z, Fragmented
  <2>8. d = WriteDelta(OpenBlock(c, "tool", NextCall(s), NextCall(s)), "tool", text)
    BY <2>3
  <2> HIDE DEF d
  <2>9. /\ AtMostOne(t, q, d, x.sent.contents, "unspecified", NoUsage)
        /\ GoesOn(d, "tool", NextCall(s)) /\ Rewritten(c, d)
    <3>1. Wrote(t, q, c, d, m, "unspecified", NoUsage, "tool", NextCall(s), NextCall(s),
                "tool", text)
      BY <1>1, <1>2, <1>3, <2>1, <2>8, OpenWriteFacts
    <3> QED BY <2>7, <3>1 DEF Wrote
  <2>10. InChunk(t, q, d, x.sent)
    <3>1. NextCall(s) = NextCall(x.sent) - 1
      BY <1>2, <2>5
    <3> QED BY <2>4, <2>9, <3>1, StillLastOpen, Zenon
  <2> QED BY <2>4, <2>9, <2>10
<1>5. ASSUME Continues(s, "tool"),
             x = [delta |-> [call |-> NextCall(s) - 1, id |-> 0, text |-> Fragment(s)],
                  sent  |-> Writes(s, Len(s.contents), Fragment(s))]
      PROVE  /\ InChunk(t, q, d, x.sent) /\ SameTurn(s, x.sent)
             /\ Rewritten(c, d)
  <2> DEFINE call == NextCall(s) - 1
  <2> DEFINE text == Fragment(s)
  <2>1. text \in Seq(Nat) /\ call \in Nat
    BY <1>1, <1>2, TextsTyped
  <2>2. /\ x.delta.call = call /\ x.delta.id = 0 /\ x.delta.text = text
        /\ x.sent = Writes(s, Len(m), text)
    BY <1>5
  <2>3. m # <<>> /\ Len(m) \in 1..Len(m) /\ m[Len(m)].kind = "tool"
    BY <1>1, <1>5, LastFacts DEF Continues
  <2>4. /\ SentOK(x.sent) /\ SameTurn(s, x.sent)
        /\ x.sent.contents = Amend(m, Len(m), "tool", text)
    <3> HIDE DEF text
    <3> QED BY <1>1, <2>1, <2>2, <2>3, WritesFacts
  <2>5. NextCall(x.sent) = NextCall(s)
    <3> HIDE DEF text
    <3> QED BY <1>1, <2>1, <2>3, <2>4, CallsAmended DEF SentOK
  <2>6. GoesOn(c, "tool", call)
    <3>1. LastCall(s) = call
      BY <2>3 DEF LastCall
    <3> QED BY <2>3, <3>1, GoesOnFacts
  <2>7. x.sent.contents = Fragmented(c, m, "tool", call, 0, "tool", text)
    BY <2>4, <2>6 DEF Fragmented
  <2>8. d = WriteDelta(OpenBlock(c, "tool", call, 0), "tool", text)
    BY <2>2
  <2> HIDE DEF d, text, call
  <2>9. /\ AtMostOne(t, q, d, x.sent.contents, "unspecified", NoUsage)
        /\ GoesOn(d, "tool", call) /\ Rewritten(c, d)
    <3>1. Wrote(t, q, c, d, m, "unspecified", NoUsage, "tool", call, 0, "tool", text)
      BY <1>1, <1>3, <2>1, <2>8, OpenWriteFacts
    <3> QED BY <2>7, <3>1 DEF Wrote
  <2>10. InChunk(t, q, d, x.sent)
    <3>1. call = NextCall(x.sent) - 1
      BY <2>5 DEF call
    <3> QED BY <2>4, <2>9, <3>1, StillLastOpen, Zenon
  <2> QED BY <2>4, <2>9, <2>10
<1>6. \/ \E text \in Texts(s) :
           x = [delta |-> [call |-> NextCall(s), id |-> NextCall(s), text |-> text],
                sent  |-> Adds(s, Content("tool", NoItem, NextCall(s), text))]
      \/ /\ Continues(s, "tool")
         /\ x = [delta |-> [call |-> NextCall(s) - 1, id |-> 0, text |-> Fragment(s)],
                 sent  |-> Writes(s, Len(s.contents), Fragment(s))]
  BY DEF ToolDeltas
<1> HIDE DEF d
<1>7. /\ InChunk(t, q, d, x.sent) /\ SameTurn(s, x.sent)
      /\ Rewritten(c, d)
  BY <1>4, <1>5, <1>6
<1> QED BY <1>7 DEF d

\* A client's fields are typed.
LEMMA ClientTyped ==
  ASSUME NEW t, NEW q, NEW c, NEW m, NEW status, NEW v, AtMostOne(t, q, c, m, status, v)
  PROVE  /\ c.open \in OneOrNone(BlockSet) /\ c.nextIndex \in Nat /\ c.nextIndex = Len(m)
         /\ c.out \in Seq(Proper) /\ IsClient(c) /\ m \in Seq(ContentSet)
<1>1. /\ c.out \in Seq(Proper) /\ Len(m) \in Nat /\ c.nextIndex = Len(m) /\ IsClient(c)
      /\ BlocksOf(c.open) \subseteq [index : Nat, kind : TextKinds \union {"tool"}]
      /\ m \in Seq(ContentSet)
  BY TellsFacts DEF AtMostOne
<1>2. ASSUME c.open # <<>> PROVE c.open \in OneOrNone(BlockSet)
  <2> DEFINE b == LastBlock(m, Head(c.open).call)
  <2>1. /\ c.open = <<b>> /\ Len(m) \in 1..Len(m) /\ Head(c.open).call \in Nat
        /\ BlocksOf(c.open) = {Block(Len(m) - 1, m[Len(m)].kind)}
    BY <1>2, OpenFacts
  <2>2. m[Len(m)].kind \in TextKinds \union {"tool"}
    BY <1>1, <2>1 DEF Block
  <2>3. b \in BlockSet
    BY <1>1, <2>1, <2>2 DEF LastBlock, BlockSet
  <2> HIDE DEF b
  <2> QED BY <2>1, <2>3 DEF OneOrNone
<1>3. <<>> \in OneOrNone(BlockSet)
  BY DEF OneOrNone
<1> QED BY <1>1, <1>2, <1>3

\* The message starts with the first chunk.
Began(c) ==
  IF c.messageStarted THEN c
  ELSE [Emit(c, MessageStart(NoUsage)) EXCEPT !.messageStarted = TRUE]

HasBegun(t, q, c, m) ==
  /\ AtMostOne(t, q, Began(c), m, "unspecified", NoUsage)
  /\ Began(c).open = c.open /\ Began(c).messageStarted = TRUE
  /\ DOMAIN Began(c) = DOMAIN c
  /\ \A f \in DOMAIN c \ {"out", "messageStarted"} : Began(c)[f] = c[f]

OpenIs(c, m, call) == c.open = <<>> \/ (m # <<>> /\ c.open = <<LastBlock(m, call)>>)

LEMMA BeganFacts ==
  ASSUME NEW t, NEW q, NEW c, NEW m, IsClient(c), "messageStarted" \in DOMAIN c,
         c.messageStarted \in BOOLEAN, c.nextIndex = Len(m), NEW call \in Nat,
         OpenIs(c, m, call),
         NEW state, state = IF c.messageStarted THEN "open" ELSE "new",
         Tells(t, q, c.out, state, BlocksOf(c.open), m, "unspecified", NoUsage)
  PROVE  HasBegun(t, q, c, m)
<1> DEFINE d == Began(c)
<1>1. \/ c.open = <<>>
      \/ m # <<>> /\ \E k \in Nat :
           c.open = <<[index |-> Len(m) - 1, kind |-> m[Len(m)].kind, call |-> k]>>
  BY DEF LastBlock, OpenIs
<1>2. CASE c.messageStarted
  <2>1. Began(c) = c
    BY <1>2 DEF Began
  <2>2. AtMostOne(t, q, c, m, "unspecified", NoUsage)
    BY <1>1, <1>2 DEF AtMostOne
  <2>3. c.messageStarted = TRUE
    BY <1>2
  <2> QED BY <2>1, <2>2, <2>3 DEF HasBegun
<1>3. CASE ~c.messageStarted
  <2> DEFINE x == Append(c.out, MessageStart(NoUsage))
  <2>1. d = [[c EXCEPT !.out = x] EXCEPT !.messageStarted = TRUE]
    BY <1>3 DEF Began, Emit
  <2>2. "open" # "messageStarted" /\ "out" # "messageStarted" /\ "nextIndex" # "messageStarted"
        /\ "nextIndex" # "out" /\ "open" # "out"
    OBVIOUS
  <2>3. /\ IsClient(d) /\ d.open = c.open /\ d.out = x /\ d.nextIndex = Len(m)
        /\ d.messageStarted = TRUE /\ DOMAIN d = DOMAIN c
        /\ \A f \in DOMAIN c \ {"out", "messageStarted"} : d[f] = c[f]
    <3> HIDE DEF d, x
    <3> QED BY <2>1, <2>2 DEF IsClient
  <2>4. Tells(t, q, x, "open", BlocksOf(c.open), m, "unspecified", NoUsage)
    <3> DEFINE w == NoUsage
    <3>1. w \in Usages /\ MergeUsage(w, w) = w
      BY MergeFacts DEF Usages, NoUsage
    <3>2. Tells(t, q, c.out, "new", BlocksOf(c.open), m, "unspecified", w)
      BY <1>3
    <3> HIDE DEF w
    <3>3. Tells(t, q, Append(c.out, MessageStart(w)), "open", BlocksOf(c.open), m,
                "unspecified", MergeUsage(w, w))
      BY <3>1, <3>2, TellsStart
    <3> QED BY <3>1, <3>3 DEF w
  <2> HIDE DEF d, x
  <2>5. AtMostOne(t, q, d, m, "unspecified", NoUsage)
    BY <1>1, <2>3, <2>4 DEF AtMostOne
  <2> QED BY <2>3, <2>5 DEF d, HasBegun
<1> QED BY <1>2, <1>3

\* The end of a turn closes the open block.
LEMMA EndsTurn ==
  ASSUME NEW t, NEW q, NEW c, NEW m, AtMostOne(t, q, c, m, "unspecified", NoUsage),
         NEW status \in Statuses, NEW w \in Usages
  PROVE  Tells(t, q, Append(CloseOpenBlock(c).out, MessageStop(status, w)), "stopped", {}, m,
               status, w)
<1> DEFINE d == CloseOpenBlock(c)
<1> DEFINE v == NoUsage
<1>1. AtMostOne(t, q, d, m, "unspecified", v) /\ d.open = <<>>
  BY CloseFacts
<1>2. MergeUsage(v, w) = w
  BY MergeFacts
<1> HIDE DEF d, v
<1>3. Tells(t, q, d.out, "open", {}, m, "unspecified", v)
  BY <1>1 DEF AtMostOne, BlocksOf
<1>4. Tells(t, q, Append(d.out, MessageStop(status, w)), "stopped", {}, m, status,
            MergeUsage(v, w))
  BY <1>3, TellsStop
<1> QED BY <1>2, <1>4 DEF d

-----------------------------------------------------------------------------
(* A chunk of a chat completion                                            *)

\* A text of a chunk, which may be empty.
TextStep(c, kind, text) ==
  IF text = <<>> THEN c ELSE WriteDelta(OpenBlock(c, kind, 0, 0), "text", text)

LEMMA ChunkSays ==
  ASSUME NEW t, NEW q, NEW c, NEW s, InChunk(t, q, c, s), NEW kind \in TextKinds,
         NEW text \in Texts(s)
  PROVE  /\ InChunk(t, q, TextStep(c, kind, text), Says(s, kind, text))
         /\ SameTurn(s, Says(s, kind, text)) /\ Rewritten(c, TextStep(c, kind, text))
<1>1. SentOK(s) /\ s \in SentSet /\ IsClient(c)
  BY DEF InChunk, SentOK, AtMostOne
<1>2. text \in Seq(Nat)
  BY <1>1, TextsTyped
<1>3. CASE text = <<>>
  <2>1. TextStep(c, kind, text) = c /\ Says(s, kind, text) = s
    BY <1>3 DEF TextStep, Says
  <2>2. Rewritten(c, c)
    BY <1>1, WithFacts DEF Rewritten
  <2> QED BY <2>1, <2>2 DEF SameTurn
<1>4. CASE text # <<>>
  <2> DEFINE d == WriteDelta(OpenBlock(c, kind, 0, 0), "text", text)
  <2>1. TextStep(c, kind, text) = d
    BY <1>4 DEF TextStep
  <2>2. InChunk(t, q, d, Says(s, kind, text)) /\ Rewritten(c, d)
    BY <1>2, <1>4, ChunkText
  <2>3. SameTurn(s, Says(s, kind, text))
    BY <1>1, <1>2, <1>4, SaysFacts
  <2> QED BY <2>1, <2>2, <2>3
<1> QED BY <1>3, <1>4

\* A delta of a call, and a list of them.
CallStep(c, d) == WriteDelta(OpenBlock(c, "tool", d.call, d.id), "tool", d.text)

CallSteps(c, tools) ==
  IF Len(tools) = 0 THEN c
  ELSE IF Len(tools) = 1 THEN CallStep(c, tools[1])
  ELSE CallStep(CallStep(c, tools[1]), tools[2])

LEMMA ToolListsCases ==
  ASSUME NEW s, NEW l \in ToolLists(s)
  PROVE  \/ Len(l.tools) = 0 /\ l.sent = s
         \/ \E x \in ToolDeltas(s) :
              Len(l.tools) = 1 /\ l.tools[1] = x.delta /\ l.sent = x.sent
         \/ \E x \in ToolDeltas(s) : \E y \in ToolDeltas(x.sent) :
              /\ Len(l.tools) = 2 /\ l.tools[1] = x.delta /\ l.tools[2] = y.delta
              /\ l.sent = y.sent
<1> DEFINE one == {[tools |-> <<d.delta>>, sent |-> d.sent] : d \in ToolDeltas(s)}
<1>1. \/ l = [tools |-> <<>>, sent |-> s]
      \/ \E x \in ToolDeltas(s) : l = [tools |-> <<x.delta>>, sent |-> x.sent]
      \/ \E k \in one : \E y \in ToolDeltas(k.sent) :
           l = [tools |-> Append(k.tools, y.delta), sent |-> y.sent]
  BY DEF ToolLists
<1>2. CASE l = [tools |-> <<>>, sent |-> s]
  BY <1>2
<1>3. ASSUME NEW x \in ToolDeltas(s), l = [tools |-> <<x.delta>>, sent |-> x.sent]
      PROVE  Len(l.tools) = 1 /\ l.tools[1] = x.delta /\ l.sent = x.sent
  BY <1>3
<1>4. ASSUME NEW k \in one, NEW y \in ToolDeltas(k.sent),
             l = [tools |-> Append(k.tools, y.delta), sent |-> y.sent]
      PROVE  \E x \in ToolDeltas(s) : \E z \in ToolDeltas(x.sent) :
               /\ Len(l.tools) = 2 /\ l.tools[1] = x.delta /\ l.tools[2] = z.delta
               /\ l.sent = z.sent
  <2>1. PICK x \in ToolDeltas(s) : k = [tools |-> <<x.delta>>, sent |-> x.sent]
    OBVIOUS
  <2>2. k.sent = x.sent /\ k.tools = <<x.delta>>
    BY <2>1
  <2>3. l.tools = Append(<<x.delta>>, y.delta) /\ l.sent = y.sent
    BY <1>4, <2>2
  <2>4. /\ Len(Append(<<x.delta>>, y.delta)) = 2
        /\ Append(<<x.delta>>, y.delta)[1] = x.delta
        /\ Append(<<x.delta>>, y.delta)[2] = y.delta
    OBVIOUS
  <2> QED BY <2>2, <2>3, <2>4
<1> QED BY <1>1, <1>2, <1>3, <1>4

LEMMA ChunkCalls ==
  ASSUME NEW t, NEW q, NEW c, NEW s, InChunk(t, q, c, s), NEW l \in ToolLists(s)
  PROVE  /\ InChunk(t, q, CallSteps(c, l.tools), l.sent) /\ SameTurn(s, l.sent)
         /\ Rewritten(c, CallSteps(c, l.tools)) /\ Len(l.tools) \in {0, 1, 2}
<1>1. IsClient(c)
  BY DEF InChunk, AtMostOne
<1>2. ASSUME NEW a, NEW b, InChunk(t, q, a, b), NEW x \in ToolDeltas(b)
      PROVE  /\ InChunk(t, q, CallStep(a, x.delta), x.sent) /\ SameTurn(b, x.sent)
             /\ Rewritten(a, CallStep(a, x.delta))
  BY <1>2, ChunkCall DEF CallStep
<1>3. CASE Len(l.tools) = 0 /\ l.sent = s
  <2>1. Rewritten(c, c)
    BY <1>1, WithFacts DEF Rewritten
  <2> QED BY <1>3, <2>1 DEF CallSteps, SameTurn
<1>4. ASSUME NEW x \in ToolDeltas(s),
             Len(l.tools) = 1 /\ l.tools[1] = x.delta /\ l.sent = x.sent
      PROVE  /\ InChunk(t, q, CallSteps(c, l.tools), l.sent) /\ SameTurn(s, l.sent)
             /\ Rewritten(c, CallSteps(c, l.tools))
  <2>1. CallSteps(c, l.tools) = CallStep(c, x.delta)
    BY <1>4 DEF CallSteps
  <2> QED BY <1>2, <1>4, <2>1
<1>5. ASSUME NEW x \in ToolDeltas(s), NEW y \in ToolDeltas(x.sent),
             /\ Len(l.tools) = 2 /\ l.tools[1] = x.delta /\ l.tools[2] = y.delta
             /\ l.sent = y.sent
      PROVE  /\ InChunk(t, q, CallSteps(c, l.tools), l.sent) /\ SameTurn(s, l.sent)
             /\ Rewritten(c, CallSteps(c, l.tools))
  <2> DEFINE d == CallStep(c, x.delta)
  <2>1. CallSteps(c, l.tools) = CallStep(d, y.delta)
    BY <1>5 DEF CallSteps
  <2>2. InChunk(t, q, d, x.sent) /\ SameTurn(s, x.sent) /\ Rewritten(c, d)
    BY <1>2
  <2> HIDE DEF d
  <2>3. /\ InChunk(t, q, CallStep(d, y.delta), y.sent) /\ SameTurn(x.sent, y.sent)
        /\ Rewritten(d, CallStep(d, y.delta))
    BY <1>2, <2>2
  <2>4. Rewritten(c, CallStep(d, y.delta))
    BY <1>1, <2>2, <2>3, RewrittenFacts
  <2> QED BY <1>5, <2>1, <2>2, <2>3, <2>4 DEF SameTurn
<1> QED BY <1>3, <1>4, <1>5, ToolListsCases

-----------------------------------------------------------------------------
(* Reports and reasons                                                     *)

LEMMA MaxPair ==
  ASSUME NEW a \in Int, NEW b \in Int
  PROVE  Max({a, b}) = IF a >= b THEN a ELSE b
<1> DEFINE x == IF a >= b THEN a ELSE b
<1>1. x \in {a, b} /\ \A y \in {a, b} : x >= y
  OBVIOUS
<1>2. Max({a, b}) \in {a, b} /\ \A y \in {a, b} : Max({a, b}) >= y
  BY <1>1 DEF Max
<1> QED BY <1>2

\* A report is of what the provider counted, or of a part of it.
Honest(s, u) == u \in Usages /\ u.in <= 1 /\ (u.out = 0 \/ u.out = s.written)

\* The chat events merge the reports as the provider means them.
LEMMA ReportsFacts ==
  ASSUME NEW s, SentOK(s), NEW u, Honest(s, u)
  PROVE  /\ SentOK(Reports(s, u)) /\ Reports(s, u).usage = MergeUsage(s.usage, u)
         /\ Reports(s, u).contents = s.contents /\ Reports(s, u).began = s.began
         /\ Reports(s, u).items = s.items /\ Reports(s, u).block = s.block
         /\ Reports(s, u).reason = s.reason /\ Reports(s, u).written = s.written
<1> DEFINE w == MergeUsage(s.usage, u)
<1>1. /\ s \in SentSet /\ s.usage \in Usages /\ u \in Usages /\ s.written \in Nat
      /\ s.usage.in <= 1 /\ s.usage.out <= s.written /\ u.in <= 1
      /\ u.out = 0 \/ u.out = s.written
  BY DEF SentOK, SentSet, Honest
<1>2. /\ s.usage.in \in Nat /\ s.usage.out \in Nat /\ u.in \in Nat /\ u.out \in Nat
  BY <1>1 DEF Usages
<1>3. /\ Max({u.in, s.usage.in}) = IF u.in >= s.usage.in THEN u.in ELSE s.usage.in
      /\ Max({u.out, s.usage.out}) = IF u.out >= s.usage.out THEN u.out ELSE s.usage.out
  BY <1>2, MaxPair
<1>4. /\ Max({u.in, s.usage.in}) = IF u.in = 0 THEN s.usage.in ELSE u.in
      /\ Max({u.out, s.usage.out}) = IF u.out = 0 THEN s.usage.out ELSE u.out
  BY <1>1, <1>2, <1>3
<1>5. w = [in |-> Max({u.in, s.usage.in}), out |-> Max({u.out, s.usage.out})]
  BY <1>4 DEF MergeUsage
<1>6. Reports(s, u) = [s EXCEPT !.usage = w]
  BY <1>5, Zenon DEF Reports
<1>7. w \in Usages /\ w.in <= 1 /\ w.out <= s.written
  BY <1>1, <1>2 DEF MergeUsage, Usages
<1> HIDE DEF w
<1>8. /\ Reports(s, u) \in SentSet /\ Reports(s, u).usage = w
      /\ Reports(s, u).contents = s.contents /\ Reports(s, u).began = s.began
      /\ Reports(s, u).items = s.items /\ Reports(s, u).block = s.block
      /\ Reports(s, u).reason = s.reason /\ Reports(s, u).written = s.written
  BY <1>1, <1>6, <1>7 DEF SentSet
<1> QED BY <1>7, <1>8 DEF SentOK, w

LEMMA NoReport ==
  ASSUME NEW s, SentOK(s)
  PROVE  /\ Honest(s, NoUsage) /\ Honest(s, Usage(s))
         /\ MergeUsage(s.usage, Usage(s)) = Usage(s) /\ Usage(s) # NoUsage
         /\ Usage(s) \in Usages /\ NoUsage \in Usages
         /\ Honest(s, [in |-> 0, out |-> s.written]) /\ Honest(s, [in |-> 1, out |-> 0])
<1>1. /\ s.usage \in Usages /\ s.written \in Nat /\ s.usage.in <= 1 /\ s.usage.out <= s.written
  BY DEF SentOK, SentSet
<1>2. s.usage.in \in Nat /\ s.usage.out \in Nat
  BY <1>1 DEF Usages
<1> QED BY <1>1, <1>2 DEF Honest, Usage, NoUsage, Usages, MergeUsage

AllReasons == {"stop", "calls", "length", "filter", "other"}

\* What one event of the provider says besides its contents.
Turned(s, began, reason, u) == Reports(Finishes([s EXCEPT !.began = began], reason), u)

HasTurned(s, s2, began, reason, u) ==
  /\ SentOK(s2) /\ s2.contents = s.contents /\ s2.began = began
  /\ s2.items = s.items /\ s2.block = s.block /\ s2.reason = reason
  /\ s2.usage = MergeUsage(s.usage, u) /\ s2.written = s.written

LEMMA TurnFacts ==
  ASSUME NEW s, SentOK(s), NEW began \in BOOLEAN, NEW reason \in {""} \union AllReasons, NEW u,
         Honest(s, u)
  PROVE  HasTurned(s, Turned(s, began, reason, u), began, reason, u)
<1> DEFINE b == [s EXCEPT !.began = began]
<1> DEFINE f == Finishes(b, reason)
<1>1. /\ SentOK(b) /\ b.contents = s.contents /\ b.began = began /\ b.items = s.items
      /\ b.block = s.block /\ b.usage = s.usage /\ b.written = s.written /\ b \in SentSet
  BY DEF SentOK, SentSet
<1> HIDE DEF b
<1>2. /\ SentOK(f) /\ f.contents = b.contents /\ f.began = b.began /\ f.items = b.items
      /\ f.block = b.block /\ f.usage = b.usage /\ f.written = b.written /\ f.reason = reason
  BY <1>1 DEF SentOK, SentSet, Finishes, AllReasons
<1> HIDE DEF f
<1>3. Honest(f, u)
  BY <1>1, <1>2 DEF Honest
<1> DEFINE s2 == Reports(f, u)
<1>4. /\ SentOK(s2) /\ s2.contents = f.contents /\ s2.began = f.began
      /\ s2.items = f.items /\ s2.block = f.block /\ s2.reason = f.reason
      /\ s2.usage = MergeUsage(f.usage, u) /\ s2.written = f.written
  BY <1>2, <1>3, ReportsFacts
<1> HIDE DEF s2
<1>5. /\ SentOK(s2) /\ s2.contents = s.contents /\ s2.began = began
      /\ s2.items = s.items /\ s2.block = s.block /\ s2.reason = reason
      /\ s2.usage = MergeUsage(s.usage, u) /\ s2.written = s.written
  BY <1>1, <1>2, <1>4
<1> QED BY <1>5 DEF s2, f, b, Turned, HasTurned

-----------------------------------------------------------------------------
(* A response of Google                                                    *)

\* A call is closed as soon as it is opened, a text stays open.
InResponse(t, q, c, s) ==
  /\ SentOK(s)
  /\ c.open = IF s.contents = <<>> \/ s.contents[Len(s.contents)].kind = "tool" THEN <<>>
              ELSE <<LastBlock(s.contents, 0)>>
  /\ AtMostOne(t, q, c, s.contents, "unspecified", NoUsage)

PartStep(c, part) ==
  IF part.kind = "tool"
  THEN CloseOpenBlock(
         WriteDelta(
           WriteDelta(StartBlock(CloseOpenBlock(c), "tool", 0, part.id),
                      "tool", part.text),
           "signature", part.signature))
  ELSE IF part.text = <<>> THEN c
  ELSE WriteDelta(WriteDelta(OpenBlock(c, part.kind, 0, 0), "text", part.text),
                  "signature", part.signature)

\* A text or a thought, and its signature.
LEMMA ResponseText ==
  ASSUME NEW t, NEW q, NEW c, NEW s, InResponse(t, q, c, s), NEW kind \in {"text", "reasoning"},
         NEW x \in TextParts(s, kind)
  PROVE  /\ InResponse(t, q, PartStep(c, x.part), x.sent) /\ SameTurn(s, x.sent)
         /\ Rewritten(c, PartStep(c, x.part)) /\ x.part.kind = kind
<1> DEFINE m == s.contents
<1> DEFINE text == Fragment(s)
<1> DEFINE s1 == Says(s, kind, text)
<1> DEFINE m1 == s1.contents
<1>1. SentOK(s) /\ s \in SentSet /\ IsClient(c) /\ m \in Seq(ContentSet)
      /\ AtMostOne(t, q, c, m, "unspecified", NoUsage)
  BY DEF InResponse, SentOK, SentSet, AtMostOne
<1>2. text \in Seq(Nat) /\ text # <<>> /\ kind \in TextKinds /\ kind # "tool"
      /\ FitsKind("text", kind)
  BY <1>1, TextsTyped DEF TextKinds, FitsKind
<1>3. PICK z \in Texts(s1) :
        x = [part |-> [Part(kind, 0, text, <<>>) EXCEPT !.signature = z],
             sent |-> Signs(s1, Len(m1), z)]
  BY DEF TextParts, Signed
<1>4. /\ x.part.kind = kind /\ x.part.text = text /\ x.part.signature = z
      /\ x.sent = Signs(s1, Len(m1), z)
  <2> HIDE DEF text, s1
  <2> QED BY <1>3 DEF Part
<1>5. GoesOn(c, kind, 0) = Continues(s, kind)
  <2>1. m = <<>> \/ m[Len(m)].kind = "tool" => ~GoesOn(c, kind, 0) /\ ~Continues(s, kind)
    BY <1>1, <1>2, LastFacts DEF InResponse, GoesOn, Continues
  <2>2. ASSUME m # <<>>, m[Len(m)].kind # "tool"
        PROVE  GoesOn(c, kind, 0) = Continues(s, kind)
    <3>1. c.open = <<LastBlock(m, 0)>>
      BY <2>2 DEF InResponse
    <3>2. Last(m) = m[Len(m)]
      BY <1>1, <2>2, LastFacts
    <3> DEFINE b == LastBlock(m, 0)
    <3>3. <<b>> # <<>> /\ Head(<<b>>) = b /\ b.kind = m[Len(m)].kind /\ b.call = 0
      BY HeadOfBlock
    <3> HIDE DEF b
    <3>4. GoesOn(c, kind, 0) = (m[Len(m)].kind = kind)
      BY <3>1, <3>3 DEF GoesOn, b
    <3>5. Continues(s, kind) = (m[Len(m)].kind = kind)
      BY <2>2, <3>2 DEF Continues
    <3> QED BY <3>4, <3>5
  <2>3. GoesOn(c, kind, 0) \in BOOLEAN /\ Continues(s, kind) \in BOOLEAN
    BY DEF GoesOn, Continues
  <2> QED BY <2>1, <2>2, <2>3
<1>6. SentOK(s1) /\ SameTurn(s, s1) /\ m1 = Fragmented(c, m, kind, 0, 0, "text", text)
  BY <1>1, <1>2, <1>5, SaysFacts DEF Fragmented
<1> DEFINE d == WriteDelta(OpenBlock(c, kind, 0, 0), "text", text)
<1> DEFINE e == WriteDelta(d, "signature", z)
<1>7. Wrote(t, q, c, d, m, "unspecified", NoUsage, kind, 0, 0, "text", text)
  BY <1>1, <1>2, OpenWriteFacts
<1>8. PartStep(c, x.part) = e
  BY <1>2, <1>4, Zenon DEF PartStep
<1> HIDE DEF d, text, s1
<1>9. AtMostOne(t, q, d, m1, "unspecified", NoUsage) /\ GoesOn(d, kind, 0) /\ Rewritten(c, d)
  BY <1>6, <1>7 DEF Wrote
<1>10. s1 \in SentSet /\ z \in Seq(Nat) /\ m1 \in Seq(ContentSet)
  BY <1>6, TextsTyped DEF SentOK, SentSet
<1>11. d.open # <<>> /\ Head(d.open).call = 0 /\ Head(d.open).kind = kind
  BY <1>9 DEF GoesOn
<1>12. /\ m1 # <<>> /\ d.open = <<LastBlock(m1, 0)>> /\ m1[Len(m1)].kind = kind
       /\ Len(m1) \in 1..Len(m1)
  BY <1>9, <1>11, OpenFacts
<1> DEFINE m2 == Amend(m1, Len(m1), "signature", z)
<1>13. AtMostOne(t, q, e, m2, "unspecified", NoUsage) /\ e.open = d.open
       /\ e = With(d, d.open, d.nextIndex, e.out)
  <2>1. FitsKind("signature", Head(d.open).kind) /\ "signature" \in DeltaKinds
    BY DEF FitsKind, DeltaKinds
  <2> QED BY <1>9, <1>10, <1>11, <2>1, WriteFacts
<1>14. SentOK(x.sent) /\ SameTurn(s1, x.sent) /\ x.sent.contents = m2
  <2> HIDE DEF m1
  <2>1. m1 = s1.contents
    BY DEF m1
  <2> QED BY <1>4, <1>6, <1>10, <1>12, <2>1, SignsFacts
<1>15. /\ m2 # <<>> /\ Len(m2) = Len(m1) /\ m2[Len(m2)].kind = kind
       /\ LastBlock(m2, 0) = LastBlock(m1, 0)
  <2>1. /\ Len(m2) = Len(m1) /\ m2 # <<>> /\ m2[Len(m1)].kind = m1[Len(m1)].kind
    BY <1>10, <1>12, AmendFacts
  <2> HIDE DEF m2, m1
  <2> QED BY <1>12, <2>1 DEF LastBlock
<1> HIDE DEF e, m2
<1>16. InResponse(t, q, e, x.sent)
  BY <1>2, <1>12, <1>13, <1>14, <1>15 DEF InResponse
<1>17. Rewritten(c, e)
  <2>1. IsClient(d) /\ IsClient(e)
    BY <1>9, <1>13 DEF AtMostOne
  <2>2. e.nextIndex = d.nextIndex
    BY <1>13, <2>1, WithFacts
  <2>3. Rewritten(d, e)
    BY <1>13, <2>2 DEF Rewritten
  <2> QED BY <1>1, <1>9, <2>3, RewrittenFacts
<1>18. SameTurn(s, x.sent)
  BY <1>6, <1>14 DEF SameTurn
<1> QED BY <1>4, <1>8, <1>16, <1>17, <1>18

\* A whole call, and its signature.
LEMMA ResponseCall ==
  ASSUME NEW t, NEW q, NEW c, NEW s, InResponse(t, q, c, s), NEW x \in CallParts(s)
  PROVE  /\ InResponse(t, q, PartStep(c, x.part), x.sent) /\ SameTurn(s, x.sent)
         /\ Rewritten(c, PartStep(c, x.part)) /\ x.part.kind = "tool"
<1> DEFINE m == s.contents
<1> DEFINE text == Fragment(s)
<1> DEFINE id == NextCall(s)
<1> DEFINE s1 == Adds(s, Content("tool", NoItem, id, text))
<1> DEFINE m1 == s1.contents
<1>1. SentOK(s) /\ s \in SentSet /\ IsClient(c) /\ m \in Seq(ContentSet)
      /\ AtMostOne(t, q, c, m, "unspecified", NoUsage)
  BY DEF InResponse, SentOK, SentSet, AtMostOne
<1>2. text \in Seq(Nat) /\ id \in Nat /\ FitsKind("tool", "tool")
      /\ "tool" \in TextKinds \union {"tool"}
  BY <1>1, TextsTyped, CallsFacts DEF FitsKind
<1>3. PICK z \in Texts(s1) :
        x = [part |-> [Part("tool", id, text, <<>>) EXCEPT !.signature = z],
             sent |-> Signs(s1, Len(m1), z)]
  BY DEF CallParts, Signed
<1>4. /\ x.part.kind = "tool" /\ x.part.text = text /\ x.part.signature = z /\ x.part.id = id
      /\ x.sent = Signs(s1, Len(m1), z)
  <2> HIDE DEF text, s1, id
  <2> QED BY <1>3 DEF Part
<1>5. SentOK(s1) /\ SameTurn(s, s1) /\ m1 = Append(m, Content("tool", NoItem, id, text))
  <2> DEFINE z1 == Content("tool", NoItem, id, text)
  <2>1. "tool" \in ContentKinds /\ NoItem \in ItemNames
    BY DEF ContentKinds, ItemNames
  <2>2. z1 \in ContentSet
    BY <1>2, <2>1, ContentFacts
  <2> HIDE DEF z1
  <2>3. SentOK(Adds(s, z1)) /\ SameTurn(s, Adds(s, z1)) /\ Adds(s, z1).contents = Append(m, z1)
    BY <1>1, <2>2, AddsFacts
  <2> QED BY <2>3 DEF z1
<1> HIDE DEF text, id, s1
<1> DEFINE a == CloseOpenBlock(c)
<1> DEFINE b == StartBlock(a, "tool", 0, id)
<1> DEFINE d == WriteDelta(b, "tool", text)
<1> DEFINE e == WriteDelta(d, "signature", z)
<1> DEFINE f == CloseOpenBlock(e)
<1>6. PartStep(c, x.part) = f
  BY <1>4, Zenon DEF PartStep
<1>7. AtMostOne(t, q, a, m, "unspecified", NoUsage) /\ a.open = <<>>
      /\ a = With(c, <<>>, c.nextIndex, a.out)
  BY <1>1, CloseFacts
<1> HIDE DEF a
<1> DEFINE m0 == Append(m, Content("tool", NoItem, id, <<>>))
<1>8. /\ AtMostOne(t, q, b, m0, "unspecified", NoUsage)
      /\ b.open # <<>> /\ Head(b.open).kind = "tool"
      /\ b = With(a, b.open, a.nextIndex + 1, b.out)
  <2> DEFINE kind == "tool"
  <2> DEFINE g == StartBlock(a, kind, 0, id)
  <2> DEFINE k == Append(m, Content(kind, NoItem, id, <<>>))
  <2>1. kind \in TextKinds \union {"tool"} /\ 0 \in Nat
    OBVIOUS
  <2> HIDE DEF kind
  <2>2. /\ AtMostOne(t, q, g, k, "unspecified", NoUsage)
        /\ g.open # <<>> /\ Head(g.open).kind = kind
        /\ g = With(a, g.open, a.nextIndex + 1, g.out)
    BY <1>2, <1>7, <2>1, StartFacts
  <2> HIDE DEF g, k
  <2>3. g = b /\ k = m0 /\ kind = "tool"
    BY DEF g, k, kind
  <2> HIDE DEF b, m0
  <2> QED BY <2>2, <2>3
<1>9. Amend(m0, Len(m0), "tool", text) = m1 /\ Len(m0) = Len(m) + 1
  <2>1. "tool" \in {"text", "tool"}
    OBVIOUS
  <2> QED BY <1>1, <1>2, <1>5, <2>1, StartThenWrite
<1> HIDE DEF b, m0
<1>10. /\ AtMostOne(t, q, d, m1, "unspecified", NoUsage) /\ d.open = b.open
       /\ d = With(b, b.open, b.nextIndex, d.out)
  <2>1. FitsKind("tool", Head(b.open).kind) /\ "tool" \in DeltaKinds
    BY <1>2, <1>8 DEF DeltaKinds
  <2>2. AtMostOne(t, q, d, Amend(m0, Len(m0), "tool", text), "unspecified", NoUsage)
    BY <1>2, <1>8, <2>1, WriteFacts
  <2>3. d.open = b.open /\ d = With(b, b.open, b.nextIndex, d.out)
    BY <1>2, <1>8, <2>1, WriteFacts
  <2> QED BY <1>9, <2>2, <2>3
<1> HIDE DEF d
<1>11. s1 \in SentSet /\ z \in Seq(Nat) /\ m1 \in Seq(ContentSet)
  BY <1>5, TextsTyped DEF SentOK, SentSet
<1>12. d.open # <<>> /\ Head(d.open).kind = "tool"
  BY <1>8, <1>10
<1>13. m1 # <<>> /\ m1[Len(m1)].kind = "tool" /\ Len(m1) \in 1..Len(m1)
  BY <1>10, <1>12, OpenFacts
<1> DEFINE m2 == Amend(m1, Len(m1), "signature", z)
<1>14. AtMostOne(t, q, e, m2, "unspecified", NoUsage) /\ e.open = d.open
       /\ e = With(d, d.open, d.nextIndex, e.out)
  <2>1. FitsKind("signature", Head(d.open).kind) /\ "signature" \in DeltaKinds
    BY DEF FitsKind, DeltaKinds
  <2> QED BY <1>10, <1>11, <1>12, <2>1, WriteFacts
<1> HIDE DEF e
<1>15. SentOK(x.sent) /\ SameTurn(s1, x.sent) /\ x.sent.contents = m2
  <2> HIDE DEF m1
  <2>1. m1 = s1.contents
    BY DEF m1
  <2> QED BY <1>4, <1>5, <1>11, <1>13, <2>1, SignsFacts
<1>16. m2 # <<>> /\ m2[Len(m2)].kind = "tool"
  <2>1. /\ Len(m2) = Len(m1) /\ m2 # <<>> /\ m2[Len(m1)].kind = m1[Len(m1)].kind
    BY <1>11, <1>13, AmendFacts
  <2> QED BY <1>13, <2>1
<1> HIDE DEF m2
<1>17. AtMostOne(t, q, f, m2, "unspecified", NoUsage) /\ f.open = <<>>
       /\ f = With(e, <<>>, e.nextIndex, f.out)
  BY <1>14, CloseFacts
<1> HIDE DEF f
<1>18. InResponse(t, q, f, x.sent)
  BY <1>15, <1>16, <1>17 DEF InResponse
<1>19. Rewritten(c, f)
  <2>1. IsClient(a) /\ IsClient(b) /\ IsClient(d) /\ IsClient(e) /\ IsClient(f)
    BY <1>7, <1>8, <1>10, <1>14, <1>17 DEF AtMostOne
  <2>2. Rewritten(c, a)
    BY <1>1, <1>7, WithFacts DEF Rewritten
  <2>3. Rewritten(a, b)
    <3>1. b.nextIndex = a.nextIndex + 1
      BY <1>8, <2>1, WithFacts
    <3> QED BY <1>8, <3>1 DEF Rewritten
  <2>4. Rewritten(b, d)
    <3>1. d.nextIndex = b.nextIndex
      BY <1>10, <2>1, WithFacts
    <3> QED BY <1>10, <3>1 DEF Rewritten
  <2>5. Rewritten(d, e)
    <3>1. e.nextIndex = d.nextIndex
      BY <1>14, <2>1, WithFacts
    <3> QED BY <1>14, <3>1 DEF Rewritten
  <2>6. Rewritten(e, f)
    <3>1. f.nextIndex = e.nextIndex
      BY <1>17, <2>1, WithFacts
    <3> QED BY <1>17, <3>1 DEF Rewritten
  <2> QED BY <1>1, <2>1, <2>2, <2>3, <2>4, <2>5, <2>6, RewrittenFacts
<1>20. SameTurn(s, x.sent)
  BY <1>5, <1>15 DEF SameTurn
<1> QED BY <1>4, <1>6, <1>18, <1>19, <1>20

\* A part, and a list of them.
LEMMA ResponsePart ==
  ASSUME NEW t, NEW q, NEW c, NEW s, InResponse(t, q, c, s), NEW x \in Parts(s)
  PROVE  /\ InResponse(t, q, PartStep(c, x.part), x.sent) /\ SameTurn(s, x.sent)
         /\ Rewritten(c, PartStep(c, x.part))
<1>1. CASE x \in CallParts(s)
  BY <1>1, ResponseCall
<1>2. CASE x \in TextParts(s, "text")
  <2> DEFINE kind == "text"
  <2>1. kind \in {"text", "reasoning"} /\ x \in TextParts(s, kind)
    BY <1>2
  <2> HIDE DEF kind
  <2> QED BY <2>1, ResponseText
<1>3. CASE x \in TextParts(s, "reasoning")
  <2> DEFINE kind == "reasoning"
  <2>1. kind \in {"text", "reasoning"} /\ x \in TextParts(s, kind)
    BY <1>3
  <2> HIDE DEF kind
  <2> QED BY <2>1, ResponseText
<1> QED BY <1>1, <1>2, <1>3 DEF Parts

PartSteps(c, parts) ==
  IF Len(parts) = 0 THEN c
  ELSE IF Len(parts) = 1 THEN PartStep(c, parts[1])
  ELSE PartStep(PartStep(c, parts[1]), parts[2])

LEMMA PartListsCases ==
  ASSUME NEW s, NEW l \in PartLists(s)
  PROVE  \/ l.parts = <<>> /\ Len(l.parts) = 0 /\ l.sent = s
         \/ \E x \in Parts(s) :
              l.parts # <<>> /\ Len(l.parts) = 1 /\ l.parts[1] = x.part /\ l.sent = x.sent
         \/ \E x \in Parts(s) : \E y \in Parts(x.sent) :
              /\ l.parts # <<>> /\ Len(l.parts) = 2 /\ l.parts[1] = x.part
              /\ l.parts[2] = y.part /\ l.sent = y.sent
<1> DEFINE one == {[parts |-> <<d.part>>, sent |-> d.sent] : d \in Parts(s)}
<1>1. \/ l = [parts |-> <<>>, sent |-> s]
      \/ \E x \in Parts(s) : l = [parts |-> <<x.part>>, sent |-> x.sent]
      \/ \E k \in one : \E y \in Parts(k.sent) :
           l = [parts |-> Append(k.parts, y.part), sent |-> y.sent]
  BY DEF PartLists
<1>2. CASE l = [parts |-> <<>>, sent |-> s]
  BY <1>2
<1>3. ASSUME NEW x \in Parts(s), l = [parts |-> <<x.part>>, sent |-> x.sent]
      PROVE  l.parts # <<>> /\ Len(l.parts) = 1 /\ l.parts[1] = x.part /\ l.sent = x.sent
  BY <1>3
<1>4. ASSUME NEW k \in one, NEW y \in Parts(k.sent),
             l = [parts |-> Append(k.parts, y.part), sent |-> y.sent]
      PROVE  \E x \in Parts(s) : \E z \in Parts(x.sent) :
               /\ l.parts # <<>> /\ Len(l.parts) = 2 /\ l.parts[1] = x.part
               /\ l.parts[2] = z.part /\ l.sent = z.sent
  <2>1. PICK x \in Parts(s) : k = [parts |-> <<x.part>>, sent |-> x.sent]
    OBVIOUS
  <2>2. k.sent = x.sent /\ k.parts = <<x.part>>
    BY <2>1
  <2>3. l.parts = Append(<<x.part>>, y.part) /\ l.sent = y.sent
    BY <1>4, <2>2
  <2>4. /\ Len(Append(<<x.part>>, y.part)) = 2 /\ Append(<<x.part>>, y.part) # <<>>
        /\ Append(<<x.part>>, y.part)[1] = x.part
        /\ Append(<<x.part>>, y.part)[2] = y.part
    OBVIOUS
  <2> QED BY <2>2, <2>3, <2>4
<1> QED BY <1>1, <1>2, <1>3, <1>4

LEMMA ResponseParts ==
  ASSUME NEW t, NEW q, NEW c, NEW s, InResponse(t, q, c, s), NEW l \in PartLists(s)
  PROVE  /\ InResponse(t, q, PartSteps(c, l.parts), l.sent) /\ SameTurn(s, l.sent)
         /\ Rewritten(c, PartSteps(c, l.parts)) /\ Len(l.parts) \in {0, 1, 2}
         /\ l.parts = <<>> => l.sent = s
<1>1. IsClient(c)
  BY DEF InResponse, AtMostOne
<1>2. ASSUME NEW a, NEW b, InResponse(t, q, a, b), NEW x \in Parts(b)
      PROVE  /\ InResponse(t, q, PartStep(a, x.part), x.sent) /\ SameTurn(b, x.sent)
             /\ Rewritten(a, PartStep(a, x.part))
  BY <1>2, ResponsePart
<1>3. CASE l.parts = <<>> /\ Len(l.parts) = 0 /\ l.sent = s
  <2>1. Rewritten(c, c)
    BY <1>1, WithFacts DEF Rewritten
  <2> QED BY <1>3, <2>1 DEF PartSteps, SameTurn
<1>4. ASSUME NEW x \in Parts(s),
             Len(l.parts) = 1 /\ l.parts[1] = x.part /\ l.sent = x.sent
      PROVE  /\ InResponse(t, q, PartSteps(c, l.parts), l.sent) /\ SameTurn(s, l.sent)
             /\ Rewritten(c, PartSteps(c, l.parts))
  <2>1. PartSteps(c, l.parts) = PartStep(c, x.part)
    BY <1>4 DEF PartSteps
  <2> QED BY <1>2, <1>4, <2>1
<1>5. ASSUME NEW x \in Parts(s), NEW y \in Parts(x.sent),
             /\ Len(l.parts) = 2 /\ l.parts[1] = x.part /\ l.parts[2] = y.part
             /\ l.sent = y.sent
      PROVE  /\ InResponse(t, q, PartSteps(c, l.parts), l.sent) /\ SameTurn(s, l.sent)
             /\ Rewritten(c, PartSteps(c, l.parts))
  <2> DEFINE d == PartStep(c, x.part)
  <2>1. PartSteps(c, l.parts) = PartStep(d, y.part)
    BY <1>5 DEF PartSteps
  <2>2. InResponse(t, q, d, x.sent) /\ SameTurn(s, x.sent) /\ Rewritten(c, d)
    BY <1>2
  <2> HIDE DEF d
  <2>3. /\ InResponse(t, q, PartStep(d, y.part), y.sent) /\ SameTurn(x.sent, y.sent)
        /\ Rewritten(d, PartStep(d, y.part))
    BY <1>2, <2>2
  <2>4. Rewritten(c, PartStep(d, y.part))
    BY <1>1, <2>2, <2>3, RewrittenFacts
  <2> QED BY <1>5, <2>1, <2>2, <2>3, <2>4 DEF SameTurn
<1> QED BY <1>3, <1>4, <1>5, PartListsCases

=============================================================================
