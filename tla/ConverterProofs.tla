-------------------------- MODULE ConverterProofs --------------------------
(***************************************************************************)
(* What the converters of the four dialects do, one provider event at a    *)
(* time: whatever the provider sends next, the chat events the converter   *)
(* makes of it are legal where they will be read, and bring the reader     *)
(* from what the provider had written to what it has written now.          *)
(*                                                                         *)
(* For each dialect, XInStep relates a reader (its turn t and its reply    *)
(* q), a client c and what the provider has sent, s; the lemmas XStep say  *)
(* that an event of the provider keeps them in step.                       *)
(***************************************************************************)
EXTENDS StreamProofs, UpstreamClients

Completed(s) == s.reason = "stop" /\ Calls(s) = {}

-----------------------------------------------------------------------------
(* Chat completions                                                        *)

ChatClients == [status : Statuses, messageStarted : BOOLEAN, stopEmitted : BOOLEAN,
                nextIndex : Nat, open : OneOrNone(BlockSet), out : Seq(Proper)]

\* A client c relates to what the provider sent, in a phase of the stream, and to
\* the reader at the end of c's events: the state of its turn, its open blocks B,
\* its contents m, its status and its usage v.
ChatRel(c, s, ph, state, B, m, status, v) ==
  /\ c \in ChatClients
  /\ c.messageStarted = s.began
  /\ c.status = IF s.reason = "" THEN "unspecified" ELSE Chat!StatusOf(s.reason)
  /\ m = s.contents
  /\ B = BlocksOf(c.open)
  /\ state = IF ~s.began THEN "new" ELSE IF c.stopEmitted THEN "stopped" ELSE "open"
  /\ ~s.began => ~c.stopEmitted /\ m = <<>> /\ s.reason = ""
  /\ c.stopEmitted => /\ c.open = <<>> /\ status = c.status /\ v = s.usage
                      /\ ph = "reading" => s.reason # "" /\ s.usage # NoUsage
  /\ ~c.stopEmitted =>
       /\ status = "unspecified" /\ v = NoUsage /\ s.usage = NoUsage
       /\ c.nextIndex = Len(m)
       /\ c.open = IF m = <<>> THEN <<>> ELSE <<LastBlock(m, LastCall(s))>>
  /\ ph \in {"drained", "ended"} /\ s.began => c.stopEmitted
  /\ c.status = "completed" => Completed(s)

Stopped(c, usage) ==
  [Emit(CloseOpenBlock(c), MessageStop(CloseOpenBlock(c).status, usage))
     EXCEPT !.stopEmitted = TRUE]

LEMMA ChatBlocks ==
  ASSUME NEW c, NEW kind, NEW call, NEW id, NEW text
  PROVE  /\ Chat!WriteDelta(c, kind, text) = WriteDelta(c, kind, text)
         /\ Chat!OpenBlock(c, kind, call, id) = OpenBlock(c, kind, call, id)
         /\ Chat!CloseOpenBlock(c) = CloseOpenBlock(c)
<1>1. Chat!CloseOpenBlock(c) = CloseOpenBlock(c)
  BY DEF Chat!CloseOpenBlock, CloseOpenBlock, Chat!Emit, Emit, Chat!ContentStop, ContentStop,
         Chat!Blank, Blank, Chat!NoUsage, NoUsage, Chat!NoItem, NoItem
<1>2. Chat!WriteDelta(c, kind, text) = WriteDelta(c, kind, text)
  BY DEF Chat!WriteDelta, WriteDelta, Chat!Emit, Emit, Chat!ContentDelta, ContentDelta,
         Chat!Blank, Blank, Chat!NoUsage, NoUsage, Chat!NoItem, NoItem
<1>3. ASSUME NEW d PROVE Chat!StartBlock(d, kind, call, id) = StartBlock(d, kind, call, id)
  BY DEF Chat!StartBlock, StartBlock, Chat!Emit, Emit, Chat!ContentStart, ContentStart,
         Chat!Blank, Blank, Chat!NoUsage, NoUsage, Chat!NoItem, NoItem
<1>4. Chat!OpenBlock(c, kind, call, id) = OpenBlock(c, kind, call, id)
  BY <1>1, <1>3 DEF Chat!OpenBlock, OpenBlock
<1> QED BY <1>1, <1>2, <1>4

LEMMA ChatSteps ==
  ASSUME NEW c
  PROVE  /\ Chat!StartMessage(c) = Began(c)
         /\ \A u : Chat!StopMessage(c, u) = Stopped(c, u)
         /\ \A kind, text : Chat!TextDelta(c, kind, text) = TextStep(c, kind, text)
         /\ \A d : Chat!ToolDelta(c, d) = CallStep(c, d)
<1>1. Chat!StartMessage(c) = Began(c)
  BY DEF Chat!StartMessage, Began, Chat!Emit, Emit, Chat!MessageStart, MessageStart,
         Chat!Blank, Blank, Chat!NoUsage, NoUsage, Chat!NoItem, NoItem
<1>2. ASSUME NEW u PROVE Chat!StopMessage(c, u) = Stopped(c, u)
  <2>1. Chat!CloseOpenBlock(c) = CloseOpenBlock(c)
    BY ChatBlocks
  <2>2. ASSUME NEW st PROVE Chat!MessageStop(st, u) = MessageStop(st, u)
    BY DEF Chat!MessageStop, MessageStop, Chat!Blank, Blank, Chat!NoUsage, NoUsage,
           Chat!NoItem, NoItem
  <2> QED BY Zenon, <2>1, <2>2 DEF Chat!StopMessage, Stopped, Chat!Emit, Emit
<1>3. ASSUME NEW kind, NEW text PROVE Chat!TextDelta(c, kind, text) = TextStep(c, kind, text)
  BY ChatBlocks DEF Chat!TextDelta, TextStep
<1>4. ASSUME NEW d PROVE Chat!ToolDelta(c, d) = CallStep(c, d)
  BY ChatBlocks DEF Chat!ToolDelta, CallStep
<1> QED BY <1>1, <1>2, <1>3, <1>4

LEMMA ChatLoop ==
  ASSUME NEW c, NEW s, Len(s) \in {0, 1, 2}
  PROVE  Chat!Loop(Chat!ToolDelta, c, s) = CallSteps(c, s)
<1> DEFINE f == [n \in 0..Len(s) |-> IF n = 0 THEN c
                                     ELSE IF n = 1 THEN Chat!ToolDelta(c, s[1])
                                     ELSE Chat!ToolDelta(Chat!ToolDelta(c, s[1]), s[2])]
<1> DEFINE Is(g) == g = [n \in 0..Len(s) |-> IF n = 0 THEN c
                                             ELSE Chat!ToolDelta(g[n - 1], s[n])]
<1> DEFINE g == CHOOSE g : Is(g)
<1>1. Is(f)
  OBVIOUS
<1>2. Is(g)
  BY <1>1
<1>3. Chat!Loop(Chat!ToolDelta, c, s) = g[Len(s)]
  BY DEF Chat!Loop
<1> HIDE DEF g
<1>4. Chat!Loop(Chat!ToolDelta, c, s) =
        IF Len(s) = 0 THEN c
        ELSE IF Len(s) = 1 THEN Chat!ToolDelta(c, s[1])
        ELSE Chat!ToolDelta(Chat!ToolDelta(c, s[1]), s[2])
  BY <1>2, <1>3
<1> QED BY <1>4, ChatSteps DEF CallSteps

\* What a chunk makes of the client, without its reason and its usage.
ChunkSteps(c, chunk) ==
  CallSteps(TextStep(TextStep(Began(c), "reasoning", chunk.reasoning), "text", chunk.text),
            chunk.tools)

Judged(d, reason) == IF reason = "" THEN d ELSE [d EXCEPT !.status = Chat!StatusOf(reason)]

Few(tools) == Len(tools) \in {0, 1, 2}

ConvertsTo(c, chunk, j) ==
  Chat!Convert(c, chunk) = IF chunk.usage = NoUsage THEN j ELSE Stopped(j, chunk.usage)

LEMMA ChatConverts ==
  ASSUME NEW c, NEW chunk, Few(chunk.tools)
  PROVE  ConvertsTo(c, chunk, Judged(ChunkSteps(c, chunk), chunk.reason))
<1>1. Chat!NoUsage = NoUsage
  BY DEF Chat!NoUsage, NoUsage
<1> DEFINE said == Chat!TextDelta(Chat!TextDelta(Chat!StartMessage(c), "reasoning",
                                                 chunk.reasoning), "text", chunk.text)
<1> DEFINE called == Chat!Loop(Chat!ToolDelta, said, chunk.tools)
<1>2. called = ChunkSteps(c, chunk)
  <2>1. said = TextStep(TextStep(Began(c), "reasoning", chunk.reasoning), "text", chunk.text)
    BY ChatSteps
  <2> HIDE DEF said
  <2> QED BY <2>1, ChatLoop DEF ChunkSteps, Few
<1> DEFINE judged == IF chunk.reason = "" THEN called
                     ELSE [called EXCEPT !.status = Chat!StatusOf(chunk.reason)]
<1>3. Chat!Convert(c, chunk) = IF chunk.usage = Chat!NoUsage THEN judged
                               ELSE Chat!StopMessage(judged, chunk.usage)
  BY DEF Chat!Convert
<1> HIDE DEF called
<1>4. Chat!StopMessage(judged, chunk.usage) = Stopped(judged, chunk.usage)
  <2> HIDE DEF judged
  <2> QED BY ChatSteps
<1>5. judged = Judged(ChunkSteps(c, chunk), chunk.reason)
  BY <1>2 DEF Judged
<1> HIDE DEF judged
<1> QED BY <1>1, <1>3, <1>4, <1>5 DEF ConvertsTo

ChatFields == {"status", "messageStarted", "stopEmitted", "nextIndex", "open", "out"}

LEMMA ChatMember ==
  ASSUME NEW d, IsClient(d), DOMAIN d = ChatFields,
         d.status \in Statuses, d.messageStarted \in BOOLEAN, d.stopEmitted \in BOOLEAN,
         d.nextIndex \in Nat, d.open \in OneOrNone(BlockSet), d.out \in Seq(Proper)
  PROVE  d \in ChatClients
<1> DEFINE r == [status |-> d.status, messageStarted |-> d.messageStarted,
                 stopEmitted |-> d.stopEmitted, nextIndex |-> d.nextIndex,
                 open |-> d.open, out |-> d.out]
<1>1. d = r
  BY DEF IsClient, ChatFields
<1>2. r \in ChatClients
  BY DEF ChatClients
<1> HIDE DEF r
<1> QED BY <1>1, <1>2

LEMMA ChatParts ==
  ASSUME NEW c \in ChatClients
  PROVE  /\ IsClient(c) /\ DOMAIN c = ChatFields
         /\ c.status \in Statuses /\ c.messageStarted \in BOOLEAN /\ c.stopEmitted \in BOOLEAN
         /\ c.nextIndex \in Nat /\ c.open \in OneOrNone(BlockSet) /\ c.out \in Seq(Proper)
<1>1. c = [x \in DOMAIN c |-> c[x]]
  BY DEF ChatClients
<1>2. DOMAIN c = ChatFields
  BY DEF ChatClients, ChatFields
<1>3. /\ c.status \in Statuses /\ c.messageStarted \in BOOLEAN /\ c.stopEmitted \in BOOLEAN
      /\ c.nextIndex \in Nat /\ c.open \in OneOrNone(BlockSet) /\ c.out \in Seq(Proper)
  BY DEF ChatClients
<1>4. {"open", "nextIndex", "out"} \subseteq ChatFields
  BY DEF ChatFields
<1> QED BY <1>2, <1>3, <1>4, Zenon, <1>1 DEF IsClient

\* A turn that has begun and is not ended yet, between two chunks.
ChatStatus(reason) == IF reason = "" THEN "unspecified" ELSE Chat!StatusOf(reason)

ChatOpen(t, q, c, s) ==
  /\ c \in ChatClients /\ InChunk(t, q, c, s)
  /\ c.messageStarted /\ ~c.stopEmitted /\ s.began /\ s.usage = NoUsage
  /\ c.status = ChatStatus(s.reason)
  /\ c.status = "completed" => Completed(s)

LEMMA ChatOpenRel ==
  ASSUME NEW t, NEW q, NEW c, NEW s, ChatOpen(t, q, c, s)
  PROVE  /\ Tells(t, q, c.out, "open", BlocksOf(c.open), s.contents, "unspecified", NoUsage)
         /\ ChatRel(c, s, "reading", "open", BlocksOf(c.open), s.contents, "unspecified", NoUsage)
<1>1. /\ AtMostOne(t, q, c, s.contents, "unspecified", NoUsage) /\ LastOpen(c, s)
      /\ c.messageStarted \in BOOLEAN /\ c.stopEmitted \in BOOLEAN /\ s.began \in BOOLEAN
  BY Zenon, ChatParts DEF ChatOpen, InChunk, SentOK, SentSet
<1>2. Tells(t, q, c.out, "open", BlocksOf(c.open), s.contents, "unspecified", NoUsage)
  BY <1>1 DEF AtMostOne
<1>3. c.nextIndex = Len(s.contents)
  BY <1>1 DEF AtMostOne
<1> QED BY Zenon, <1>1, <1>2, <1>3 DEF ChatOpen, ChatRel, LastOpen, ChatStatus

\* The end of a turn, reported or not.
LEMMA ChatStops ==
  ASSUME NEW t, NEW q, NEW c, NEW s, ChatOpen(t, q, c, s), NEW u \in Usages, NEW s2,
         s2.contents = s.contents, s2.began = s.began, s2.reason = s.reason, s2.usage = u,
         NEW ph, ph = "reading" => s.reason # "" /\ u # NoUsage
  PROVE  /\ Tells(t, q, Stopped(c, u).out, "stopped", {}, s.contents, c.status, u)
         /\ ChatRel(Stopped(c, u), s2, ph, "stopped", {}, s.contents, c.status, u)
<1> DEFINE m == s.contents
<1> DEFINE a == CloseOpenBlock(c)
<1> DEFINE d == Stopped(c, u)
<1> DEFINE x == Append(a.out, MessageStop(c.status, u))
<1>1. /\ AtMostOne(t, q, c, m, "unspecified", NoUsage) /\ IsClient(c) /\ c \in ChatClients
      /\ DOMAIN c = ChatFields /\ c.status \in Statuses /\ c.messageStarted \in BOOLEAN
      /\ c.stopEmitted \in BOOLEAN
  BY Zenon, ChatParts DEF ChatOpen, InChunk
<1>2. AtMostOne(t, q, a, m, "unspecified", NoUsage) /\ a.open = <<>>
      /\ a = With(c, <<>>, c.nextIndex, a.out)
  BY Zenon, <1>1, CloseFacts
<1>3. Tells(t, q, x, "stopped", {}, m, c.status, u)
  BY Zenon, <1>1, EndsTurn
<1> HIDE DEF a
<1>4. /\ IsClient(a) /\ DOMAIN a = ChatFields /\ a.status = c.status
      /\ a.messageStarted = c.messageStarted /\ a.stopEmitted = c.stopEmitted
      /\ a.nextIndex = c.nextIndex
  <2>1. "status" \in ChatFields \ {"open", "nextIndex", "out"}
        /\ "messageStarted" \in ChatFields \ {"open", "nextIndex", "out"}
        /\ "stopEmitted" \in ChatFields \ {"open", "nextIndex", "out"}
    BY Zenon DEF ChatFields
  <2>2. Rewritten(c, a) /\ a.nextIndex = c.nextIndex
    BY Zenon, <1>1, CloseRewrites DEF a
  <2>3. /\ IsClient(a) /\ DOMAIN a = DOMAIN c
        /\ \A f \in DOMAIN c \ {"open", "nextIndex", "out"} : a[f] = c[f]
    BY Zenon, <1>1, <2>2, RewrittenFacts
  <2> QED BY Zenon, <1>1, <2>1, <2>2, <2>3
<1>5. d = [[a EXCEPT !.out = x] EXCEPT !.stopEmitted = TRUE]
  BY Zenon, <1>4 DEF Stopped, Emit, a
<1>6. x \in Seq(Proper) /\ c.nextIndex \in Nat
  BY Zenon, <1>1, <1>3, TellsFacts, ClientTyped
<1> HIDE DEF d, x
<1>7. /\ d.out = x /\ d.stopEmitted = TRUE /\ d.open = <<>> /\ d.status = c.status
      /\ d.messageStarted = c.messageStarted /\ d.nextIndex = c.nextIndex
      /\ DOMAIN d = ChatFields /\ IsClient(d)
  BY Zenon, <1>2, <1>4, <1>5 DEF IsClient, ChatFields
<1>8. d \in ChatClients
  <2>1. <<>> \in OneOrNone(BlockSet) /\ TRUE \in BOOLEAN
    BY Zenon DEF OneOrNone
  <2> QED BY Zenon, <1>1, <1>6, <1>7, <2>1, ChatMember
<1>9. BlocksOf(d.open) = {}
  BY Zenon, <1>7 DEF BlocksOf
<1>10. ChatRel(d, s2, ph, "stopped", {}, m, c.status, u)
  <2>1. s2.reason = s.reason /\ s.began /\ c.messageStarted /\ c.status = ChatStatus(s.reason)
        /\ (c.status = "completed" => Completed(s))
    BY Zenon DEF ChatOpen
  <2>2. Completed(s) => Completed(s2)
    BY DEF Completed, Calls
  <2> QED BY Zenon, <1>1, <1>7, <1>8, <1>9, <2>1, <2>2 DEF ChatRel, ChatStatus
<1>11. Tells(t, q, d.out, "stopped", {}, m, c.status, u)
  BY Zenon, <1>3, <1>7
<1> QED BY Zenon, <1>10, <1>11 DEF d

\* The first chunk begins the turn, if none did.
ChatBegun(t, q, c, s, m, status, v) ==
  /\ InChunk(t, q, Began(c), s) /\ s.usage = NoUsage /\ s.contents = m
  /\ Began(c).messageStarted = TRUE /\ Began(c).stopEmitted = FALSE
  /\ Began(c).status = c.status /\ DOMAIN Began(c) = ChatFields /\ IsClient(Began(c))
  /\ c.status = ChatStatus(s.reason) /\ (c.status = "completed" => Completed(s))
  /\ status = "unspecified" /\ v = NoUsage

LEMMA ChatBegins ==
  ASSUME NEW t, NEW q, NEW c, NEW s, SentOK(s), NEW ph, NEW state, NEW B, NEW m, NEW status, NEW v,
         Tells(t, q, c.out, state, B, m, status, v), ChatRel(c, s, ph, state, B, m, status, v),
         ~c.stopEmitted
  PROVE  ChatBegun(t, q, c, s, m, status, v)
<1>1. /\ IsClient(c) /\ DOMAIN c = ChatFields /\ c.messageStarted \in BOOLEAN
      /\ c.stopEmitted \in BOOLEAN
  BY Zenon, ChatParts DEF ChatRel
<1>2. /\ status = "unspecified" /\ v = NoUsage /\ s.usage = NoUsage /\ m = s.contents
      /\ c.nextIndex = Len(m) /\ LastOpen(c, s) /\ B = BlocksOf(c.open)
      /\ state = (IF c.messageStarted THEN "open" ELSE "new")
      /\ c.status = ChatStatus(s.reason) /\ (c.status = "completed" => Completed(s))
  BY Zenon DEF ChatRel, LastOpen, ChatStatus
<1>3. LastCall(s) \in Nat
  <2>1. NextCall(s) \in Nat /\ NextCall(s) >= 1
    BY CallsFacts DEF SentOK
  <2> QED BY <2>1 DEF LastCall
<1>4. OpenIs(c, m, LastCall(s))
  <2>1. CASE m = <<>>
    <3>1. s.contents = <<>>
      BY <1>2, <2>1
    <3>2. LastOpen(c, s)
      BY <1>2
    <3>3. c.open = <<>>
      BY <3>1, <3>2, Zenon DEF LastOpen
    <3> QED BY <3>3 DEF OpenIs
  <2>2. CASE m # <<>>
    BY <1>2, <2>2 DEF LastOpen, OpenIs
  <2> QED BY <2>1, <2>2
<1>5. /\ AtMostOne(t, q, Began(c), m, "unspecified", NoUsage)
      /\ Began(c).open = c.open /\ Began(c).messageStarted = TRUE
      /\ DOMAIN Began(c) = DOMAIN c
      /\ \A f \in DOMAIN c \ {"out", "messageStarted"} : Began(c)[f] = c[f]
  <2>1. "messageStarted" \in DOMAIN c
    BY <1>1 DEF ChatFields
  <2>2. Tells(t, q, c.out, state, BlocksOf(c.open), m, "unspecified", NoUsage)
    BY <1>2
  <2>3. HasBegun(t, q, c, m)
    BY <1>1, <1>2, <1>3, <1>4, <2>1, <2>2, BeganFacts
  <2> QED BY <2>3 DEF HasBegun
<1>6. "status" \in DOMAIN c \ {"out", "messageStarted"}
      /\ "stopEmitted" \in DOMAIN c \ {"out", "messageStarted"}
  BY <1>1 DEF ChatFields
<1>7. Began(c).status = c.status /\ Began(c).stopEmitted = FALSE
  BY <1>1, <1>5, <1>6
<1>8. InChunk(t, q, Began(c), s)
  BY <1>2, <1>5 DEF InChunk, LastOpen
<1> QED BY <1>1, <1>2, <1>5, <1>7, <1>8 DEF AtMostOne, ChatBegun

\* Where a client is, once its events are delivered.
ChatInStep(t, q, c, s, ph) ==
  \E state, B, m, status, v :
    Tells(t, q, c.out, state, B, m, status, v) /\ ChatRel(c, s, ph, state, B, m, status, v)

LEMMA InChunkStays ==
  ASSUME NEW t, NEW q, NEW c, NEW s, InChunk(t, q, c, s), NEW d, IsClient(d),
         d.open = c.open, d.nextIndex = c.nextIndex, d.out = c.out,
         NEW s2, SentOK(s2), s2.contents = s.contents
  PROVE  InChunk(t, q, d, s2)
<1>1. AtMostOne(t, q, d, s2.contents, "unspecified", NoUsage)
  BY DEF InChunk, AtMostOne
<1>2. Calls(s2) = Calls(s)
  BY DEF Calls
<1>3. LastCall(s2) = LastCall(s)
  BY <1>2 DEF LastCall, NextCall
<1>4. LastOpen(c, s)
  BY DEF InChunk
<1>5. LastOpen(d, s2)
  <2>1. CASE s.contents = <<>>
    BY <1>4, <2>1 DEF LastOpen
  <2>2. CASE s.contents # <<>>
    BY <1>3, <1>4, <2>2 DEF LastOpen
  <2> QED BY <2>1, <2>2
<1> QED BY <1>1, <1>5 DEF InChunk

\* What a chunk says, before its reason and its usage are looked at.
ChunkOf(s, chunk, s2) ==
  /\ chunk.reasoning \in Texts(s)
  /\ chunk.text \in Texts(Says(s, "reasoning", chunk.reasoning))
  /\ [tools |-> chunk.tools, sent |-> s2]
       \in ToolLists(Says(Says(s, "reasoning", chunk.reasoning), "text", chunk.text))

Chunked(t, q, c, s, chunk, s2) ==
  /\ InChunk(t, q, ChunkSteps(c, chunk), s2) /\ SameTurn(s, s2)
  /\ Rewritten(Began(c), ChunkSteps(c, chunk)) /\ Len(chunk.tools) \in {0, 1, 2}

LEMMA ChunkFacts ==
  ASSUME NEW t, NEW q, NEW c, NEW s, InChunk(t, q, Began(c), s),
         NEW chunk, NEW s2, ChunkOf(s, chunk, s2)
  PROVE  Chunked(t, q, c, s, chunk, s2)
<1> DEFINE b  == Began(c)
<1> DEFINE r  == chunk.reasoning
<1> DEFINE x  == chunk.text
<1> DEFINE k1 == "reasoning"
<1> DEFINE k2 == "text"
<1> DEFINE s3 == Says(s, k1, r)
<1> DEFINE s4 == Says(s3, k2, x)
<1> DEFINE c3 == TextStep(b, k1, r)
<1> DEFINE c4 == TextStep(c3, k2, x)
<1> DEFINE l  == [tools |-> chunk.tools, sent |-> s2]
<1>1. k1 \in TextKinds /\ k2 \in TextKinds
  BY DEF TextKinds
<1>2. l.tools = chunk.tools /\ l.sent = s2 /\ l \in ToolLists(s4) /\ r \in Texts(s) /\ x \in Texts(s3)
  BY DEF ChunkOf
<1>3. ChunkSteps(c, chunk) = CallSteps(c4, chunk.tools)
  BY DEF ChunkSteps
<1>4. InChunk(t, q, b, s) /\ IsClient(b)
  BY DEF InChunk, AtMostOne
<1> HIDE DEF l, k1, k2, r, x, b
<1>5. InChunk(t, q, c3, s3) /\ SameTurn(s, s3) /\ Rewritten(b, c3)
  BY <1>1, <1>2, <1>4, ChunkSays
<1> HIDE DEF s3, c3
<1>6. InChunk(t, q, c4, s4) /\ SameTurn(s3, s4) /\ Rewritten(c3, c4)
  BY <1>1, <1>2, <1>5, ChunkSays
<1> HIDE DEF s4, c4
<1>7. /\ InChunk(t, q, CallSteps(c4, l.tools), l.sent) /\ SameTurn(s4, l.sent)
      /\ Rewritten(c4, CallSteps(c4, l.tools)) /\ Len(l.tools) \in {0, 1, 2}
  BY <1>2, <1>6, ChunkCalls
<1> DEFINE c5 == CallSteps(c4, l.tools)
<1> HIDE DEF c5
<1>8. Rewritten(b, c5)
  <2>1. Rewritten(c4, c5)
    BY <1>7 DEF c5
  <2>2. Rewritten(b, c4)
    BY <1>4, <1>5, <1>6, RewrittenFacts
  <2> QED BY <1>4, <2>1, <2>2, RewrittenFacts
<1>9. SameTurn(s, s2)
  BY <1>2, <1>5, <1>6, <1>7 DEF SameTurn
<1>10. ChunkSteps(c, chunk) = c5
  BY <1>2, <1>3 DEF c5
<1>11. InChunk(t, q, c5, s2)
  BY <1>2, <1>7 DEF c5
<1>12. Len(chunk.tools) \in {0, 1, 2}
  BY <1>2, <1>7
<1> QED BY <1>8, <1>9, <1>10, <1>11, <1>12 DEF b, Chunked

LEMMA ChatStatusFacts ==
  ASSUME NEW reason
  PROVE  /\ ChatStatus(reason) \in Statuses
         /\ ChatStatus(reason) = "completed" => reason = "stop"
  BY Zenon DEF ChatStatus, Chat!StatusOf, Statuses

\* A client between two chunks, its last reason looked at.
LEMMA ChatJudges ==
  ASSUME NEW t, NEW q, NEW c, NEW d, NEW s, InChunk(t, q, d, s), NEW s2, NEW reason,
         IsClient(c), DOMAIN c = ChatFields, c.messageStarted = TRUE, c.stopEmitted = FALSE,
         c.status \in Statuses, Rewritten(c, d),
         SentOK(s2), s2.contents = s.contents, s2.began = TRUE, s2.usage = NoUsage,
         s2.reason = IF reason = "" THEN s.reason ELSE reason,
         c.status = ChatStatus(s.reason),
         c.status = "completed" => Completed(s), reason = "stop" => Calls(s) = {}
  PROVE  ChatOpen(t, q, Judged(d, reason), s2)
<1> DEFINE j == Judged(d, reason)
<1>1. /\ IsClient(d) /\ DOMAIN d = ChatFields /\ d.messageStarted = TRUE
      /\ d.stopEmitted = FALSE /\ d.status = c.status
  <2>1. "status" \in ChatFields \ {"open", "nextIndex", "out"}
        /\ "messageStarted" \in ChatFields \ {"open", "nextIndex", "out"}
        /\ "stopEmitted" \in ChatFields \ {"open", "nextIndex", "out"}
    BY Zenon DEF ChatFields
  <2>2. /\ IsClient(d) /\ DOMAIN d = DOMAIN c
        /\ \A f \in DOMAIN c \ {"open", "nextIndex", "out"} : d[f] = c[f]
    BY Zenon, RewrittenFacts
  <2> QED BY Zenon, <2>1, <2>2
<1>2. /\ IsClient(j) /\ DOMAIN j = ChatFields /\ j.messageStarted = TRUE
      /\ j.stopEmitted = FALSE /\ j.open = d.open /\ j.nextIndex = d.nextIndex /\ j.out = d.out
      /\ j.status = (IF reason = "" THEN c.status ELSE ChatStatus(reason))
  <2>1. CASE reason = ""
    BY Zenon, <1>1, <2>1 DEF Judged
  <2>2. CASE reason # ""
    <3> DEFINE st == Chat!StatusOf(reason)
    <3>1. j = [d EXCEPT !.status = st] /\ ChatStatus(reason) = st
      BY Zenon, <2>2 DEF ChatStatus, Judged
    <3> HIDE DEF st, j
    <3>2. /\ DOMAIN j = DOMAIN d /\ j.status = st /\ j = [x \in DOMAIN j |-> j[x]]
          /\ \A f \in DOMAIN d \ {"status"} : j[f] = d[f]
      BY Zenon, <1>1, <3>1 DEF ChatFields, IsClient
    <3>3. /\ "messageStarted" \in DOMAIN d \ {"status"} /\ "stopEmitted" \in DOMAIN d \ {"status"}
          /\ "open" \in DOMAIN d \ {"status"} /\ "nextIndex" \in DOMAIN d \ {"status"}
          /\ "out" \in DOMAIN d \ {"status"}
      BY Zenon, <1>1 DEF ChatFields
    <3> QED BY Zenon, <1>1, <2>2, <3>1, <3>2, <3>3 DEF IsClient
  <2> QED BY Zenon, <2>1, <2>2
<1> HIDE DEF j
<1>3. InChunk(t, q, j, s2)
  BY Zenon, <1>2, InChunkStays
<1>4. j \in ChatClients
  <2>1. j.open \in OneOrNone(BlockSet) /\ j.nextIndex \in Nat /\ j.out \in Seq(Proper)
    BY Zenon, <1>3, ClientTyped DEF InChunk
  <2>2. j.status \in Statuses /\ j.messageStarted \in BOOLEAN /\ j.stopEmitted \in BOOLEAN
    BY Zenon, <1>2, ChatStatusFacts
  <2> QED BY Zenon, <1>2, <2>1, <2>2, ChatMember
<1>5. j.status = ChatStatus(s2.reason)
  BY Zenon, <1>2
<1>6. j.status = "completed" => Completed(s2)
  <2>1. Calls(s2) = Calls(s)
    BY Zenon DEF Calls
  <2>2. CASE reason = ""
    BY Zenon, <1>2, <2>1, <2>2 DEF Completed
  <2>3. CASE reason # ""
    BY Zenon, <1>2, <2>1, <2>3, ChatStatusFacts DEF Completed
  <2> QED BY Zenon, <2>2, <2>3
<1> QED BY Zenon, <1>2, <1>3, <1>4, <1>5, <1>6 DEF ChatOpen, j

LEMMA ChatChunkStep ==
  ASSUME NEW t, NEW q, NEW c, NEW s, SentOK(s), ChatInStep(t, q, c, s, "reading"),
         s.reason = "", NEW chunk, NEW s1, ChunkOf(s, chunk, s1),
         NEW reason \in {""} \union AllReasons, chunk.reason = reason,
         reason = "stop" => Calls(s1) = {},
         NEW u, chunk.usage = u, u = NoUsage \/ (reason # "" /\ u = Usage(s1))
  PROVE  /\ SentOK(Turned(s1, TRUE, reason, u))
         /\ ChatInStep(t, q, Chat!Convert(c, chunk), Turned(s1, TRUE, reason, u), "reading")
<1> DEFINE b == Began(c)
<1> DEFINE d == ChunkSteps(c, chunk)
<1> DEFINE j == Judged(d, reason)
<1> DEFINE s2 == Turned(s1, TRUE, reason, u)
<1>1. c.stopEmitted \in BOOLEAN /\ ~c.stopEmitted /\ c.status \in Statuses
  BY Zenon, ChatParts DEF ChatInStep, ChatRel
<1>2. PICK state, B, m, status, v :
        Tells(t, q, c.out, state, B, m, status, v) /\ ChatRel(c, s, "reading", state, B, m, status, v)
  BY Zenon DEF ChatInStep
<1>3. /\ InChunk(t, q, b, s) /\ s.usage = NoUsage
      /\ b.messageStarted = TRUE /\ b.stopEmitted = FALSE /\ b.status = c.status
      /\ DOMAIN b = ChatFields /\ IsClient(b)
      /\ c.status = ChatStatus(s.reason) /\ (c.status = "completed" => Completed(s))
  <2> DEFINE ph == "reading"
  <2>1. ChatRel(c, s, ph, state, B, m, status, v)
    BY Zenon, <1>2
  <2> HIDE DEF ph
  <2>2. ChatBegun(t, q, c, s, m, status, v)
    BY Zenon, <1>1, <1>2, <2>1, ChatBegins
  <2> QED BY Zenon, <2>2 DEF ChatBegun
<1>4. /\ InChunk(t, q, d, s1) /\ SameTurn(s, s1) /\ Rewritten(b, d)
      /\ Len(chunk.tools) \in {0, 1, 2}
  <2>1. Chunked(t, q, c, s, chunk, s1)
    BY Zenon, <1>3, ChunkFacts
  <2> QED BY Zenon, <2>1 DEF Chunked
<1>5. SentOK(s1) /\ s1.reason = "" /\ s1.usage = NoUsage
  BY Zenon, <1>3, <1>4 DEF InChunk, SameTurn
<1>6. TRUE \in BOOLEAN
  BY Zenon
<1>7. Honest(s1, u) /\ Honest(s1, NoUsage) /\ u \in Usages
      /\ (u # NoUsage => reason # "")
  BY Zenon, <1>5, NoReport
<1> DEFINE s3 == Turned(s1, TRUE, reason, NoUsage)
<1>8. /\ SentOK(s3) /\ s3.contents = s1.contents /\ s3.began = TRUE /\ s3.reason = reason
      /\ s3.usage = NoUsage
  <2> DEFINE w == NoUsage
  <2>1. Honest(s1, w) /\ MergeUsage(w, w) = w /\ w = NoUsage
    BY Zenon, <1>7, NoReport, <1>5, MergeFacts
  <2> HIDE DEF w
  <2>2. HasTurned(s1, Turned(s1, TRUE, reason, w), TRUE, reason, w)
    BY Zenon, <1>5, <1>6, <2>1, TurnFacts
  <2> QED BY Zenon, <1>5, <2>1, <2>2 DEF HasTurned
<1>9. /\ SentOK(s2) /\ s2.contents = s1.contents /\ s2.began = TRUE /\ s2.reason = reason
      /\ s2.usage = u
  <2>1. HasTurned(s1, Turned(s1, TRUE, reason, u), TRUE, reason, u)
    BY Zenon, <1>5, <1>6, <1>7, TurnFacts
  <2>3. MergeUsage(NoUsage, u) = u
    BY Zenon, <1>7, MergeFacts
  <2> QED BY Zenon, <1>5, <2>1, <2>3 DEF HasTurned
<1>10. Chat!Convert(c, chunk) = IF u = NoUsage THEN j ELSE Stopped(j, u)
  <2>1. Few(chunk.tools)
    BY Zenon, <1>4 DEF Few
  <2>2. ConvertsTo(c, chunk, Judged(ChunkSteps(c, chunk), chunk.reason))
    BY Zenon, <2>1, ChatConverts
  <2> QED BY Zenon, <2>2 DEF ConvertsTo
<1>11. ChatOpen(t, q, j, s3)
  <2>2. b.status = "completed" => Completed(s1)
    BY Zenon, <1>3, ChatStatusFacts
  <2>3. b.status \in Statuses /\ b.status = ChatStatus(s1.reason)
    BY Zenon, <1>1, <1>3, <1>5
  <2>4. s3.reason = IF reason = "" THEN s1.reason ELSE reason
    BY Zenon, <1>5, <1>8
  <2> HIDE DEF j, s2, s3, b, d
  <2> QED BY Zenon, <1>3, <1>4, <1>6, <1>8, <2>2, <2>3, <2>4, ChatJudges DEF j
<1> HIDE DEF j, s2, s3, b, d
<1>12. CASE u = NoUsage
  <2>1. ChatOpen(t, q, j, s2)
    <3>1. InChunk(t, q, j, s2)
      <4>1. InChunk(t, q, j, s3) /\ IsClient(j)
        BY Zenon, <1>11 DEF ChatOpen, InChunk, AtMostOne
      <4> QED BY Zenon, <1>8, <1>9, <4>1, InChunkStays
    <3>2. Completed(s3) => Completed(s2)
      BY Zenon, <1>8, <1>9 DEF Completed, Calls
    <3> QED BY Zenon, <1>8, <1>9, <1>11, <1>12, <3>1, <3>2 DEF ChatOpen
  <2>2. Chat!Convert(c, chunk) = j
    BY Zenon, <1>10, <1>12
  <2> QED BY Zenon, <1>9, <2>1, <2>2, ChatOpenRel DEF ChatInStep, s2
<1>13. CASE u # NoUsage
  <2>1. s2.contents = s3.contents /\ s2.began = s3.began /\ s2.reason = s3.reason /\ s2.usage = u
    BY Zenon, <1>8, <1>9
  <2>2. "reading" = "reading" => s3.reason # "" /\ u # NoUsage
    BY Zenon, <1>7, <1>8, <1>13
  <2> DEFINE ph == "reading"
  <2>3. ph = "reading" => s3.reason # "" /\ u # NoUsage
    BY Zenon, <2>2
  <2> HIDE DEF ph
  <2>4. /\ Tells(t, q, Stopped(j, u).out, "stopped", {}, s3.contents, j.status, u)
        /\ ChatRel(Stopped(j, u), s2, ph, "stopped", {}, s3.contents, j.status, u)
    BY Zenon, <1>7, <1>11, <2>1, <2>3, ChatStops
  <2>5. Chat!Convert(c, chunk) = Stopped(j, u)
    BY Zenon, <1>10, <1>13
  <2>6. ph = "reading"
    BY Zenon DEF ph
  <2> QED BY Zenon, <1>9, <2>4, <2>5, <2>6 DEF ChatInStep, s2
<1> QED BY Zenon, <1>9, <1>12, <1>13 DEF s2

LEMMA ChatStopped ==
  ASSUME NEW t, NEW q, NEW c, NEW s, ChatOpen(t, q, c, s), NEW u \in Usages, NEW s2,
         s2.contents = s.contents, s2.began = s.began, s2.reason = s.reason, s2.usage = u,
         NEW ph, ph = "reading" => s.reason # "" /\ u # NoUsage
  PROVE  ChatInStep(t, q, Stopped(c, u), s2, ph)
BY Zenon, ChatStops DEF ChatInStep

\* A client that is open needs no chunk to be so.
LEMMA ChatIsOpen ==
  ASSUME NEW t, NEW q, NEW c, NEW s, SentOK(s), NEW ph, NEW state, NEW B, NEW m, NEW status, NEW v,
         Tells(t, q, c.out, state, B, m, status, v), ChatRel(c, s, ph, state, B, m, status, v),
         ~c.stopEmitted, s.began
  PROVE  ChatOpen(t, q, c, s) /\ s.contents = m
<1>1. c \in ChatClients /\ c.messageStarted = s.began
  BY Zenon DEF ChatRel
<1>2. ChatBegun(t, q, c, s, m, status, v)
  BY ChatBegins
<1>3. Began(c) = c
  BY <1>1 DEF Began
<1> QED BY <1>1, <1>2, <1>3 DEF ChatBegun, ChatOpen

LEMMA ChatUsageStep ==
  ASSUME NEW t, NEW q, NEW c, NEW s, SentOK(s), NEW ph, ph = "reading", ChatInStep(t, q, c, s, ph),
         s.reason # "", s.usage = NoUsage,
         NEW chunk, chunk = [reasoning |-> <<>>, text |-> <<>>, tools |-> <<>>,
                             reason |-> "", usage |-> Usage(s)]
  PROVE  /\ SentOK(Reports(s, Usage(s)))
         /\ ChatInStep(t, q, Chat!Convert(c, chunk), Reports(s, Usage(s)), ph)
<1> DEFINE u == Usage(s)
<1> DEFINE s2 == Reports(s, u)
<1>1. PICK state, B, m, status, v :
        Tells(t, q, c.out, state, B, m, status, v) /\ ChatRel(c, s, ph, state, B, m, status, v)
  BY Zenon DEF ChatInStep
<1>2. s.began /\ ~c.stopEmitted /\ c.messageStarted = TRUE
  BY Zenon, <1>1, ChatParts DEF ChatRel
<1>3. ChatOpen(t, q, c, s)
  BY Zenon, <1>1, <1>2, ChatIsOpen
<1>4. Began(c) = c
  BY Zenon, <1>2 DEF Began
<1>5. Honest(s, u) /\ u \in Usages /\ u # NoUsage /\ MergeUsage(NoUsage, u) = u
  BY Zenon, NoReport, MergeFacts
<1>6. /\ SentOK(s2) /\ s2.contents = s.contents /\ s2.began = s.began /\ s2.reason = s.reason
      /\ s2.usage = u
  <2> HIDE DEF u
  <2> QED BY Zenon, <1>5, ReportsFacts
<1>7. /\ chunk.reasoning = <<>> /\ chunk.text = <<>> /\ chunk.tools = <<>>
      /\ chunk.reason = "" /\ chunk.usage = u
  BY Zenon
<1>8. ConvertsTo(c, chunk, c)
  <2>1. ChunkSteps(c, chunk) = c
    <3>1. TextStep(c, "reasoning", <<>>) = c /\ TextStep(c, "text", <<>>) = c
      BY Zenon DEF TextStep
    <3>2. CallSteps(c, <<>>) = c
      BY Zenon DEF CallSteps
    <3> QED BY Zenon, <1>4, <1>7, <3>1, <3>2 DEF ChunkSteps
  <2>2. Judged(c, chunk.reason) = c
    BY Zenon, <1>7 DEF Judged
  <2>3. Few(chunk.tools)
    BY Zenon, <1>7 DEF Few
  <2>4. ConvertsTo(c, chunk, Judged(ChunkSteps(c, chunk), chunk.reason))
    BY Zenon, <2>3, ChatConverts
  <2> QED BY Zenon, <2>1, <2>2, <2>4
<1>9. Chat!Convert(c, chunk) = Stopped(c, u)
  BY Zenon, <1>5, <1>7, <1>8 DEF ConvertsTo
<1> HIDE DEF u, s2
<1>10. ph = "reading" => s.reason # "" /\ u # NoUsage
  BY Zenon, <1>5
<1>11. /\ Tells(t, q, Stopped(c, u).out, "stopped", {}, s.contents, c.status, u)
       /\ ChatRel(Stopped(c, u), s2, ph, "stopped", {}, s.contents, c.status, u)
  BY Zenon, <1>3, <1>5, <1>6, <1>10, ChatStops
<1>12. ChatInStep(t, q, Chat!Convert(c, chunk), s2, ph)
  BY Zenon, <1>9, <1>11 DEF ChatInStep
<1> QED BY Zenon, <1>6, <1>12 DEF s2, u

\* The turn is ended if the provider did not.
LEMMA ChatFinishStep ==
  ASSUME NEW t, NEW q, NEW c, NEW s, SentOK(s), NEW ph, ph = "drained",
         ChatInStep(t, q, c, s, "reading")
  PROVE  ChatInStep(t, q, Chat!Finish(c), s, ph)
<1>1. PICK state, B, m, status, v :
        /\ Tells(t, q, c.out, state, B, m, status, v)
        /\ ChatRel(c, s, "reading", state, B, m, status, v)
  BY DEF ChatInStep
<1>2. /\ c.messageStarted \in BOOLEAN /\ c.stopEmitted \in BOOLEAN
      /\ c.messageStarted = s.began /\ s.began \in BOOLEAN
  BY Zenon, <1>1, ChatParts DEF ChatRel, SentOK, SentSet
<1>3. CASE ~c.messageStarted \/ c.stopEmitted
  <2>1. Chat!Finish(c) = c
    BY <1>3 DEF Chat!Finish
  <2>2. ChatRel(c, s, ph, state, B, m, status, v)
    BY Zenon, <1>1, <1>2, <1>3 DEF ChatRel
  <2> QED BY <1>1, <2>1, <2>2 DEF ChatInStep
<1>4. CASE ~(~c.messageStarted \/ c.stopEmitted)
  <2>1. ChatOpen(t, q, c, s) /\ s.usage = NoUsage
    <3> DEFINE k == "reading"
    <3>1. ChatRel(c, s, k, state, B, m, status, v)
      BY <1>1
    <3> HIDE DEF k
    <3>2. ChatOpen(t, q, c, s)
      BY <1>1, <1>2, <1>4, <3>1, ChatIsOpen
    <3> QED BY <3>2 DEF ChatOpen
  <2> DEFINE u == NoUsage
  <2>2. Chat!Finish(c) = Stopped(c, u)
    <3>1. Chat!StopMessage(c, u) = Stopped(c, u)
      BY ChatSteps
    <3>2. Chat!NoUsage = u
      BY DEF Chat!NoUsage, NoUsage
    <3> QED BY <1>4, <3>1, <3>2 DEF Chat!Finish
  <2>3. u \in Usages /\ s.usage = u
    BY <2>1, NoReport
  <2> HIDE DEF u
  <2>4. /\ s.contents = s.contents /\ s.began = s.began /\ s.reason = s.reason
        /\ (ph = "reading" => s.reason # "" /\ u # NoUsage)
    OBVIOUS
  <2>5. ChatInStep(t, q, Stopped(c, u), s, ph)
    BY Zenon, <2>1, <2>3, <2>4, ChatStopped
  <2> QED BY <2>2, <2>5
<1> QED BY <1>3, <1>4

-----------------------------------------------------------------------------
(* Google                                                                  *)

GoogleClients == [messageStarted : BOOLEAN, nextIndex : Nat, open : OneOrNone(BlockSet),
                  lastUsage : Usages, out : Seq(Proper)]

GoogleRel(c, s, ph, state, B, m, status, v) ==
  /\ c \in GoogleClients
  /\ m = s.contents
  /\ B = BlocksOf(c.open)
  /\ (state = "new") = ~c.messageStarted
  /\ state = "new" => m = <<>>
  /\ state # "stopped" =>
       /\ status = "unspecified" /\ v = NoUsage
       /\ c.nextIndex = Len(m)
       /\ c.open = IF m = <<>> THEN <<>>
                   ELSE IF m[Len(m)].kind = "tool" THEN <<>> ELSE <<LastBlock(m, 0)>>
  /\ state = "stopped" => c.open = <<>> /\ s.reason # "" /\ v = c.lastUsage
  /\ s.reason = "" => c.lastUsage = s.usage
  /\ "bare_stop" \notin Quirks =>
       c.lastUsage = s.usage /\ (s.reason # "" => state = "stopped")
  /\ "late_stop" \notin Quirks => (status = "completed" => Completed(s))

LEMMA GoogleBlocks ==
  ASSUME NEW c, NEW kind, NEW call, NEW id, NEW text
  PROVE  /\ Google!WriteDelta(c, kind, text) = WriteDelta(c, kind, text)
         /\ Google!StartBlock(c, kind, call, id) = StartBlock(c, kind, call, id)
         /\ Google!OpenBlock(c, kind, call, id) = OpenBlock(c, kind, call, id)
         /\ Google!CloseOpenBlock(c) = CloseOpenBlock(c)
<1>1. Google!CloseOpenBlock(c) = CloseOpenBlock(c)
  BY DEF Google!CloseOpenBlock, CloseOpenBlock, Google!Emit, Emit, Google!ContentStop, ContentStop,
         Google!Blank, Blank, Google!NoUsage, NoUsage, Google!NoItem, NoItem
<1>2. Google!WriteDelta(c, kind, text) = WriteDelta(c, kind, text)
  BY DEF Google!WriteDelta, WriteDelta, Google!Emit, Emit, Google!ContentDelta, ContentDelta,
         Google!Blank, Blank, Google!NoUsage, NoUsage, Google!NoItem, NoItem
<1>3. ASSUME NEW d PROVE Google!StartBlock(d, kind, call, id) = StartBlock(d, kind, call, id)
  BY DEF Google!StartBlock, StartBlock, Google!Emit, Emit, Google!ContentStart, ContentStart,
         Google!Blank, Blank, Google!NoUsage, NoUsage, Google!NoItem, NoItem
<1>4. Google!OpenBlock(c, kind, call, id) = OpenBlock(c, kind, call, id)
  BY <1>1, <1>3 DEF Google!OpenBlock, OpenBlock
<1> QED BY <1>1, <1>2, <1>3, <1>4

LEMMA GoogleSteps ==
  ASSUME NEW c
  PROVE  /\ Google!StartMessage(c) = Began(c)
         /\ \A p : Google!ConvertPart(c, p) = PartStep(c, p)
<1>1. Google!StartMessage(c) = Began(c)
  BY DEF Google!StartMessage, Began, Google!Emit, Emit, Google!MessageStart, MessageStart,
         Google!Blank, Blank, Google!NoUsage, NoUsage, Google!NoItem, NoItem
<1>2. ASSUME NEW p PROVE Google!ConvertPart(c, p) = PartStep(c, p)
  <2> DEFINE a == CloseOpenBlock(c)
  <2> DEFINE b == StartBlock(a, "tool", 0, p.id)
  <2> DEFINE e == WriteDelta(b, "tool", p.text)
  <2> DEFINE f == WriteDelta(e, "signature", p.signature)
  <2> DEFINE o == OpenBlock(c, p.kind, 0, 0)
  <2> DEFINE w == WriteDelta(o, "text", p.text)
  <2> DEFINE x == WriteDelta(w, "signature", p.signature)
  <2>1. Google!CloseOpenBlock(c) = a
    BY GoogleBlocks
  <2>2. Google!OpenBlock(c, p.kind, 0, 0) = o
    BY GoogleBlocks
  <2> HIDE DEF a, o
  <2>3. Google!StartBlock(a, "tool", 0, p.id) = b
    BY GoogleBlocks
  <2>4. Google!WriteDelta(o, "text", p.text) = w
    BY GoogleBlocks
  <2> HIDE DEF b, w
  <2>5. Google!WriteDelta(b, "tool", p.text) = e
    BY GoogleBlocks
  <2>6. Google!WriteDelta(w, "signature", p.signature) = x
    BY GoogleBlocks
  <2> HIDE DEF e, x
  <2>7. Google!WriteDelta(e, "signature", p.signature) = f
    BY GoogleBlocks
  <2> HIDE DEF f
  <2>8. Google!CloseOpenBlock(f) = CloseOpenBlock(f)
    BY GoogleBlocks
  <2>9. CASE p.kind = "tool"
    <3>1. Google!ConvertPart(c, p) = CloseOpenBlock(f)
      BY <2>1, <2>3, <2>5, <2>7, <2>8, <2>9 DEF Google!ConvertPart
    <3>2. PartStep(c, p) = CloseOpenBlock(f)
      BY <2>9 DEF PartStep, f, e, b, a
    <3> QED BY <3>1, <3>2
  <2>10. CASE p.kind # "tool"
    <3>1. Google!ConvertPart(c, p) = IF p.text = <<>> THEN c ELSE x
      BY <2>2, <2>4, <2>6, <2>10 DEF Google!ConvertPart
    <3>2. PartStep(c, p) = IF p.text = <<>> THEN c ELSE x
      BY <2>10 DEF PartStep, x, w, o
    <3> QED BY <3>1, <3>2
  <2> QED BY <2>9, <2>10
<1> QED BY <1>1, <1>2

LEMMA GoogleLoop ==
  ASSUME NEW c, NEW s, Few(s)
  PROVE  Google!Loop(Google!ConvertPart, c, s) = PartSteps(c, s)
<1> DEFINE f == [n \in 0..Len(s) |-> IF n = 0 THEN c
                                     ELSE IF n = 1 THEN Google!ConvertPart(c, s[1])
                                     ELSE Google!ConvertPart(Google!ConvertPart(c, s[1]), s[2])]
<1> DEFINE Is(g) == g = [n \in 0..Len(s) |-> IF n = 0 THEN c
                                             ELSE Google!ConvertPart(g[n - 1], s[n])]
<1> DEFINE g == CHOOSE g : Is(g)
<1>0. Len(s) \in {0, 1, 2}
  BY DEF Few
<1>1. Is(f)
  BY <1>0
<1>2. Is(g)
  BY <1>1
<1>3. Google!Loop(Google!ConvertPart, c, s) = g[Len(s)]
  BY DEF Google!Loop
<1> HIDE DEF g
<1>4. Google!Loop(Google!ConvertPart, c, s) =
        IF Len(s) = 0 THEN c
        ELSE IF Len(s) = 1 THEN Google!ConvertPart(c, s[1])
        ELSE Google!ConvertPart(Google!ConvertPart(c, s[1]), s[2])
  <2>1. CASE Len(s) = 0
    BY <1>2, <1>3, <2>1
  <2>2. CASE Len(s) = 1
    <3>1. g[0] = c /\ g[1] = Google!ConvertPart(g[0], s[1])
      BY <1>2, <2>2
    <3> QED BY <1>3, <2>2, <3>1
  <2>3. CASE Len(s) = 2
    <3>1. /\ g[0] = c /\ g[1] = Google!ConvertPart(g[0], s[1])
          /\ g[2] = Google!ConvertPart(g[1], s[2])
      BY <1>2, <2>3
    <3> QED BY <1>3, <2>3, <3>1
  <2> QED BY <1>0, <2>1, <2>2, <2>3
<1> QED BY <1>0, <1>4, GoogleSteps DEF PartSteps

GoogleFields == {"messageStarted", "nextIndex", "open", "lastUsage", "out"}

LEMMA GoogleMember ==
  ASSUME NEW d, IsClient(d), DOMAIN d = GoogleFields, d.messageStarted \in BOOLEAN,
         d.lastUsage \in Usages,
         d.nextIndex \in Nat, d.open \in OneOrNone(BlockSet), d.out \in Seq(Proper)
  PROVE  d \in GoogleClients
<1> DEFINE r == [messageStarted |-> d.messageStarted, nextIndex |-> d.nextIndex,
                 open |-> d.open, lastUsage |-> d.lastUsage, out |-> d.out]
<1>1. d = r
  BY DEF IsClient, GoogleFields
<1>2. r \in GoogleClients
  BY DEF GoogleClients
<1> HIDE DEF r
<1> QED BY <1>1, <1>2

LEMMA GoogleParts ==
  ASSUME NEW c \in GoogleClients
  PROVE  /\ IsClient(c) /\ DOMAIN c = GoogleFields
         /\ c.messageStarted \in BOOLEAN /\ c.lastUsage \in Usages
         /\ c.nextIndex \in Nat /\ c.open \in OneOrNone(BlockSet) /\ c.out \in Seq(Proper)
<1>1. c = [x \in DOMAIN c |-> c[x]]
  BY DEF GoogleClients
<1>2. DOMAIN c = GoogleFields
  BY DEF GoogleClients, GoogleFields
<1>3. /\ c.messageStarted \in BOOLEAN /\ c.lastUsage \in Usages
      /\ c.nextIndex \in Nat /\ c.open \in OneOrNone(BlockSet) /\ c.out \in Seq(Proper)
  BY DEF GoogleClients
<1>4. {"open", "nextIndex", "out"} \subseteq GoogleFields
  BY DEF GoogleFields
<1> QED BY <1>2, <1>3, <1>4, Zenon, <1>1 DEF IsClient

\* Where a client is, once its events are delivered.
GoogleInStep(t, q, c, s, ph) ==
  \E state, B, m, status, v :
    Tells(t, q, c.out, state, B, m, status, v) /\ GoogleRel(c, s, ph, state, B, m, status, v)

\* A turn that has begun and is not ended yet.
GoogleOpen(t, q, c, s) ==
  /\ c \in GoogleClients /\ InResponse(t, q, c, s)
  /\ c.messageStarted = TRUE /\ c.lastUsage = s.usage

LEMMA GoogleOpenRel ==
  ASSUME NEW t, NEW q, NEW c, NEW s, GoogleOpen(t, q, c, s), NEW ph, s.reason = ""
  PROVE  GoogleInStep(t, q, c, s, ph)
<1>1. AtMostOne(t, q, c, s.contents, "unspecified", NoUsage) /\ c \in GoogleClients
  BY Zenon DEF GoogleOpen, InResponse
<1>2. /\ Tells(t, q, c.out, "open", BlocksOf(c.open), s.contents, "unspecified", NoUsage)
      /\ c.nextIndex = Len(s.contents)
  BY Zenon, <1>1 DEF AtMostOne
<1>3. /\ (s.contents = <<>> => c.open = <<>>)
      /\ s.contents # <<>> => c.open = IF s.contents[Len(s.contents)].kind = "tool" THEN <<>>
                                       ELSE <<LastBlock(s.contents, 0)>>
  BY Zenon DEF GoogleOpen, InResponse
<1>4. c.open = IF s.contents = <<>> THEN <<>>
               ELSE IF s.contents[Len(s.contents)].kind = "tool" THEN <<>>
               ELSE <<LastBlock(s.contents, 0)>>
  BY Zenon, <1>3
<1>5. GoogleRel(c, s, ph, "open", BlocksOf(c.open), s.contents, "unspecified", NoUsage)
  BY Zenon, <1>1, <1>2, <1>4 DEF GoogleRel, GoogleOpen
<1> QED BY Zenon, <1>2, <1>5 DEF GoogleInStep

\* The end of the turn, at the usage reported last.
GoogleEnded(c, status) == Emit(CloseOpenBlock(c), MessageStop(status, c.lastUsage))

LEMMA GoogleStops ==
  ASSUME NEW t, NEW q, NEW c, NEW s, GoogleOpen(t, q, c, s), NEW ph, NEW status \in Statuses,
         NEW s2, s2.contents = s.contents, s2.reason # "", s2.usage = s.usage,
         "late_stop" \notin Quirks => (status = "completed" => Completed(s2))
  PROVE  GoogleInStep(t, q, GoogleEnded(c, status), s2, ph)
<1> DEFINE m == s.contents
<1> DEFINE a == CloseOpenBlock(c)
<1> DEFINE u == c.lastUsage
<1> DEFINE d == GoogleEnded(c, status)
<1> DEFINE x == Append(a.out, MessageStop(status, u))
<1>1. /\ AtMostOne(t, q, c, m, "unspecified", NoUsage) /\ IsClient(c) /\ c \in GoogleClients
      /\ DOMAIN c = GoogleFields /\ c.messageStarted = TRUE /\ u \in Usages
  BY Zenon, GoogleParts DEF GoogleOpen, InResponse
<1>2. a.open = <<>> /\ Rewritten(c, a) /\ a.nextIndex = c.nextIndex
  BY Zenon, <1>1, CloseFacts, CloseRewrites
<1> HIDE DEF u
<1>3. Tells(t, q, x, "stopped", {}, m, status, u)
  BY Zenon, <1>1, EndsTurn
<1> HIDE DEF a
<1>4. /\ IsClient(a) /\ DOMAIN a = GoogleFields /\ a.lastUsage = u /\ a.messageStarted = TRUE
  <2>1. "lastUsage" \in GoogleFields \ {"open", "nextIndex", "out"}
        /\ "messageStarted" \in GoogleFields \ {"open", "nextIndex", "out"}
    BY Zenon DEF GoogleFields
  <2>3. /\ IsClient(a) /\ DOMAIN a = DOMAIN c
        /\ \A f \in DOMAIN c \ {"open", "nextIndex", "out"} : a[f] = c[f]
    BY Zenon, <1>1, <1>2, RewrittenFacts
  <2> QED BY Zenon, <1>1, <2>1, <2>3 DEF u
<1>5. d = [a EXCEPT !.out = x]
  BY Zenon DEF GoogleEnded, Emit, a, u
<1>6. x \in Seq(Proper) /\ c.nextIndex \in Nat
  BY Zenon, <1>1, <1>3, TellsFacts, ClientTyped
<1> HIDE DEF d, x
<1>7. /\ d.out = x /\ d.open = <<>> /\ d.lastUsage = u
      /\ d.messageStarted = TRUE /\ d.nextIndex = c.nextIndex
      /\ DOMAIN d = GoogleFields /\ IsClient(d)
  BY Zenon, <1>2, <1>4, <1>5 DEF IsClient, GoogleFields
<1>8. d \in GoogleClients
  <2>1. <<>> \in OneOrNone(BlockSet) /\ TRUE \in BOOLEAN
    BY Zenon DEF OneOrNone
  <2> QED BY Zenon, <1>1, <1>6, <1>7, <2>1, GoogleMember
<1>9. BlocksOf(d.open) = {}
  BY Zenon, <1>7 DEF BlocksOf
<1>10. GoogleRel(d, s2, ph, "stopped", {}, m, status, u)
  <2>1. u = s.usage
    BY Zenon DEF GoogleOpen, u
  <2> QED BY Zenon, <1>1, <1>7, <1>8, <1>9, <2>1 DEF GoogleRel
<1>11. Tells(t, q, d.out, "stopped", {}, m, status, u)
  BY Zenon, <1>3, <1>7
<1>12. GoogleInStep(t, q, d, s2, ph)
  BY Zenon, <1>10, <1>11 DEF GoogleInStep
<1> QED BY Zenon, <1>12 DEF d

\* The last content of a response's message, and where the client is.
GoogleBegun(t, q, c, s) ==
  /\ InResponse(t, q, Began(c), s) /\ Began(c).messageStarted = TRUE
  /\ Began(c).lastUsage = s.usage /\ DOMAIN Began(c) = GoogleFields

LEMMA GoogleBegins ==
  ASSUME NEW t, NEW q, NEW c, NEW s, SentOK(s), NEW ph, GoogleInStep(t, q, c, s, ph), s.reason = ""
  PROVE  GoogleBegun(t, q, c, s)
<1>1. PICK state, B, m, status, v :
        Tells(t, q, c.out, state, B, m, status, v) /\ GoogleRel(c, s, ph, state, B, m, status, v)
  BY Zenon DEF GoogleInStep
<1>2. /\ c \in GoogleClients /\ m = s.contents /\ B = BlocksOf(c.open)
      /\ (state = "new") = ~c.messageStarted /\ state # "stopped"
      /\ status = "unspecified" /\ v = NoUsage /\ c.nextIndex = Len(m)
      /\ c.open = (IF m = <<>> THEN <<>>
                   ELSE IF m[Len(m)].kind = "tool" THEN <<>> ELSE <<LastBlock(m, 0)>>)
      /\ c.lastUsage = s.usage
  BY Zenon, <1>1 DEF GoogleRel
<1>3. /\ IsClient(c) /\ DOMAIN c = GoogleFields /\ c.messageStarted \in BOOLEAN
  BY Zenon, <1>2, GoogleParts
<1>4. state = IF c.messageStarted THEN "open" ELSE "new"
  <2>1. state \in {"new", "open", "stopped"}
    BY Zenon, <1>1, TellsFacts
  <2>2. CASE c.messageStarted
    BY Zenon, <1>2, <2>1, <2>2
  <2>3. CASE ~c.messageStarted
    BY Zenon, <1>2, <2>3
  <2> QED BY Zenon, <1>3, <2>2, <2>3
<1>5. OpenIs(c, m, 0)
  BY Zenon, <1>2 DEF OpenIs
<1>6. HasBegun(t, q, c, m)
  <2> DEFINE k == 0
  <2>1. k \in Nat /\ OpenIs(c, m, k)
    BY Zenon, <1>5
  <2>2. "messageStarted" \in DOMAIN c
    BY Zenon, <1>3 DEF GoogleFields
  <2>3. Tells(t, q, c.out, state, BlocksOf(c.open), m, "unspecified", NoUsage)
    BY Zenon, <1>1, <1>2
  <2> HIDE DEF k
  <2> QED BY Zenon, <1>2, <1>3, <1>4, <2>1, <2>2, <2>3, BeganFacts
<1>7. "lastUsage" \in DOMAIN c \ {"out", "messageStarted"}
  BY Zenon, <1>3 DEF GoogleFields
<1>8. /\ AtMostOne(t, q, Began(c), m, "unspecified", NoUsage)
      /\ Began(c).open = c.open /\ Began(c).messageStarted = TRUE
      /\ DOMAIN Began(c) = DOMAIN c /\ Began(c).lastUsage = c.lastUsage
  BY Zenon, <1>6, <1>7 DEF HasBegun
<1>9. InResponse(t, q, Began(c), s)
  <2>1. CASE m = <<>>
    BY Zenon, <1>2, <1>8, <2>1 DEF InResponse
  <2>2. CASE m # <<>>
    BY Zenon, <1>2, <1>8, <2>2 DEF InResponse
  <2> QED BY Zenon, <2>1, <2>2
<1> QED BY Zenon, <1>2, <1>3, <1>8, <1>9 DEF GoogleBegun

GoogleReported(d, u) == IF u = NoUsage THEN d ELSE [d EXCEPT !.lastUsage = u]

\* The response r, with a content, is converted by these steps.
GoogleConverts(c, r) ==
  LET d == GoogleReported(PartSteps(Began(c), r.parts), r.usage) IN
    IF r.reason = "" THEN d ELSE GoogleEnded(d, Google!StatusOf(r.reason, r.parts))

LEMMA GoogleConvert ==
  ASSUME NEW c, NEW r, Few(r.parts), r.hasContent = TRUE
  PROVE  Google!Convert(c, r) = GoogleConverts(c, r)
<1> DEFINE said == Google!Loop(Google!ConvertPart, Google!StartMessage(c), r.parts)
<1> DEFINE d == Google!Report(said, r.usage)
<1> DEFINE e == GoogleReported(PartSteps(Began(c), r.parts), r.usage)
<1> DEFINE st == Google!StatusOf(r.reason, r.parts)
<1>1. said = PartSteps(Began(c), r.parts)
  <2>1. Google!StartMessage(c) = Began(c)
    BY GoogleSteps
  <2> QED BY <2>1, GoogleLoop
<1>2. Google!Convert(c, r) = IF r.reason = "" THEN d
                             ELSE Google!Emit(Google!CloseOpenBlock(d),
                                              Google!MessageStop(st, d.lastUsage))
  BY Zenon DEF Google!Convert
<1> HIDE DEF said
<1>3. d = e
  <2>1. Google!NoUsage = NoUsage
    BY DEF Google!NoUsage, NoUsage
  <2>2. CASE r.usage = NoUsage
    BY <1>1, <2>1, <2>2 DEF Google!Report, GoogleReported
  <2>3. CASE r.usage # NoUsage
    BY <1>1, <2>1, <2>3 DEF Google!Report, GoogleReported
  <2> QED BY <2>2, <2>3
<1> HIDE DEF d, e, st
<1>4. Google!Emit(Google!CloseOpenBlock(e), Google!MessageStop(st, e.lastUsage)) = GoogleEnded(e, st)
  <2>1. Google!CloseOpenBlock(e) = CloseOpenBlock(e)
    BY GoogleBlocks
  <2>2. Google!MessageStop(st, e.lastUsage) = MessageStop(st, e.lastUsage)
    BY DEF Google!MessageStop, MessageStop, Google!Blank, Blank, Google!NoUsage, NoUsage,
           Google!NoItem, NoItem
  <2> QED BY <2>1, <2>2 DEF Google!Emit, Emit, GoogleEnded
<1>5. Google!Convert(c, r) = IF r.reason = "" THEN e ELSE GoogleEnded(e, st)
  BY Zenon, <1>2, <1>3, <1>4
<1> QED BY Zenon, <1>5 DEF GoogleConverts, e, st

LEMMA GoogleStatusFacts ==
  ASSUME NEW reason, NEW parts
  PROVE  /\ Google!StatusOf(reason, parts) \in Statuses
         /\ Google!StatusOf(reason, parts) = "completed" =>
              /\ reason = "stop"
              /\ \A k \in DOMAIN parts : parts[k].kind # "tool"
  BY DEF Google!StatusOf, Statuses

\* The report u of the provider makes the usage of the turn v.
ReportedAs(s, u, v) == Honest(s, u) /\ u \in Usages /\ MergeUsage(s.usage, u) = v

LEMMA NoReportFacts ==
  ASSUME NEW s, SentOK(s)
  PROVE  ReportedAs(s, NoUsage, s.usage) /\ ReportedAs(s, Usage(s), Usage(s))
<1>1. s.usage \in Usages
  BY Zenon DEF SentOK, SentSet
<1>2. ReportedAs(s, NoUsage, s.usage)
  BY <1>1, NoReport, MergeFacts DEF ReportedAs
<1>3. ReportedAs(s, Usage(s), Usage(s))
  BY NoReport DEF ReportedAs
<1> QED BY <1>2, <1>3

LEMMA GoogleResponseStep ==
  ASSUME NEW t, NEW q, NEW c, NEW s, SentOK(s), NEW ph, GoogleInStep(t, q, c, s, ph),
         s.reason = "", NEW r, r.hasContent = TRUE, NEW l \in PartLists(s), r.parts = l.parts,
         NEW reason \in {""} \union AllReasons, r.reason = reason,
         NEW u, r.usage = u, u = NoUsage \/ u = Usage(l.sent),
         Google!StatusOf(reason, l.parts) = "completed" /\ "late_stop" \notin Quirks
           => Calls(l.sent) = {}
  PROVE  /\ SentOK(Turned(l.sent, TRUE, reason, u))
         /\ GoogleInStep(t, q, Google!Convert(c, r), Turned(l.sent, TRUE, reason, u), ph)
<1> DEFINE b == Began(c)
<1> DEFINE d == PartSteps(b, l.parts)
<1> DEFINE e == GoogleReported(d, u)
<1> DEFINE s1 == l.sent
<1> DEFINE s2 == Turned(s1, TRUE, reason, u)
<1> DEFINE st == Google!StatusOf(reason, l.parts)
<1>1. /\ InResponse(t, q, b, s) /\ b.messageStarted = TRUE /\ b.lastUsage = s.usage
      /\ DOMAIN b = GoogleFields /\ IsClient(b)
  <2>1. GoogleBegun(t, q, c, s)
    BY Zenon, GoogleBegins
  <2> QED BY Zenon, <2>1 DEF GoogleBegun, InResponse, AtMostOne
<1> HIDE DEF b
<1>2. /\ InResponse(t, q, d, s1) /\ SameTurn(s, s1) /\ Rewritten(b, d) /\ Len(l.parts) \in {0, 1, 2}
  BY Zenon, <1>1, ResponseParts
<1>3. SentOK(s1) /\ s1.usage = s.usage /\ s1.reason = ""
  BY Zenon, <1>2 DEF InResponse, SameTurn
<1>4. Honest(s1, u) /\ u \in Usages /\ MergeUsage(s1.usage, u) = (IF u = NoUsage THEN s1.usage ELSE u)
  <2>1. ReportedAs(s1, NoUsage, s1.usage) /\ ReportedAs(s1, Usage(s1), Usage(s1))
    <3> HIDE DEF s1
    <3> QED BY Zenon, <1>3, NoReportFacts
  <2>2. u = NoUsage \/ u = Usage(s1)
    BY Zenon DEF s1
  <2> HIDE DEF s1
  <2>3. CASE u = NoUsage
    BY Zenon, <2>1, <2>3 DEF ReportedAs
  <2>4. CASE u # NoUsage
    BY Zenon, <2>1, <2>2, <2>4 DEF ReportedAs
  <2> QED BY Zenon, <2>3, <2>4
<1>5. /\ SentOK(s2) /\ s2.contents = s1.contents /\ s2.began = TRUE /\ s2.reason = reason
      /\ s2.usage = IF u = NoUsage THEN s1.usage ELSE u
  <2> HIDE DEF s1
  <2>1. HasTurned(s1, Turned(s1, TRUE, reason, u), TRUE, reason, u)
    BY Zenon, <1>3, <1>4, TurnFacts
  <2> QED BY Zenon, <1>4, <2>1 DEF HasTurned
<1>6. Google!Convert(c, r) = IF reason = "" THEN e ELSE GoogleEnded(e, st)
  <2>1. Few(r.parts)
    BY Zenon, <1>2 DEF Few
  <2>2. Google!Convert(c, r) = GoogleConverts(c, r)
    BY Zenon, <2>1, GoogleConvert
  <2> QED BY Zenon, <2>2 DEF GoogleConverts, b
<1> HIDE DEF d, s2, s1
<1>7. /\ IsClient(d) /\ DOMAIN d = GoogleFields /\ d.messageStarted = TRUE /\ d.lastUsage = s.usage
  <2>1. "lastUsage" \in GoogleFields \ {"open", "nextIndex", "out"}
        /\ "messageStarted" \in GoogleFields \ {"open", "nextIndex", "out"}
    BY Zenon DEF GoogleFields
  <2>2. /\ IsClient(d) /\ DOMAIN d = DOMAIN b
        /\ \A f \in DOMAIN b \ {"open", "nextIndex", "out"} : d[f] = b[f]
    BY Zenon, <1>1, <1>2, RewrittenFacts
  <2> QED BY Zenon, <1>1, <2>1, <2>2
<1>8. /\ IsClient(e) /\ DOMAIN e = GoogleFields /\ e.messageStarted = TRUE
      /\ e.open = d.open /\ e.nextIndex = d.nextIndex /\ e.out = d.out
      /\ e.lastUsage = IF u = NoUsage THEN s.usage ELSE u
  <2>1. CASE u = NoUsage
    BY Zenon, <1>7, <2>1 DEF GoogleReported
  <2>2. CASE u # NoUsage
    <3>1. e = [d EXCEPT !.lastUsage = u]
      BY Zenon, <2>2 DEF GoogleReported
    <3> HIDE DEF e
    <3>2. /\ DOMAIN e = DOMAIN d /\ e.lastUsage = u /\ e = [x \in DOMAIN e |-> e[x]]
          /\ \A f \in DOMAIN d \ {"lastUsage"} : e[f] = d[f]
      BY Zenon, <1>7, <3>1 DEF GoogleFields, IsClient
    <3>3. /\ "messageStarted" \in DOMAIN d \ {"lastUsage"}
          /\ "open" \in DOMAIN d \ {"lastUsage"} /\ "nextIndex" \in DOMAIN d \ {"lastUsage"}
          /\ "out" \in DOMAIN d \ {"lastUsage"}
      BY Zenon, <1>7 DEF GoogleFields
    <3> QED BY Zenon, <1>7, <2>2, <3>2, <3>3 DEF IsClient
  <2> QED BY Zenon, <2>1, <2>2
<1> HIDE DEF e
<1>9. GoogleOpen(t, q, e, s2)
  <2>1. AtMostOne(t, q, e, s2.contents, "unspecified", NoUsage)
    BY Zenon, <1>2, <1>5, <1>8 DEF InResponse, AtMostOne
  <2>2. InResponse(t, q, e, s2)
    BY Zenon, <1>2, <1>5, <1>8, <2>1 DEF InResponse
  <2>3. e.lastUsage = s2.usage
    BY Zenon, <1>3, <1>5, <1>8
  <2>4. e \in GoogleClients
    <3>1. e.lastUsage \in Usages /\ e.messageStarted \in BOOLEAN
      BY Zenon, <1>5, <1>8, <2>3 DEF SentOK, SentSet
    <3>2. e.open \in OneOrNone(BlockSet) /\ e.nextIndex \in Nat /\ e.out \in Seq(Proper)
      BY Zenon, <2>1, ClientTyped
    <3> QED BY Zenon, <1>8, <3>1, <3>2, GoogleMember
  <2> QED BY Zenon, <1>8, <2>2, <2>3, <2>4 DEF GoogleOpen
<1>10. CASE reason = ""
  <2>1. GoogleInStep(t, q, e, s2, ph)
    BY Zenon, <1>5, <1>9, <1>10, GoogleOpenRel
  <2> QED BY Zenon, <1>5, <1>6, <1>10, <2>1 DEF s2, s1
<1>11. CASE reason # ""
  <2>1. st \in Statuses /\ (st = "completed" => reason = "stop")
    BY Zenon, GoogleStatusFacts
  <2>2. "late_stop" \notin Quirks => (st = "completed" => Completed(s2))
    <3>1. Calls(s2) = Calls(s1)
      BY Zenon, <1>5 DEF Calls
    <3> QED BY Zenon, <1>5, <2>1, <3>1 DEF Completed, s1
  <2>3. s2.contents = s2.contents /\ s2.reason # "" /\ s2.usage = s2.usage
    BY Zenon, <1>5, <1>11
  <2> HIDE DEF st
  <2>4. GoogleInStep(t, q, GoogleEnded(e, st), s2, ph)
    BY Zenon, <1>9, <2>1, <2>2, <2>3, GoogleStops
  <2> QED BY Zenon, <1>5, <1>6, <1>11, <2>4 DEF s2, s1
<1> QED BY Zenon, <1>10, <1>11

\* A response without a content is skipped.
LEMMA GoogleBareStep ==
  ASSUME NEW t, NEW q, NEW c, NEW s, SentOK(s), NEW ph, GoogleInStep(t, q, c, s, ph),
         s.reason = "", NEW r, r.hasContent = FALSE, "bare_stop" \in Quirks,
         NEW reason \in AllReasons, NEW u, u = NoUsage \/ u = Usage(s)
  PROVE  /\ SentOK(Turned(s, TRUE, reason, u))
         /\ GoogleInStep(t, q, Google!Convert(c, r), Turned(s, TRUE, reason, u), ph)
<1> DEFINE s2 == Turned(s, TRUE, reason, u)
<1>1. PICK state, B, m, status, v :
        Tells(t, q, c.out, state, B, m, status, v) /\ GoogleRel(c, s, ph, state, B, m, status, v)
  BY Zenon DEF GoogleInStep
<1>2. Google!Convert(c, r) = c
  BY Zenon DEF Google!Convert
<1>3. /\ SentOK(s2) /\ s2.contents = s.contents /\ s2.reason = reason
  <2>1. Honest(s, u) /\ reason \in {""} \union AllReasons /\ TRUE \in BOOLEAN
    BY Zenon, NoReport
  <2>2. HasTurned(s, Turned(s, TRUE, reason, u), TRUE, reason, u)
    BY Zenon, <2>1, TurnFacts
  <2> QED BY Zenon, <2>2 DEF HasTurned
<1>4. reason # ""
  BY Zenon DEF AllReasons
<1> HIDE DEF s2
<1>5. GoogleRel(c, s2, ph, state, B, m, status, v)
  <2>1. state # "stopped" /\ status = "unspecified"
    BY Zenon, <1>1 DEF GoogleRel
  <2> QED BY Zenon, <1>1, <1>3, <1>4, <2>1 DEF GoogleRel
<1>6. GoogleInStep(t, q, c, s2, ph)
  BY Zenon, <1>1, <1>5 DEF GoogleInStep
<1> QED BY Zenon, <1>2, <1>3, <1>6 DEF s2

-----------------------------------------------------------------------------
(* Anthropic                                                               *)

AnthropicClients == [pendingSnapshotStops : SUBSET Nat, out : Seq(Proper)]

\* pending: the redacted blocks whose end is still to come
AnthropicRel(pending, s, state, B, m, status, v) ==
  /\ m = s.contents
  /\ v = s.usage
  /\ state = IF ~s.began THEN "new" ELSE IF s.reason = "" THEN "open" ELSE "stopped"
  /\ status = IF s.reason = "" THEN "unspecified" ELSE Anthropic!StatusOf(s.reason)
  /\ ~s.began => m = <<>> /\ s.block = <<>> /\ s.reason = "" /\ s.usage = NoUsage
  /\ s.block = <<>> => B = {} /\ pending = {}
  /\ s.block # <<>> =>
       /\ s.reason = "" /\ m # <<>> /\ s.block = <<Len(m) - 1>>
       /\ IF m[Len(m)].kind = "opaque"
          THEN B = {} /\ pending = {Len(m) - 1}
          ELSE B = {Block(Len(m) - 1, m[Len(m)].kind)} /\ pending = {}
  /\ status = "completed" => Completed(s)

AnthropicInStep(t, q, c, s) ==
  /\ c \in AnthropicClients
  /\ \E state, B, m, status, v :
       /\ Tells(t, q, c.out, state, B, m, status, v)
       /\ AnthropicRel(c.pendingSnapshotStops, s, state, B, m, status, v)

AnthropicClient(pending, out) == [pendingSnapshotStops |-> pending, out |-> out]

LEMMA AnthropicFields ==
  ASSUME NEW c \in AnthropicClients
  PROVE  /\ c = AnthropicClient(c.pendingSnapshotStops, c.out)
         /\ c.pendingSnapshotStops \in SUBSET Nat
BY DEF AnthropicClients, AnthropicClient

LEMMA AnthropicClientFacts ==
  ASSUME NEW pending, NEW out, NEW e
  PROVE  /\ AnthropicClient(pending, out).out = out
         /\ AnthropicClient(pending, out).pendingSnapshotStops = pending
         /\ Anthropic!Emit(AnthropicClient(pending, out), e)
              = AnthropicClient(pending, Append(out, e))
BY DEF AnthropicClient, Anthropic!Emit

LEMMA AnthropicEmits ==
  ASSUME NEW c, NEW pending, c = AnthropicClient(pending, c.out), NEW e
  PROVE  Anthropic!Emit(c, e) = AnthropicClient(pending, Append(c.out, e))
<1> DEFINE x == c.out
<1>1. Anthropic!Emit(AnthropicClient(pending, x), e) = AnthropicClient(pending, Append(x, e))
  BY AnthropicClientFacts
<1> QED BY <1>1

\* A client whose events bring the reader to where the provider is.
LEMMA AnthropicKeeps ==
  ASSUME NEW t, NEW q, NEW s, NEW pending \in SUBSET Nat, NEW out, NEW state, NEW B, NEW m,
         NEW status, NEW v, Tells(t, q, out, state, B, m, status, v),
         AnthropicRel(pending, s, state, B, m, status, v)
  PROVE  AnthropicInStep(t, q, AnthropicClient(pending, out), s)
<1>1. AnthropicClient(pending, out) \in AnthropicClients
  <2>1. out \in Seq(Proper)
    BY TellsFacts
  <2> QED BY <2>1 DEF AnthropicClient, AnthropicClients
<1>2. /\ AnthropicClient(pending, out).out = out
      /\ AnthropicClient(pending, out).pendingSnapshotStops = pending
  BY AnthropicClientFacts
<1> QED BY <1>1, <1>2 DEF AnthropicInStep

LEMMA AnthropicEvents ==
  ASSUME NEW i, NEW kind, NEW call, NEW text, NEW status, NEW u
  PROVE  /\ Anthropic!MessageStart(u) = MessageStart(u)
         /\ Anthropic!MessageStop(status, u) = MessageStop(status, u)
         /\ Anthropic!UsageOnly(u) = UsageOnly(u)
         /\ Anthropic!ContentStart(i, kind, Anthropic!NoItem, call)
              = ContentStart(i, kind, NoItem, call)
         /\ Anthropic!ContentDelta(i, kind, text) = ContentDelta(i, kind, text)
         /\ Anthropic!ContentStop(i) = ContentStop(i)
         /\ Anthropic!ContentSnapshot(i, Anthropic!NoItem, text) = ContentSnapshot(i, NoItem, text)
         /\ Anthropic!NoUsage = NoUsage
<1> USE DEF Anthropic!Blank, Blank, Anthropic!NoUsage, NoUsage, Anthropic!NoItem, NoItem
<1>1. Anthropic!MessageStart(u) = MessageStart(u)
  BY DEF Anthropic!MessageStart, MessageStart
<1>2. Anthropic!MessageStop(status, u) = MessageStop(status, u)
  BY DEF Anthropic!MessageStop, MessageStop
<1>3. Anthropic!UsageOnly(u) = UsageOnly(u)
  BY DEF Anthropic!UsageOnly, UsageOnly
<1>4. Anthropic!ContentStart(i, kind, Anthropic!NoItem, call) = ContentStart(i, kind, NoItem, call)
  BY DEF Anthropic!ContentStart, ContentStart
<1>5. Anthropic!ContentDelta(i, kind, text) = ContentDelta(i, kind, text)
  BY DEF Anthropic!ContentDelta, ContentDelta
<1>6. Anthropic!ContentStop(i) = ContentStop(i)
  BY DEF Anthropic!ContentStop, ContentStop
<1>7. Anthropic!ContentSnapshot(i, Anthropic!NoItem, text) = ContentSnapshot(i, NoItem, text)
  BY DEF Anthropic!ContentSnapshot, ContentSnapshot
<1>8. Anthropic!NoUsage = NoUsage
  OBVIOUS
<1> HIDE DEF Anthropic!Blank, Blank, Anthropic!NoUsage, NoUsage, Anthropic!NoItem, NoItem
<1> QED BY <1>1, <1>2, <1>3, <1>4, <1>5, <1>6, <1>7, <1>8

\* The provider's record, and what a block's beginning and end change in it.
Blocked(s, block) == [s EXCEPT !.block = block]

HasBlock(s, s2, block) ==
  /\ SentOK(s2) /\ s2.block = block /\ s2.contents = s.contents /\ s2.began = s.began
  /\ s2.reason = s.reason /\ s2.usage = s.usage

LEMMA BlockedFacts ==
  ASSUME NEW s, SentOK(s), NEW block \in OneOrNone(Nat)
  PROVE  HasBlock(s, Blocked(s, block), block)
BY DEF SentSet, SentOK, Blocked, HasBlock

LEMMA AnthropicStartStep ==
  ASSUME NEW t, NEW q, NEW c, NEW s, SentOK(s), AnthropicInStep(t, q, c, s),
         s.began = FALSE, NEW u, Honest(s, u), NEW e, e.usage = u
  PROVE  /\ SentOK(Turned(s, TRUE, "", u))
         /\ AnthropicInStep(t, q, Anthropic!OnMessageStart(c, e), Turned(s, TRUE, "", u))
<1> DEFINE s2 == Turned(s, TRUE, "", u)
<1> DEFINE x == Append(c.out, MessageStart(u))
<1>1. PICK state, B, m, status, v :
        /\ Tells(t, q, c.out, state, B, m, status, v)
        /\ AnthropicRel(c.pendingSnapshotStops, s, state, B, m, status, v)
  BY DEF AnthropicInStep
<1>2. /\ c \in AnthropicClients /\ m = s.contents /\ v = s.usage /\ state = "new"
      /\ status = "unspecified" /\ m = <<>> /\ s.block = <<>> /\ s.reason = ""
      /\ B = {} /\ c.pendingSnapshotStops = {}
  BY <1>1 DEF AnthropicRel, AnthropicInStep
<1>3. /\ SentOK(s2) /\ s2.contents = s.contents /\ s2.began = TRUE /\ s2.block = s.block
      /\ s2.reason = "" /\ s2.usage = MergeUsage(v, u)
  <2> DEFINE r == ""
  <2>1. r \in {""} \union AllReasons /\ TRUE \in BOOLEAN /\ r = ""
    OBVIOUS
  <2> HIDE DEF r
  <2>2. HasTurned(s, Turned(s, TRUE, r, u), TRUE, r, u)
    BY <2>1, TurnFacts
  <2> QED BY <1>2, <2>1, <2>2 DEF HasTurned
<1> HIDE DEF s2
<1>4. Tells(t, q, x, "open", B, m, status, MergeUsage(v, u))
  <2>1. u \in Usages
    BY DEF Honest
  <2> QED BY <1>1, <1>2, <2>1, TellsStart
<1>5. Anthropic!OnMessageStart(c, e) = AnthropicClient({}, x)
  <2>1. c = AnthropicClient({}, c.out)
    BY <1>2, AnthropicFields
  <2>2. Anthropic!OnMessageStart(c, e) = Anthropic!Emit(c, MessageStart(u))
    BY AnthropicEvents DEF Anthropic!OnMessageStart
  <2> QED BY <2>1, <2>2, AnthropicClientFacts
<1> HIDE DEF x
<1>6. AnthropicRel({}, s2, "open", B, m, status, MergeUsage(v, u))
  BY <1>2, <1>3 DEF AnthropicRel
<1>7. AnthropicInStep(t, q, AnthropicClient({}, x), s2)
  <2>1. {} \in SUBSET Nat
    OBVIOUS
  <2> QED BY <1>4, <1>6, <2>1, AnthropicKeeps
<1> QED BY <1>3, <1>5, <1>7 DEF s2

AnthropicOpen(t, q, c, s) ==
  SentOK(s) /\ AnthropicInStep(t, q, c, s) /\ s.began = TRUE /\ s.reason = ""

\* Between two blocks.
LEMMA AnthropicBetween ==
  ASSUME NEW t, NEW q, NEW c, NEW s, AnthropicOpen(t, q, c, s), s.block = <<>>
  PROVE  /\ c = AnthropicClient({}, c.out)
         /\ Tells(t, q, c.out, "open", {}, s.contents, "unspecified", s.usage)
         /\ s \in SentSet /\ s.contents \in Seq(ContentSet) /\ Len(s.contents) \in Nat
<1>1. PICK state, B, m, status, v :
        /\ Tells(t, q, c.out, state, B, m, status, v)
        /\ AnthropicRel(c.pendingSnapshotStops, s, state, B, m, status, v)
  BY DEF AnthropicInStep, AnthropicOpen
<1>2. /\ c \in AnthropicClients /\ m = s.contents /\ v = s.usage /\ state = "open"
      /\ status = "unspecified" /\ B = {} /\ c.pendingSnapshotStops = {} /\ s \in SentSet
  BY <1>1 DEF AnthropicRel, AnthropicInStep, AnthropicOpen, SentOK
<1>3. c = AnthropicClient({}, c.out)
  BY <1>2, AnthropicFields
<1>4. m \in Seq(ContentSet) /\ Len(m) \in Nat
  BY <1>1, TellsFacts
<1> QED BY <1>1, <1>2, <1>3, <1>4

\* In a block.
LEMMA AnthropicWithin ==
  ASSUME NEW t, NEW q, NEW c, NEW s, AnthropicOpen(t, q, c, s), s.block # <<>>
  PROVE  LET n == Len(s.contents) IN
         /\ s.block = <<n - 1>> /\ Head(s.block) = n - 1 /\ n \in 1..n
         /\ s.contents \in Seq(ContentSet) /\ s \in SentSet
         /\ s.contents[n].kind = "opaque" =>
              /\ c = AnthropicClient({n - 1}, c.out)
              /\ Tells(t, q, c.out, "open", {}, s.contents, "unspecified", s.usage)
         /\ s.contents[n].kind # "opaque" =>
              /\ c = AnthropicClient({}, c.out)
              /\ Tells(t, q, c.out, "open", {Block(n - 1, s.contents[n].kind)}, s.contents,
                       "unspecified", s.usage)
<1>1. PICK state, B, m, status, v :
        /\ Tells(t, q, c.out, state, B, m, status, v)
        /\ AnthropicRel(c.pendingSnapshotStops, s, state, B, m, status, v)
  BY DEF AnthropicInStep, AnthropicOpen
<1> DEFINE n == Len(s.contents)
<1> DEFINE pending == c.pendingSnapshotStops
<1>2. /\ c \in AnthropicClients /\ m = s.contents /\ v = s.usage /\ state = "open"
      /\ status = "unspecified" /\ s \in SentSet
  BY <1>1 DEF AnthropicRel, AnthropicInStep, AnthropicOpen, SentOK
<1>3. /\ m # <<>> /\ s.block = <<Len(m) - 1>>
      /\ m[Len(m)].kind = "opaque" => B = {} /\ pending = {Len(m) - 1}
      /\ m[Len(m)].kind # "opaque" => B = {Block(Len(m) - 1, m[Len(m)].kind)} /\ pending = {}
  BY <1>1 DEF AnthropicRel
<1>4. m \in Seq(ContentSet) /\ n \in 1..n
  <2>1. s.contents # <<>>
    BY <1>2, <1>3
  <2>2. m \in Seq(ContentSet)
    BY <1>1, TellsFacts
  <2> QED BY <1>2, <2>1, <2>2, LastFacts
<1>5. c = AnthropicClient(pending, c.out)
  BY <1>2, AnthropicFields
<1>6. Head(s.block) = n - 1
  BY <1>2, <1>3
<1> QED BY <1>1, <1>2, <1>3, <1>4, <1>5, <1>6

LEMMA Appended ==
  ASSUME NEW m \in Seq(ContentSet), NEW z \in ContentSet
  PROVE  LET m1 == Append(m, z) IN
         /\ m1 \in Seq(ContentSet) /\ Len(m1) = Len(m) + 1 /\ m1[Len(m1)] = z /\ m1 # <<>>
         /\ Len(m1) \in 1..Len(m1) /\ Len(m1) - 1 = Len(m)
<1> DEFINE m1 == Append(m, z)
<1>1. Len(m1) = Len(m) + 1 /\ Len(m) \in Nat /\ m1[Len(m) + 1] = z /\ m1 \in Seq(ContentSet)
  OBVIOUS
<1>2. m1 # <<>>
  BY <1>1
<1> QED BY <1>1, <1>2

\* A redacted block is passed on whole.
LEMMA AnthropicSnapshotStep ==
  ASSUME NEW t, NEW q, NEW c, NEW s, AnthropicOpen(t, q, c, s), s.block = <<>>,
         NEW text \in Texts(s), NEW e, e.kind = "opaque", e.index = Len(s.contents), e.text = text,
         NEW s1, s1 = Adds(s, Content("opaque", NoItem, 0, text)),
         NEW s2, s2 = Blocked(Signs(s1, Len(s1.contents), <<>>), <<Len(s.contents)>>)
  PROVE  SentOK(s2) /\ AnthropicInStep(t, q, Anthropic!OnBlockStart(c, e), s2)
<1> DEFINE m == s.contents
<1> DEFINE n == Len(m)
<1> DEFINE z == Content("opaque", NoItem, 0, text)
<1> DEFINE m1 == Append(m, z)
<1> DEFINE x == Append(c.out, ContentSnapshot(n, NoItem, text))
<1>1. /\ c = AnthropicClient({}, c.out) /\ Tells(t, q, c.out, "open", {}, m, "unspecified", s.usage)
      /\ s \in SentSet /\ m \in Seq(ContentSet) /\ n \in Nat /\ SentOK(s)
      /\ s.began = TRUE /\ s.reason = ""
  BY AnthropicBetween DEF AnthropicOpen
<1>2. z \in ContentSet /\ z.kind = "opaque" /\ text \in Seq(Nat) /\ NoItem \in ItemNames
  <2> DEFINE kind == "opaque"
  <2>1. text \in Seq(Nat) /\ NoItem \in ItemNames /\ kind \in ContentKinds /\ 0 \in Nat
    BY <1>1, TextsTyped DEF ItemNames, ContentKinds
  <2> HIDE DEF kind
  <2>2. Content(kind, NoItem, 0, text) \in ContentSet /\ Content(kind, NoItem, 0, text).kind = kind
    BY <2>1, ContentFacts
  <2> QED BY <2>1, <2>2 DEF kind
<1>3. Tells(t, q, x, "open", {}, m1, "unspecified", s.usage)
  BY <1>1, <1>2, TellsSnapshot
<1> HIDE DEF z
<1>4. SentOK(s1) /\ SameTurn(s, s1) /\ s1.contents = m1
  BY <1>1, <1>2, AddsFacts DEF z
<1>5. /\ m1 \in Seq(ContentSet) /\ m1[Len(m1)] = z /\ m1 # <<>> /\ Len(m1) \in 1..Len(m1)
      /\ Len(m1) - 1 = n
  BY <1>1, <1>2, Appended
<1> HIDE DEF m1
<1> DEFINE s3 == Signs(s1, Len(s1.contents), <<>>)
<1>6. SentOK(s3) /\ SameTurn(s1, s3) /\ s3.contents = m1
  <2>1. <<>> \in Seq(Nat) /\ Len(s1.contents) \in 1..Len(s1.contents)
    BY <1>4, <1>5
  <2>2. s3.contents = Amend(m1, Len(m1), "signature", <<>>)
    BY <1>4, <2>1, SignsFacts
  <2> QED BY <1>4, <1>5, <2>1, <2>2, SignsFacts, ExtendedByNothing
<1> HIDE DEF s3
<1>7. /\ SentOK(s2) /\ s2.block = <<n>> /\ s2.contents = m1 /\ s2.began = TRUE
      /\ s2.reason = "" /\ s2.usage = s.usage
  <2>1. s2 = Blocked(s3, <<n>>) /\ <<n>> \in OneOrNone(Nat)
    BY <1>1 DEF OneOrNone, s3
  <2>2. /\ SentOK(s2) /\ s2.block = <<n>> /\ s2.contents = s3.contents /\ s2.began = s3.began
        /\ s2.reason = s3.reason /\ s2.usage = s3.usage
    BY <1>6, <2>1, BlockedFacts DEF HasBlock
  <2> QED BY <1>1, <1>4, <1>6, <2>2 DEF SameTurn
<1>8. Anthropic!OnBlockStart(c, e) = AnthropicClient({n}, x)
  <2>1. Anthropic!Emit(c, Anthropic!ContentSnapshot(n, Anthropic!NoItem, text))
          = AnthropicClient({}, x)
    <3>1. Anthropic!Emit(c, Anthropic!ContentSnapshot(n, Anthropic!NoItem, text))
            = Anthropic!Emit(c, ContentSnapshot(n, NoItem, text))
      BY AnthropicEvents
    <3>2. c = AnthropicClient({}, c.out)
      BY <1>1
    <3> QED BY <3>1, <3>2, AnthropicClientFacts
  <2>2. Anthropic!OnBlockStart(c, e)
          = [AnthropicClient({}, x) EXCEPT !.pendingSnapshotStops = @ \union {n}]
    BY <2>1 DEF Anthropic!OnBlockStart
  <2> QED BY <2>2 DEF AnthropicClient
<1> HIDE DEF x
<1>9. AnthropicRel({n}, s2, "open", {}, m1, "unspecified", s.usage)
  <2>1. m1[Len(m1)].kind = "opaque" /\ m1 # <<>> /\ n = Len(m1) - 1
    BY <1>2, <1>5
  <2> HIDE DEF n
  <2>2. s2.block = <<Len(m1) - 1>> /\ {n} = {Len(m1) - 1}
    BY <1>7, <2>1
  <2>3. s2.block # <<>>
    BY <2>2
  <2> QED BY <1>7, <2>1, <2>2, <2>3 DEF AnthropicRel
<1>10. AnthropicInStep(t, q, AnthropicClient({n}, x), s2)
  <2>1. {n} \in SUBSET Nat
    BY <1>1
  <2> QED BY <1>3, <1>9, <2>1, AnthropicKeeps
<1> QED BY <1>7, <1>8, <1>10

\* A fragment, unless it is empty.
Written(out, i, kind, text) ==
  IF text = <<>> THEN out ELSE Append(out, ContentDelta(i, kind, text))

LEMMA WrittenTells ==
  ASSUME NEW t, NEW q, NEW out, NEW B, NEW m, NEW status, NEW v, NEW i, NEW kind0,
         Block(i, kind0) \in B, NEW kind \in DeltaKinds, FitsKind(kind, kind0),
         NEW text \in Seq(Nat), Tells(t, q, out, "open", B, m, status, v)
  PROVE  Tells(t, q, Written(out, i, kind, text), "open", B, Amend(m, i + 1, kind, text), status, v)
<1> DEFINE b == Block(i, kind0)
<1>1. b \in B /\ b.index = i /\ b.kind = kind0
  BY DEF Block
<1> HIDE DEF b
<1>2. m \in Seq(ContentSet) /\ i + 1 \in 1..Len(m)
  BY <1>1, TellsFacts
<1>3. CASE text = <<>>
  <2>1. Amend(m, i + 1, kind, <<>>) = m
    BY <1>2, ExtendedByNothing
  <2> QED BY <1>3, <2>1 DEF Written
<1>4. CASE text # <<>>
  <2>1. Tells(t, q, Append(out, ContentDelta(i, kind, text)), "open", B, Amend(m, i + 1, kind, text),
              status, v)
    BY <1>1, TellsDelta
  <2> QED BY <1>4, <2>1 DEF Written
<1> QED BY <1>3, <1>4

LEMMA AnthropicWrites ==
  ASSUME NEW out, NEW i, NEW kind, NEW text
  PROVE  Anthropic!EmitIf(AnthropicClient({}, out), text, Anthropic!ContentDelta(i, kind, text))
           = AnthropicClient({}, Written(out, i, kind, text))
<1>1. Anthropic!ContentDelta(i, kind, text) = ContentDelta(i, kind, text)
  BY AnthropicEvents
<1>2. Anthropic!Emit(AnthropicClient({}, out), ContentDelta(i, kind, text))
        = AnthropicClient({}, Append(out, ContentDelta(i, kind, text)))
  BY AnthropicClientFacts
<1> QED BY <1>1, <1>2 DEF Anthropic!EmitIf, Written

LEMMA AnthropicBlockStep ==
  ASSUME NEW t, NEW q, NEW c, NEW s, AnthropicOpen(t, q, c, s), s.block = <<>>,
         NEW kind \in {"text", "reasoning", "tool"}, NEW call \in Nat,
         NEW text \in Seq(Nat), kind = "tool" => text = <<>>, NEW sign \in Seq(Nat),
         NEW e, e.kind = kind, e.index = Len(s.contents), e.id = call, e.text = text,
         e.signature = sign,
         NEW s1, s1 = Adds(s, Content(kind, NoItem, call, text)),
         NEW s2, s2 = Blocked(Signs(s1, Len(s1.contents), sign), <<Len(s.contents)>>)
  PROVE  SentOK(s2) /\ AnthropicInStep(t, q, Anthropic!OnBlockStart(c, e), s2)
<1> DEFINE m == s.contents
<1> DEFINE n == Len(m)
<1> DEFINE B == {Block(n, kind)}
<1> DEFINE z0 == Content(kind, NoItem, call, <<>>)
<1> DEFINE z == Content(kind, NoItem, call, text)
<1> DEFINE m0 == Append(m, z0)
<1> DEFINE m1 == Append(m, z)
<1> DEFINE m2 == Amend(m1, Len(m1), "signature", sign)
<1> DEFINE x0 == Append(c.out, ContentStart(n, kind, NoItem, call))
<1> DEFINE x1 == Written(x0, n, "text", text)
<1> DEFINE x2 == Written(x1, n, "signature", sign)
<1>1. /\ c = AnthropicClient({}, c.out) /\ Tells(t, q, c.out, "open", {}, m, "unspecified", s.usage)
      /\ s \in SentSet /\ m \in Seq(ContentSet) /\ n \in Nat /\ SentOK(s)
      /\ s.began = TRUE /\ s.reason = ""
  BY AnthropicBetween DEF AnthropicOpen
<1>2. /\ kind \in TextKinds \union {"tool"} /\ kind \in ContentKinds /\ NoItem \in ItemNames
      /\ kind # "tool" => FitsKind("text", kind)
      /\ FitsKind("signature", kind) /\ kind # "opaque"
  BY DEF TextKinds, ContentKinds, ItemNames, FitsKind
<1>3. z0 \in ContentSet /\ z \in ContentSet /\ z.kind = kind /\ z0.kind = kind
  <2> DEFINE y == <<>>
  <2>1. y \in Seq(Nat)
    OBVIOUS
  <2> HIDE DEF y
  <2>2. Content(kind, NoItem, call, y) \in ContentSet /\ Content(kind, NoItem, call, y).kind = kind
    BY <1>2, <2>1, ContentFacts
  <2>3. z \in ContentSet /\ z.kind = kind
    BY <1>2, ContentFacts
  <2> QED BY <2>2, <2>3 DEF y
<1>4. Tells(t, q, x0, "open", B, m0, "unspecified", s.usage)
  <2>1. Tells(t, q, x0, "open", {} \union B, m0, "unspecified", s.usage)
    BY <1>1, <1>2, TellsOpen
  <2> QED BY <2>1
<1>x. /\ Block(n, kind) \in B
      /\ text = <<>> => z0 = z
      /\ Len(m0) = n + 1 /\ (kind # "tool" => Amend(m0, Len(m0), "text", text) = m1)
  <2>1. kind # "tool" => Amend(m0, Len(m0), "text", text) = m1
    BY <1>1, <1>2, StartThenWrite
  <2>2. Len(m0) = n + 1
    BY <1>1, <1>2, StartThenWrite
  <2> QED BY <2>1, <2>2
<1> HIDE DEF x0, z0, z, B
<1>5. Tells(t, q, x1, "open", B, m1, "unspecified", s.usage)
  <2>1. CASE text = <<>>
    BY <1>4, <1>x, <2>1 DEF Written
  <2>2. CASE text # <<>>
    <3> DEFINE delta == "text"
    <3>1. delta \in DeltaKinds /\ Block(n, kind) \in B /\ FitsKind(delta, kind)
      BY <1>2, <1>x, <2>2 DEF DeltaKinds
    <3> HIDE DEF delta, m0
    <3>2. Tells(t, q, Written(x0, n, delta, text), "open", B, Amend(m0, n + 1, delta, text),
                "unspecified", s.usage)
      BY <1>4, <3>1, WrittenTells
    <3> QED BY <1>x, <2>2, <3>2 DEF delta
  <2> QED BY <2>1, <2>2
<1>6. /\ m1 \in Seq(ContentSet) /\ m1[Len(m1)] = z /\ m1 # <<>> /\ Len(m1) \in 1..Len(m1)
      /\ Len(m1) - 1 = n /\ Len(m1) = n + 1
  <2>1. m \in Seq(ContentSet) /\ z \in ContentSet /\ n \in Nat
    BY <1>1, <1>3
  <2>2. /\ m1 \in Seq(ContentSet) /\ m1[Len(m1)] = z /\ m1 # <<>> /\ Len(m1) \in 1..Len(m1)
        /\ Len(m1) - 1 = n /\ Len(m1) = n + 1
    BY <2>1, Appended
  <2> QED BY <2>2
<1>7. Tells(t, q, x2, "open", B, m2, "unspecified", s.usage)
  <2> DEFINE delta == "signature"
  <2>1. delta \in DeltaKinds /\ Block(n, kind) \in B /\ FitsKind(delta, kind)
    BY <1>2, <1>x DEF DeltaKinds
  <2> HIDE DEF delta, m1, x1
  <2>2. Tells(t, q, Written(x1, n, delta, sign), "open", B, Amend(m1, n + 1, delta, sign),
              "unspecified", s.usage)
    BY <1>5, <2>1, WrittenTells
  <2> QED BY <1>6, <2>2 DEF delta
<1>8. SentOK(s1) /\ SameTurn(s, s1) /\ s1.contents = m1
  BY <1>1, <1>3, AddsFacts DEF z
<1>9. /\ Len(m2) = Len(m1) /\ m2[Len(m1)].kind = kind /\ m2 # <<>>
  <2> HIDE DEF m1
  <2>1. Len(m2) = Len(m1) /\ m2[Len(m1)].kind = m1[Len(m1)].kind
    BY <1>6, AmendFacts
  <2> HIDE DEF m2
  <2>2. m2 # <<>>
    BY <1>6, <2>1
  <2> QED BY <1>3, <1>6, <2>1, <2>2
<1>10. Anthropic!OnBlockStart(c, e) = AnthropicClient({}, x2)
  <2>1. Anthropic!Emit(c, Anthropic!ContentStart(n, kind, Anthropic!NoItem, call))
          = AnthropicClient({}, x0)
    <3>1. Anthropic!Emit(c, Anthropic!ContentStart(n, kind, Anthropic!NoItem, call))
            = Anthropic!Emit(c, ContentStart(n, kind, NoItem, call))
      BY AnthropicEvents
    <3>2. c = AnthropicClient({}, c.out)
      BY <1>1
    <3> QED BY <3>1, <3>2, AnthropicClientFacts DEF x0
  <2>2. Anthropic!OnBlockStart(c, e)
          = Anthropic!EmitIf(Anthropic!EmitIf(AnthropicClient({}, x0), text,
                                              Anthropic!ContentDelta(n, "text", text)),
                             sign, Anthropic!ContentDelta(n, "signature", sign))
    BY <1>2, <2>1 DEF Anthropic!OnBlockStart
  <2>3. Anthropic!EmitIf(AnthropicClient({}, x0), text, Anthropic!ContentDelta(n, "text", text))
          = AnthropicClient({}, x1)
    BY AnthropicWrites
  <2> HIDE DEF x1
  <2>4. Anthropic!EmitIf(AnthropicClient({}, x1), sign, Anthropic!ContentDelta(n, "signature", sign))
          = AnthropicClient({}, x2)
    BY AnthropicWrites
  <2> QED BY <2>2, <2>3, <2>4
<1> HIDE DEF x1, x2, m0, m1
<1> DEFINE s3 == Signs(s1, Len(s1.contents), sign)
<1>11. SentOK(s3) /\ SameTurn(s1, s3) /\ s3.contents = m2
  BY <1>6, <1>8, SignsFacts
<1> HIDE DEF s3, m2
<1>12. /\ SentOK(s2) /\ s2.block = <<n>> /\ s2.contents = m2 /\ s2.began = TRUE
       /\ s2.reason = "" /\ s2.usage = s.usage
  <2>1. s2 = Blocked(s3, <<n>>) /\ <<n>> \in OneOrNone(Nat)
    BY <1>1 DEF OneOrNone, s3
  <2>2. /\ SentOK(s2) /\ s2.block = <<n>> /\ s2.contents = s3.contents /\ s2.began = s3.began
        /\ s2.reason = s3.reason /\ s2.usage = s3.usage
    BY <1>11, <2>1, BlockedFacts DEF HasBlock
  <2>3. s3.began = s.began /\ s3.reason = s.reason /\ s3.usage = s.usage
    BY <1>8, <1>11 DEF SameTurn
  <2> QED BY <1>1, <1>11, <2>2, <2>3
<1>13. AnthropicRel({}, s2, "open", B, m2, "unspecified", s.usage)
  <2>1. m2[Len(m2)].kind = kind /\ n = Len(m2) - 1 /\ kind # "opaque"
    BY <1>2, <1>6, <1>9
  <2> HIDE DEF n
  <2>2. s2.block = <<Len(m2) - 1>>
    BY <1>12, <2>1
  <2>3. <<Len(m2) - 1>> # <<>>
    OBVIOUS
  <2>4. B = {Block(Len(m2) - 1, m2[Len(m2)].kind)}
    BY <2>1 DEF B
  <2> QED BY <1>9, <1>12, <2>1, <2>2, <2>3, <2>4 DEF AnthropicRel
<1>14. AnthropicInStep(t, q, AnthropicClient({}, x2), s2)
  <2>1. {} \in SUBSET Nat
    OBVIOUS
  <2> QED BY <1>7, <1>13, <2>1, AnthropicKeeps
<1> QED BY <1>10, <1>12, <1>14

LEMMA AnthropicDeltaStep ==
  ASSUME NEW t, NEW q, NEW c, NEW s, AnthropicOpen(t, q, c, s), s.block # <<>>,
         NEW kind0, s.contents[Len(s.contents)].kind = kind0, kind0 # "opaque",
         NEW kind \in DeltaKinds, FitsKind(kind, kind0), NEW text \in Seq(Nat),
         NEW e, e.index = Head(s.block), e.kind = kind, e.text = text,
         NEW s2, SameTurn(s, s2), s2.contents = Amend(s.contents, Len(s.contents), kind, text)
  PROVE  AnthropicInStep(t, q, Anthropic!OnBlockDelta(c, e), s2)
<1> DEFINE m == s.contents
<1> DEFINE n == Len(m)
<1> DEFINE B == {Block(n - 1, kind0)}
<1> DEFINE m2 == Amend(m, n, kind, text)
<1> DEFINE x == Append(c.out, ContentDelta(n - 1, kind, text))
<1>1. /\ s.block = <<n - 1>> /\ Head(s.block) = n - 1 /\ n \in 1..n /\ m \in Seq(ContentSet)
      /\ c = AnthropicClient({}, c.out) /\ s.began = TRUE /\ s.reason = ""
      /\ Tells(t, q, c.out, "open", B, m, "unspecified", s.usage)
  <2> DEFINE k == m[n].kind
  <2>1. /\ s.block = <<n - 1>> /\ Head(s.block) = n - 1 /\ n \in 1..n /\ m \in Seq(ContentSet)
        /\ k # "opaque" =>
             /\ c = AnthropicClient({}, c.out)
             /\ Tells(t, q, c.out, "open", {Block(n - 1, k)}, m, "unspecified", s.usage)
    BY AnthropicWithin
  <2>2. k = kind0 /\ s.began = TRUE /\ s.reason = ""
    BY DEF AnthropicOpen
  <2> HIDE DEF k, n
  <2> QED BY <2>1, <2>2
<1>0. n \in Nat /\ n - 1 + 1 = n /\ n # 0
  <2>1. n \in 1..n
    BY <1>1
  <2> QED BY <2>1
<1>2. Tells(t, q, x, "open", B, m2, "unspecified", s.usage)
  <2> DEFINE b == Block(n - 1, kind0)
  <2>1. b \in B /\ b.index = n - 1 /\ b.kind = kind0 /\ b.index + 1 = n
    BY <1>0 DEF Block
  <2> HIDE DEF b, B, n
  <2>2. Tells(t, q, Append(c.out, ContentDelta(b.index, kind, text)), "open", B,
              Amend(m, b.index + 1, kind, text), "unspecified", s.usage)
    BY <1>1, <2>1, TellsDelta
  <2> QED BY <2>1, <2>2
<1>3. Len(m2) = n /\ m2[n].kind = kind0
  <2>1. m \in Seq(ContentSet) /\ n \in 1..Len(m)
    BY <1>1
  <2>2. Len(m2) = Len(m) /\ m2[n].kind = m[n].kind
    BY <2>1, AmendFacts
  <2> QED BY <2>2
<1>4. Anthropic!OnBlockDelta(c, e) = AnthropicClient({}, x)
  <2>1. Anthropic!OnBlockDelta(c, e) = Anthropic!Emit(c, ContentDelta(n - 1, kind, text))
    <3>1. Anthropic!OnBlockDelta(c, e) = Anthropic!Emit(c, Anthropic!ContentDelta(n - 1, kind, text))
      BY <1>1 DEF Anthropic!OnBlockDelta
    <3> QED BY <3>1, AnthropicEvents
  <2>2. c = AnthropicClient({}, c.out)
    BY <1>1
  <2> QED BY <2>1, <2>2, AnthropicClientFacts
<1> HIDE DEF x, m2
<1>5. AnthropicRel({}, s2, "open", B, m2, "unspecified", s.usage)
  <2>1. /\ s2.contents = m2 /\ s2.began = TRUE /\ s2.reason = "" /\ s2.usage = s.usage
        /\ s2.block = s.block
    BY <1>1 DEF SameTurn, m2
  <2>2. s2.block = <<Len(m2) - 1>> /\ B = {Block(Len(m2) - 1, m2[Len(m2)].kind)}
    BY <1>1, <1>3, <2>1
  <2>3. m2 # <<>>
    <3>1. Len(m2) # 0 /\ Len(<<>>) = 0
      BY <1>0, <1>3
    <3> QED BY <3>1
  <2>4. m2[Len(m2)].kind # "opaque" /\ s2.block # <<>>
    BY <1>3, <2>1
  <2> HIDE DEF B
  <2> QED BY <2>1, <2>2, <2>3, <2>4 DEF AnthropicRel
<1>6. AnthropicInStep(t, q, AnthropicClient({}, x), s2)
  <2>1. {} \in SUBSET Nat
    OBVIOUS
  <2> QED BY <1>2, <1>5, <2>1, AnthropicKeeps
<1> QED BY <1>4, <1>6

LEMMA AnthropicStopStep ==
  ASSUME NEW t, NEW q, NEW c, NEW s, AnthropicOpen(t, q, c, s), s.block # <<>>,
         NEW e, e.index = Head(s.block), NEW s2, s2 = Blocked(s, <<>>)
  PROVE  SentOK(s2) /\ AnthropicInStep(t, q, Anthropic!OnBlockStop(c, e), s2)
<1> DEFINE m == s.contents
<1> DEFINE n == Len(m)
<1> DEFINE kind0 == m[n].kind
<1>1. /\ s.block = <<n - 1>> /\ Head(s.block) = n - 1 /\ n \in 1..n /\ m \in Seq(ContentSet)
      /\ kind0 = "opaque" =>
           /\ c = AnthropicClient({n - 1}, c.out)
           /\ Tells(t, q, c.out, "open", {}, m, "unspecified", s.usage)
      /\ kind0 # "opaque" =>
           /\ c = AnthropicClient({}, c.out)
           /\ Tells(t, q, c.out, "open", {Block(n - 1, kind0)}, m, "unspecified", s.usage)
  BY AnthropicWithin
<1>2. /\ SentOK(s2) /\ s2.block = <<>> /\ s2.contents = m /\ s2.began = TRUE
      /\ s2.reason = "" /\ s2.usage = s.usage
  <2> DEFINE none == <<>>
  <2>1. none \in OneOrNone(Nat) /\ s2 = Blocked(s, none)
    BY DEF OneOrNone
  <2>2. SentOK(s) /\ s.began = TRUE /\ s.reason = ""
    BY DEF AnthropicOpen
  <2> HIDE DEF none
  <2>3. /\ SentOK(s2) /\ s2.block = none /\ s2.contents = m /\ s2.began = s.began
        /\ s2.reason = s.reason /\ s2.usage = s.usage
    <3>1. HasBlock(s, Blocked(s, none), none)
      BY <2>1, <2>2, BlockedFacts
    <3>2. HasBlock(s, s2, none)
      BY <2>1, <3>1
    <3> QED BY <3>2 DEF HasBlock
  <2> QED BY <2>2, <2>3 DEF none
<1>3. AnthropicRel({}, s2, "open", {}, m, "unspecified", s.usage)
  BY <1>2 DEF AnthropicRel
<1>4. {} \in SUBSET Nat
  OBVIOUS
<1>5. CASE kind0 = "opaque"
  <2>1. c = AnthropicClient({n - 1}, c.out) /\ Tells(t, q, c.out, "open", {}, m, "unspecified", s.usage)
    BY <1>1, <1>5
  <2>2. c.pendingSnapshotStops = {n - 1}
    BY <2>1, AnthropicClientFacts
  <2>3. Anthropic!OnBlockStop(c, e) = [c EXCEPT !.pendingSnapshotStops = @ \ {n - 1}]
    BY <1>1, <2>2 DEF Anthropic!OnBlockStop
  <2>4. [c EXCEPT !.pendingSnapshotStops = @ \ {n - 1}] = AnthropicClient({}, c.out)
    <3>1. \A i, y : [AnthropicClient({i}, y) EXCEPT !.pendingSnapshotStops = @ \ {i}]
                      = AnthropicClient({}, y)
      <4> SUFFICES ASSUME NEW i, NEW y
                   PROVE  [AnthropicClient({i}, y) EXCEPT !.pendingSnapshotStops = @ \ {i}]
                            = AnthropicClient({}, y)
        OBVIOUS
      <4> DEFINE r == AnthropicClient({i}, y)
      <4>1. {i} \ {i} = {} /\ r.pendingSnapshotStops = {i}
        BY AnthropicClientFacts
      <4>2. [r EXCEPT !.pendingSnapshotStops = {}] = AnthropicClient({}, y)
        <5>1. ASSUME NEW a, NEW b
              PROVE  [AnthropicClient(b, y) EXCEPT !.pendingSnapshotStops = a] = AnthropicClient(a, y)
          BY DEF AnthropicClient
        <5> QED BY <5>1
      <4> HIDE DEF r
      <4>3. [r EXCEPT !.pendingSnapshotStops = @ \ {i}] = [r EXCEPT !.pendingSnapshotStops = {}]
        BY <4>1
      <4> QED BY <4>2, <4>3 DEF r
    <3> QED BY <2>1, <3>1
  <2>5. AnthropicInStep(t, q, AnthropicClient({}, c.out), s2)
    BY <1>3, <1>4, <2>1, AnthropicKeeps
  <2> QED BY <1>2, <2>3, <2>4, <2>5
<1>6. CASE kind0 # "opaque"
  <2> DEFINE x == Append(c.out, ContentStop(n - 1))
  <2> DEFINE b == Block(n - 1, kind0)
  <2> DEFINE B == {b}
  <2>1. c = AnthropicClient({}, c.out) /\ Tells(t, q, c.out, "open", B, m, "unspecified", s.usage)
    BY <1>1, <1>6
  <2>2. b \in B /\ b.index = n - 1 /\ {d \in B : d.index # n - 1} = {}
    BY DEF Block
  <2> HIDE DEF B, b
  <2>3. Tells(t, q, x, "open", {}, m, "unspecified", s.usage)
    <3>1. Tells(t, q, Append(c.out, ContentStop(b.index)), "open", {d \in B : d.index # b.index},
                m, "unspecified", s.usage)
      BY <2>1, <2>2, TellsClose
    <3> QED BY <2>2, <3>1
  <2>4. c.pendingSnapshotStops = {}
    BY <2>1, AnthropicClientFacts
  <2>5. Anthropic!OnBlockStop(c, e) = Anthropic!Emit(c, ContentStop(n - 1))
    BY <1>1, <2>4, AnthropicEvents DEF Anthropic!OnBlockStop
  <2>6. Anthropic!OnBlockStop(c, e) = AnthropicClient({}, x)
    BY <2>1, <2>5, AnthropicClientFacts
  <2> HIDE DEF x
  <2>7. AnthropicInStep(t, q, AnthropicClient({}, x), s2)
    BY <1>3, <1>4, <2>3, AnthropicKeeps
  <2> QED BY <1>2, <2>6, <2>7
<1> QED BY <1>5, <1>6

LEMMA AnthropicStatusFacts ==
  ASSUME NEW reason
  PROVE  /\ Anthropic!StatusOf(reason) \in Statuses
         /\ Anthropic!StatusOf(reason) = "completed" => reason = "stop"
BY DEF Anthropic!StatusOf, Statuses

LEMMA AnthropicMessageStep ==
  ASSUME NEW t, NEW q, NEW c, NEW s, AnthropicOpen(t, q, c, s), s.block = <<>>,
         NEW reason \in {""} \union AllReasons, reason = "stop" => Calls(s) = {},
         NEW u, Honest(s, u), NEW e, e.reason = reason, e.usage = u,
         NEW s2, s2 = Turned(s, TRUE, reason, u)
  PROVE  SentOK(s2) /\ AnthropicInStep(t, q, Anthropic!OnMessageDelta(c, e), s2)
<1> DEFINE m == s.contents
<1> DEFINE v == MergeUsage(s.usage, u)
<1> DEFINE st == Anthropic!StatusOf(reason)
<1>1. /\ c = AnthropicClient({}, c.out) /\ Tells(t, q, c.out, "open", {}, m, "unspecified", s.usage)
      /\ SentOK(s) /\ s.usage \in Usages /\ u \in Usages
  BY AnthropicBetween DEF AnthropicOpen, Honest, SentOK, SentSet
<1>2. /\ SentOK(s2) /\ s2.contents = m /\ s2.began = TRUE /\ s2.block = <<>>
      /\ s2.reason = reason /\ s2.usage = v
  <2>1. HasTurned(s, s2, TRUE, reason, u)
    BY <1>1, TurnFacts
  <2> QED BY <2>1 DEF HasTurned
<1>3. st \in Statuses /\ (st = "completed" => reason = "stop")
  BY AnthropicStatusFacts
<1>4. st = "completed" => Completed(s2)
  BY <1>2, <1>3 DEF Completed, Calls
<1>5. {} \in SUBSET Nat
  OBVIOUS
<1> HIDE DEF v
<1>6. CASE reason # ""
  <2> DEFINE x == Append(c.out, MessageStop(st, u))
  <2>1. Anthropic!OnMessageDelta(c, e) = Anthropic!Emit(c, MessageStop(st, u))
    BY <1>6, AnthropicEvents DEF Anthropic!OnMessageDelta
  <2>2. Anthropic!OnMessageDelta(c, e) = AnthropicClient({}, x)
    <3>1. c = AnthropicClient({}, c.out)
      BY <1>1
    <3> QED BY <2>1, <3>1, AnthropicEmits
  <2> HIDE DEF st
  <2>3. Tells(t, q, x, "stopped", {}, m, st, v)
    BY <1>1, <1>3, TellsStop DEF v
  <2> HIDE DEF x
  <2>4. AnthropicRel({}, s2, "stopped", {}, m, st, v)
    BY <1>2, <1>4, <1>6 DEF AnthropicRel, st
  <2>5. AnthropicInStep(t, q, AnthropicClient({}, x), s2)
    BY <1>5, <2>3, <2>4, AnthropicKeeps
  <2> QED BY <1>2, <2>2, <2>5
<1>7. CASE reason = ""
  <2>1. AnthropicRel({}, s2, "open", {}, m, "unspecified", v)
    BY <1>2, <1>7 DEF AnthropicRel
  <2>2. CASE u # NoUsage
    <3> DEFINE x == Append(c.out, UsageOnly(u))
    <3>1. Anthropic!OnMessageDelta(c, e) = Anthropic!Emit(c, UsageOnly(u))
      BY <1>7, <2>2, AnthropicEvents DEF Anthropic!OnMessageDelta
    <3>2. Anthropic!OnMessageDelta(c, e) = AnthropicClient({}, x)
      <4>1. c = AnthropicClient({}, c.out)
        BY <1>1
      <4> QED BY <3>1, <4>1, AnthropicEmits
    <3>3. Tells(t, q, x, "open", {}, m, "unspecified", v)
      BY <1>1, TellsUsage DEF v
    <3> HIDE DEF x
    <3>4. AnthropicInStep(t, q, AnthropicClient({}, x), s2)
      BY <1>5, <2>1, <3>3, AnthropicKeeps
    <3> QED BY <1>2, <3>2, <3>4
  <2>3. CASE u = NoUsage
    <3>1. Anthropic!OnMessageDelta(c, e) = c
      BY <1>7, <2>3, AnthropicEvents DEF Anthropic!OnMessageDelta
    <3>2. v = s.usage
      BY <1>1, <2>3, MergeFacts DEF v
    <3>3. AnthropicInStep(t, q, AnthropicClient({}, c.out), s2)
      BY <1>1, <1>5, <2>1, <3>2, AnthropicKeeps
    <3> QED BY <1>1, <1>2, <3>1, <3>3
  <2> QED BY <2>2, <2>3
<1> QED BY <1>6, <1>7

-----------------------------------------------------------------------------
(* OpenAI Responses                                                        *)

ResponsesClient(k, next, open, index, out) ==
  [messageStarted |-> k.messageStarted, stopEmitted |-> k.stopEmitted,
   hasFunctionCall |-> k.hasFunctionCall, nextIndex |-> next, open |-> open,
   openIndex |-> index, outputPhase |-> k.outputPhase, failed |-> k.failed, out |-> out]

\* A client, of which k is what events and blocks do not change.
IsResponses(c) == c = ResponsesClient(c, c.nextIndex, c.open, c.openIndex, c.out)

\* The open block is the open part of the output item o.
BlockAt(o, open, index, items, m, B) ==
  /\ items[o].part \in 1..Len(m)
  /\ open = <<[output |-> o, index |-> items[o].part - 1]>>
  /\ DOMAIN index = {o} /\ index[o] = items[o].part - 1
  /\ B = {Block(items[o].part - 1, m[items[o].part].kind)}
  /\ (items[o].type = "function_call") = (m[items[o].part].kind = "tool")

OutputBlock(open, index, items, m, B) ==
  \/ open = <<>> /\ DOMAIN index = {} /\ B = {}
  \/ \E o \in DOMAIN items : BlockAt(o, open, index, items, m, B)

PhasesKnown(phases, items) ==
  DOMAIN phases = DOMAIN items /\ \A o \in DOMAIN items : phases[o] = items[o].phase

LEMMA ResponsesEvents ==
  ASSUME NEW i, NEW kind, NEW item, NEW call, NEW text, NEW status, NEW u
  PROVE  /\ Responses!MessageStart(u) = MessageStart(u)
         /\ Responses!MessageStop(status, u) = MessageStop(status, u)
         /\ Responses!ContentStart(i, kind, item, call) = ContentStart(i, kind, item, call)
         /\ Responses!ContentDelta(i, kind, text) = ContentDelta(i, kind, text)
         /\ Responses!ContentStop(i) = ContentStop(i)
         /\ Responses!ContentSnapshot(i, item, text) = ContentSnapshot(i, item, text)
         /\ Responses!NoUsage = NoUsage
<1> USE DEF Responses!Blank, Blank, Responses!NoUsage, NoUsage, Responses!NoItem, NoItem
<1>1. Responses!MessageStart(u) = MessageStart(u)
  BY DEF Responses!MessageStart, MessageStart
<1>2. Responses!MessageStop(status, u) = MessageStop(status, u)
  BY DEF Responses!MessageStop, MessageStop
<1>4. Responses!ContentStart(i, kind, item, call) = ContentStart(i, kind, item, call)
  BY DEF Responses!ContentStart, ContentStart
<1>5. Responses!ContentDelta(i, kind, text) = ContentDelta(i, kind, text)
  BY DEF Responses!ContentDelta, ContentDelta
<1>6. Responses!ContentStop(i) = ContentStop(i)
  BY DEF Responses!ContentStop, ContentStop
<1>7. Responses!ContentSnapshot(i, item, text) = ContentSnapshot(i, item, text)
  BY DEF Responses!ContentSnapshot, ContentSnapshot
<1>8. Responses!NoUsage = NoUsage
  OBVIOUS
<1> HIDE DEF Responses!Blank, Blank, Responses!NoUsage, NoUsage, Responses!NoItem, NoItem
<1> QED BY <1>1, <1>2, <1>4, <1>5, <1>6, <1>7, <1>8

SameFlags(c, d) ==
  /\ d.messageStarted = c.messageStarted /\ d.stopEmitted = c.stopEmitted
  /\ d.hasFunctionCall = c.hasFunctionCall /\ d.outputPhase = c.outputPhase
  /\ d.failed = c.failed

LEMMA ResponsesFields ==
  ASSUME NEW k, NEW next, NEW open, NEW index, NEW out
  PROVE  LET c == ResponsesClient(k, next, open, index, out) IN
         /\ c.nextIndex = next /\ c.open = open /\ c.openIndex = index /\ c.out = out
         /\ SameFlags(k, c) /\ IsResponses(c)
BY DEF ResponsesClient, SameFlags, IsResponses

LEMMA ResponsesEmits ==
  ASSUME NEW k, NEW next, NEW open, NEW index, NEW out, NEW e
  PROVE  Responses!Emit(ResponsesClient(k, next, open, index, out), e)
           = ResponsesClient(k, next, open, index, Append(out, e))
BY DEF ResponsesClient, Responses!Emit

\* What opening and closing a block writes besides events.
Reopened(c, index, open)       == [c EXCEPT !.openIndex = index, !.open = open]
Advanced(c, next)              == [c EXCEPT !.nextIndex = next]
NextOpened(c, next, open, index) ==
  [c EXCEPT !.nextIndex = next, !.open = open, !.openIndex = index]

LEMMA ReopenedFacts ==
  ASSUME NEW k, NEW n, NEW o, NEW i, NEW out, NEW x, NEW y
  PROVE  Reopened(ResponsesClient(k, n, o, i, out), x, y) = ResponsesClient(k, n, y, x, out)
<1> DEFINE c == ResponsesClient(k, n, o, i, out)
<1>1. [c EXCEPT !.openIndex = x, !.open = y] = [[c EXCEPT !.openIndex = x] EXCEPT !.open = y]
  OBVIOUS
<1>2. [c EXCEPT !.openIndex = x] = ResponsesClient(k, n, o, x, out)
  BY DEF ResponsesClient
<1>3. [ResponsesClient(k, n, o, x, out) EXCEPT !.open = y] = ResponsesClient(k, n, y, x, out)
  BY DEF ResponsesClient
<1> QED BY <1>1, <1>2, <1>3 DEF Reopened

LEMMA AdvancedFacts ==
  ASSUME NEW k, NEW n, NEW o, NEW i, NEW out, NEW z
  PROVE  Advanced(ResponsesClient(k, n, o, i, out), z) = ResponsesClient(k, z, o, i, out)
BY DEF ResponsesClient, Advanced

LEMMA NextOpenedFacts ==
  ASSUME NEW k, NEW n, NEW o, NEW i, NEW out, NEW x, NEW y, NEW z
  PROVE  NextOpened(ResponsesClient(k, n, o, i, out), z, y, x) = ResponsesClient(k, z, y, x, out)
<1> DEFINE c == ResponsesClient(k, n, o, i, out)
<1>1. NextOpened(c, z, y, x) = [Advanced(c, z) EXCEPT !.open = y, !.openIndex = x]
  BY DEF NextOpened, Advanced
<1>2. ASSUME NEW d PROVE [d EXCEPT !.open = y, !.openIndex = x] = Reopened(d, x, y)
  BY DEF Reopened
<1> DEFINE d == ResponsesClient(k, z, o, i, out)
<1>3. Advanced(c, z) = d
  BY AdvancedFacts
<1>4. Reopened(d, x, y) = ResponsesClient(k, z, y, x, out)
  BY ReopenedFacts
<1> HIDE DEF c, d
<1>5. [d EXCEPT !.open = y, !.openIndex = x] = Reopened(d, x, y)
  BY <1>2
<1>6. NextOpened(c, z, y, x) = ResponsesClient(k, z, y, x, out)
  BY <1>1, <1>3, <1>4, <1>5
<1> QED BY <1>6 DEF c

LEMMA Forgotten ==
  ASSUME NEW f, NEW o, DOMAIN f = {o}
  PROVE  DOMAIN Responses!Forget(f, o) = {}
BY DEF Responses!Forget, Responses!Restrict

\* The only open block is closed.
LEMMA ClosesOnly ==
  ASSUME NEW t, NEW q, NEW out, NEW i, NEW kind, NEW B, B = {Block(i, kind)}, NEW m, NEW status,
         NEW v, Tells(t, q, out, "open", B, m, status, v)
  PROVE  Tells(t, q, Append(out, ContentStop(i)), "open", {}, m, status, v)
<1>1. PICK b \in B : b = Block(i, kind)
  OBVIOUS
<1>2. b.index = i /\ {d \in B : d.index # b.index} = {}
  BY <1>1 DEF Block
<1>3. Tells(t, q, Append(out, ContentStop(b.index)), "open", {}, m, status, v)
  BY <1>2, TellsClose
<1> QED BY <1>2, <1>3

\* The open block of the outputs is closed.
ClosesTo(t, q, c, k, next, m) ==
  \E index, out : /\ c = ResponsesClient(k, next, <<>>, index, out)
                  /\ DOMAIN index = {}
                  /\ Tells(t, q, out, "open", {}, m, "unspecified", NoUsage)

LEMMA ResponsesCloses ==
  ASSUME NEW t, NEW q, NEW k, NEW next, NEW open, NEW index, NEW out,
         NEW items, NEW m, NEW B, OutputBlock(open, index, items, m, B),
         Tells(t, q, out, "open", B, m, "unspecified", NoUsage)
  PROVE  ClosesTo(t, q,
                  Responses!CloseOpenOutput(ResponsesClient(k, next, open, index, out)),
                  k, next, m)
<1> DEFINE c == ResponsesClient(k, next, open, index, out)
<1>1. c.open = open /\ c.openIndex = index
  BY ResponsesFields
<1>2. CASE open = <<>> /\ DOMAIN index = {} /\ B = {}
  <2>1. Responses!CloseOpenOutput(c) = c
    BY <1>1, <1>2 DEF Responses!CloseOpenOutput
  <2> QED BY <1>2, <2>1 DEF ClosesTo
<1>3. ASSUME NEW o \in DOMAIN items, BlockAt(o, open, index, items, m, B)
      PROVE  ClosesTo(t, q, Responses!CloseOpenOutput(c), k, next, m)
  <2> DEFINE i == items[o].part - 1
  <2> DEFINE x == Append(out, ContentStop(i))
  <2> DEFINE g == Responses!Forget(index, o)
  <2>1. /\ open = <<[output |-> o, index |-> i]>> /\ DOMAIN index = {o}
        /\ items[o].part \in 1..Len(m) /\ B = {Block(i, m[items[o].part].kind)}
    BY <1>3 DEF BlockAt
  <2>4. open # <<>> /\ Head(open).output = o /\ Head(open).index = i
    BY <2>1
  <2>5. Tells(t, q, x, "open", {}, m, "unspecified", NoUsage)
    <3> DEFINE kind == m[items[o].part].kind
    <3>1. B = {Block(i, kind)}
      BY <2>1
    <3> HIDE DEF kind, i
    <3> QED BY <3>1, ClosesOnly
  <2>6. DOMAIN g = {}
    BY <2>1, Forgotten
  <2>7. Responses!Emit(c, Responses!ContentStop(i)) = ResponsesClient(k, next, open, index, x)
    BY ResponsesEvents, ResponsesEmits
  <2> DEFINE d == ResponsesClient(k, next, open, index, x)
  <2>8. Responses!CloseOpenOutput(c)
          = [d EXCEPT !.openIndex = Responses!Forget(@, o), !.open = <<>>]
    BY <1>1, <2>4, <2>7 DEF Responses!CloseOpenOutput
  <2>9. d.openIndex = index
    BY ResponsesFields
  <2> HIDE DEF d
  <2>10. [d EXCEPT !.openIndex = Responses!Forget(@, o), !.open = <<>>] = Reopened(d, g, <<>>)
    BY <2>9 DEF Reopened
  <2> HIDE DEF g, x
  <2>11. Reopened(d, g, <<>>) = ResponsesClient(k, next, <<>>, g, x)
    BY ReopenedFacts DEF d
  <2> HIDE DEF x, g
  <2> QED BY <2>5, <2>6, <2>8, <2>10, <2>11 DEF ClosesTo
<1> QED BY <1>2, <1>3 DEF OutputBlock

\* What each of the flags and the phases is set by.
Called(c, x)  == [c EXCEPT !.hasFunctionCall = x]
Phased(c, x)  == [c EXCEPT !.outputPhase = x]
Started(c, x) == [c EXCEPT !.messageStarted = x]
Ended(c, x)   == [c EXCEPT !.stopEmitted = x]
Failed(c, x)  == [c EXCEPT !.failed = x]

SameBlocks(c, d) ==
  IsResponses(d) /\ d.nextIndex = c.nextIndex /\ d.open = c.open
  /\ d.openIndex = c.openIndex /\ d.out = c.out

\* A client with one field replaced.
ClientFields == {"messageStarted", "stopEmitted", "hasFunctionCall", "nextIndex", "open",
                 "openIndex", "outputPhase", "failed", "out"}

SetIn(c, f, x) == [c EXCEPT ![f] = x]

LEMMA SetFacts ==
  ASSUME NEW c, IsResponses(c), NEW f \in ClientFields, NEW x
  PROVE  /\ IsResponses(SetIn(c, f, x)) /\ SetIn(c, f, x)[f] = x
         /\ \A g \in ClientFields : g # f => SetIn(c, f, x)[g] = c[g]
<1> DEFINE d == SetIn(c, f, x)
<1>1. DOMAIN c = ClientFields /\ c = [g \in DOMAIN c |-> c[g]]
  BY DEF IsResponses, ResponsesClient, ClientFields
<1>2. DOMAIN d = ClientFields /\ d = [g \in DOMAIN d |-> d[g]]
  BY <1>1 DEF SetIn
<1>3. d[f] = x /\ \A g \in ClientFields : g # f => d[g] = c[g]
  BY <1>1 DEF SetIn
<1> HIDE DEF d
<1>4. IsResponses(d)
  BY <1>2 DEF IsResponses, ResponsesClient, ClientFields
<1> QED BY <1>3, <1>4 DEF d

LEMMA CalledFacts ==
  ASSUME NEW c, IsResponses(c), NEW x
  PROVE  /\ SameBlocks(c, Called(c, x)) /\ Called(c, x).hasFunctionCall = x
         /\ Called(c, x).messageStarted = c.messageStarted /\ Called(c, x).stopEmitted = c.stopEmitted
         /\ Called(c, x).outputPhase = c.outputPhase /\ Called(c, x).failed = c.failed
<1>1. Called(c, x) = SetIn(c, "hasFunctionCall", x)
  BY DEF Called, SetIn
<1> QED BY <1>1, SetFacts DEF SameBlocks, ClientFields

LEMMA PhasedFacts ==
  ASSUME NEW c, IsResponses(c), NEW x
  PROVE  /\ SameBlocks(c, Phased(c, x)) /\ Phased(c, x).outputPhase = x
         /\ Phased(c, x).messageStarted = c.messageStarted /\ Phased(c, x).stopEmitted = c.stopEmitted
         /\ Phased(c, x).hasFunctionCall = c.hasFunctionCall /\ Phased(c, x).failed = c.failed
<1>1. Phased(c, x) = SetIn(c, "outputPhase", x)
  BY DEF Phased, SetIn
<1> QED BY <1>1, SetFacts DEF SameBlocks, ClientFields

LEMMA StartedFacts ==
  ASSUME NEW c, IsResponses(c), NEW x
  PROVE  /\ SameBlocks(c, Started(c, x)) /\ Started(c, x).messageStarted = x
         /\ Started(c, x).stopEmitted = c.stopEmitted /\ Started(c, x).hasFunctionCall = c.hasFunctionCall
         /\ Started(c, x).outputPhase = c.outputPhase /\ Started(c, x).failed = c.failed
<1>1. Started(c, x) = SetIn(c, "messageStarted", x)
  BY DEF Started, SetIn
<1> QED BY <1>1, SetFacts DEF SameBlocks, ClientFields

LEMMA EndedFacts ==
  ASSUME NEW c, IsResponses(c), NEW x
  PROVE  /\ SameBlocks(c, Ended(c, x)) /\ Ended(c, x).stopEmitted = x
         /\ Ended(c, x).messageStarted = c.messageStarted /\ Ended(c, x).hasFunctionCall = c.hasFunctionCall
         /\ Ended(c, x).outputPhase = c.outputPhase /\ Ended(c, x).failed = c.failed
<1>1. Ended(c, x) = SetIn(c, "stopEmitted", x)
  BY DEF Ended, SetIn
<1> QED BY <1>1, SetFacts DEF SameBlocks, ClientFields

LEMMA FailedFacts ==
  ASSUME NEW c, IsResponses(c), NEW x
  PROVE  /\ SameBlocks(c, Failed(c, x)) /\ Failed(c, x).failed = x
         /\ Failed(c, x).messageStarted = c.messageStarted /\ Failed(c, x).stopEmitted = c.stopEmitted
         /\ Failed(c, x).hasFunctionCall = c.hasFunctionCall /\ Failed(c, x).outputPhase = c.outputPhase
<1>1. Failed(c, x) = SetIn(c, "failed", x)
  BY DEF Failed, SetIn
<1> QED BY <1>1, SetFacts DEF SameBlocks, ClientFields


\* The events bring a reader to the contents m, and the open block is a part
\* of the output items.
Tracks(t, q, c, items, m) ==
  /\ IsResponses(c) /\ c.nextIndex = Len(m)
  /\ \E B : /\ Tells(t, q, c.out, "open", B, m, "unspecified", NoUsage)
            /\ OutputBlock(c.open, c.openIndex, items, m, B)

LEMMA SameTracks ==
  ASSUME NEW t, NEW q, NEW c, NEW items, NEW m, Tracks(t, q, c, items, m), NEW d, SameBlocks(c, d)
  PROVE  Tracks(t, q, d, items, m)
BY DEF Tracks, SameBlocks

\* The items may change where no block is open.
LEMMA ItemsTrack ==
  ASSUME NEW t, NEW q, NEW c, NEW items, NEW m, Tracks(t, q, c, items, m), NEW items2,
         \A o \in DOMAIN items : o \in DOMAIN c.openIndex =>
           /\ o \in DOMAIN items2 /\ items2[o].part = items[o].part
           /\ items2[o].type = items[o].type
  PROVE  Tracks(t, q, c, items2, m)
<1>1. PICK B : /\ Tells(t, q, c.out, "open", B, m, "unspecified", NoUsage)
               /\ OutputBlock(c.open, c.openIndex, items, m, B)
  BY DEF Tracks
<1>2. OutputBlock(c.open, c.openIndex, items2, m, B)
  BY <1>1 DEF OutputBlock, BlockAt
<1> QED BY <1>1, <1>2 DEF Tracks

\* An open output, if any, has its block at its part.
LEMMA TrackedOutput ==
  ASSUME NEW t, NEW q, NEW c, NEW items, NEW m, Tracks(t, q, c, items, m),
         NEW o \in DOMAIN c.openIndex
  PROVE  /\ o \in DOMAIN items /\ items[o].part \in 1..Len(m) /\ m \in Seq(ContentSet)
         /\ Tells(t, q, c.out, "open", {Block(items[o].part - 1, m[items[o].part].kind)}, m,
                  "unspecified", NoUsage)
         /\ BlockAt(o, c.open, c.openIndex, items, m,
                    {Block(items[o].part - 1, m[items[o].part].kind)})
<1>1. PICK B : /\ Tells(t, q, c.out, "open", B, m, "unspecified", NoUsage)
               /\ OutputBlock(c.open, c.openIndex, items, m, B)
  BY DEF Tracks
<1>2. PICK p \in DOMAIN items : BlockAt(p, c.open, c.openIndex, items, m, B)
  BY <1>1 DEF OutputBlock
<1>3. p = o
  BY <1>2 DEF BlockAt
<1>4. BlockAt(o, c.open, c.openIndex, items, m, B)
  BY <1>2, <1>3
<1>5. B = {Block(items[o].part - 1, m[items[o].part].kind)} /\ items[o].part \in 1..Len(m)
  BY <1>4 DEF BlockAt
<1>6. m \in Seq(ContentSet)
  BY <1>1, TellsFacts
<1> QED BY <1>1, <1>2, <1>3, <1>4, <1>5, <1>6

\* No block is open any more.
Closed(t, q, c, d, m) ==
  /\ IsResponses(d) /\ SameFlags(c, d) /\ d.nextIndex = c.nextIndex
  /\ d.open = <<>> /\ DOMAIN d.openIndex = {}
  /\ Tells(t, q, d.out, "open", {}, m, "unspecified", NoUsage)

LEMMA ClosedFacts ==
  ASSUME NEW t, NEW q, NEW c, NEW items, NEW m, Tracks(t, q, c, items, m)
  PROVE  Closed(t, q, c, Responses!CloseOpenOutput(c), m)
<1> DEFINE n == c.nextIndex
<1> DEFINE o == c.open
<1> DEFINE i == c.openIndex
<1> DEFINE x == c.out
<1>1. PICK B : Tells(t, q, x, "open", B, m, "unspecified", NoUsage)
               /\ OutputBlock(o, i, items, m, B)
  BY DEF Tracks
<1>2. c = ResponsesClient(c, n, o, i, x)
  BY DEF Tracks, IsResponses
<1> HIDE DEF n, o, i, x
<1>3. ClosesTo(t, q, Responses!CloseOpenOutput(ResponsesClient(c, n, o, i, x)), c, n, m)
  BY <1>1, ResponsesCloses
<1> DEFINE d == Responses!CloseOpenOutput(c)
<1>4. ClosesTo(t, q, d, c, n, m)
  BY <1>2, <1>3
<1> HIDE DEF d
<1>5. PICK index, out : /\ d = ResponsesClient(c, n, <<>>, index, out) /\ DOMAIN index = {}
                        /\ Tells(t, q, out, "open", {}, m, "unspecified", NoUsage)
  BY <1>4 DEF ClosesTo
<1>6. /\ d.nextIndex = n /\ d.open = <<>> /\ d.openIndex = index /\ d.out = out
      /\ SameFlags(c, d) /\ IsResponses(d)
  BY <1>5, ResponsesFields
<1>7. Closed(t, q, c, d, m)
  BY <1>5, <1>6 DEF Closed, n
<1> QED BY <1>7 DEF d

LEMMA ClosedTracks ==
  ASSUME NEW t, NEW q, NEW c, NEW d, NEW m, Closed(t, q, c, d, m), c.nextIndex = Len(m),
         NEW items
  PROVE  Tracks(t, q, d, items, m)
BY DEF Closed, Tracks, OutputBlock

\* Closing an output closes its block, if it has one.
LEMMA CloseOutputTracks ==
  ASSUME NEW t, NEW q, NEW c, NEW items, NEW m, Tracks(t, q, c, items, m), NEW o
  PROVE  LET d == Responses!CloseOutputBlock(c, o) IN
         /\ Tracks(t, q, d, items, m) /\ SameFlags(c, d) /\ o \notin DOMAIN d.openIndex
<1> DEFINE d == Responses!CloseOutputBlock(c, o)
<1>1. CASE o \notin DOMAIN c.openIndex
  <2>1. d = c
    BY <1>1 DEF Responses!CloseOutputBlock
  <2> QED BY <1>1, <2>1 DEF SameFlags
<1>2. CASE o \in DOMAIN c.openIndex
  <2> DEFINE z == Responses!CloseOpenOutput(c)
  <2> DEFINE i == items[o].part - 1
  <2>1. c.open = <<[output |-> o, index |-> i]>> /\ c.openIndex[o] = i
    <3> DEFINE B == {Block(items[o].part - 1, m[items[o].part].kind)}
    <3>1. BlockAt(o, c.open, c.openIndex, items, m, B)
      BY <1>2, TrackedOutput
    <3> HIDE DEF B
    <3> QED BY <3>1 DEF BlockAt
  <2>2. c.open # <<>> /\ Head(c.open).output = o /\ Head(c.open).index = i
    BY <2>1
  <2> DEFINE e == Responses!Emit(c, Responses!ContentStop(i))
  <2>3. e.open = c.open
    <3> DEFINE n == c.nextIndex
    <3> DEFINE p == c.open
    <3> DEFINE y == c.openIndex
    <3> DEFINE x == c.out
    <3>1. c = ResponsesClient(c, n, p, y, x)
      BY DEF Tracks, IsResponses
    <3> HIDE DEF n, p, y, x
    <3>2. e = ResponsesClient(c, n, p, y, Append(x, Responses!ContentStop(i)))
      BY <3>1, ResponsesEmits
    <3> HIDE DEF e
    <3>3. e.open = p
      BY <3>2, ResponsesFields
    <3> QED BY <3>3 DEF p
  <2> HIDE DEF e
  <2>4. z = [e EXCEPT !.openIndex = Responses!Forget(@, o), !.open = <<>>]
    BY <2>2 DEF Responses!CloseOpenOutput, e
  <2>5. d = [e EXCEPT !.openIndex = Responses!Forget(@, o),
                      !.open = IF @ # <<>> /\ Head(@).output = o THEN <<>> ELSE @]
    BY <1>2, <2>1 DEF Responses!CloseOutputBlock, e
  <2>6. (IF e.open # <<>> /\ Head(e.open).output = o THEN <<>> ELSE e.open) = <<>>
    BY <2>2, <2>3
  <2>7. d = z
    BY <2>4, <2>5, <2>6
  <2> HIDE DEF d, z
  <2>8. Closed(t, q, c, d, m)
    BY <2>7, ClosedFacts DEF z
  <2>9. Tracks(t, q, d, items, m)
    BY <2>8, ClosedTracks DEF Tracks
  <2> QED BY <2>8, <2>9 DEF Closed, d
<1> QED BY <1>1, <1>2

\* A block is opened for an output that has none.
LEMMA StartTracks ==
  ASSUME NEW t, NEW q, NEW c, NEW items, NEW m, Tracks(t, q, c, items, m),
         NEW o, o \notin DOMAIN c.openIndex, NEW kind \in TextKinds \union {"tool"},
         NEW item \in ItemNames, NEW call \in Nat,
         NEW items2, o \in DOMAIN items2, items2[o].part = Len(m) + 1,
         (items2[o].type = "function_call") = (kind = "tool")
  PROVE  LET d == Responses!StartOutputBlock(c, o, kind, item, call) IN
         /\ Tracks(t, q, d, items2, Append(m, Content(kind, item, call, <<>>)))
         /\ SameFlags(c, d)
<1> DEFINE n == Len(m)
<1> DEFINE w == Content(kind, item, call, <<>>)
<1> DEFINE m2 == Append(m, w)
<1> DEFINE z == Responses!CloseOpenOutput(c)
<1> DEFINE d == Responses!StartOutputBlock(c, o, kind, item, call)
<1>1. Closed(t, q, c, z, m) /\ c.nextIndex = n
  BY ClosedFacts DEF Tracks
<1> HIDE DEF z
<1>2. /\ Tells(t, q, z.out, "open", {}, m, "unspecified", NoUsage)
      /\ z = ResponsesClient(z, n, <<>>, z.openIndex, z.out) /\ DOMAIN z.openIndex = {}
      /\ SameFlags(c, z)
  BY <1>1 DEF Closed, IsResponses
<1> DEFINE i == z.openIndex
<1> DEFINE x == z.out
<1> DEFINE p == <<[output |-> o, index |-> n]>>
<1> DEFINE y == Responses!Put(i, o, n)
<1> DEFINE e == ContentStart(n, kind, item, call)
<1>3. /\ z = ResponsesClient(z, n, <<>>, i, x) /\ DOMAIN i = {}
      /\ Tells(t, q, x, "open", {}, m, "unspecified", NoUsage)
  BY <1>2
<1> DEFINE a == Responses!OpenOutputBlock(c, o)
<1>4. a = NextOpened(z, n + 1, p, y)
  <2>1. z.nextIndex = n
    BY <1>1 DEF Closed
  <2>2. a = [z EXCEPT !.nextIndex = @ + 1, !.open = <<[output |-> o, index |-> c.nextIndex]>>,
                      !.openIndex = Responses!Put(@, o, c.nextIndex)]
    BY DEF Responses!OpenOutputBlock, z
  <2> HIDE DEF a
  <2>3. a = [z EXCEPT !.nextIndex = n + 1, !.open = p, !.openIndex = y]
    BY <1>1, <2>1, <2>2
  <2> HIDE DEF p, y
  <2> QED BY <2>3 DEF NextOpened
<1> HIDE DEF i, x, a
<1>5. DOMAIN y = {o} /\ y[o] = n
  <2> HIDE DEF n
  <2>1. DOMAIN y = DOMAIN i \union {o}
    BY DEF Responses!Put
  <2>2. y[o] = n
    BY DEF Responses!Put
  <2> HIDE DEF y
  <2> QED BY <1>3, <2>1, <2>2
<1> HIDE DEF y, p
<1>6. a = ResponsesClient(z, n + 1, p, y, x)
  <2> DEFINE none == <<>>
  <2>1. z = ResponsesClient(z, n, none, i, x)
    BY <1>3
  <2> HIDE DEF none
  <2>2. NextOpened(ResponsesClient(z, n, none, i, x), n + 1, p, y)
          = ResponsesClient(z, n + 1, p, y, x)
    BY NextOpenedFacts
  <2> QED BY <1>4, <2>1, <2>2
<1>7. d = ResponsesClient(z, n + 1, p, y, Append(x, e))
  <2>1. a.openIndex[o] = n
    BY <1>5, <1>6, ResponsesFields
  <2>2. d = Responses!Emit(a, Responses!ContentStart(n, kind, item, call))
    BY <2>1 DEF Responses!StartOutputBlock, a
  <2>3. d = Responses!Emit(a, e)
    BY <2>2, ResponsesEvents
  <2> HIDE DEF d, e
  <2> QED BY <1>6, <2>3, ResponsesEmits
<1> HIDE DEF d
<1>8. Tells(t, q, Append(x, e), "open", {Block(n, kind)}, m2, "unspecified", NoUsage)
  <2> DEFINE b == Block(n, kind)
  <2>1. Tells(t, q, Append(x, e), "open", {} \union {b}, m2, "unspecified", NoUsage)
    BY <1>3, TellsOpen
  <2> HIDE DEF b, e, m2
  <2>2. {} \union {b} = {b}
    OBVIOUS
  <2> QED BY <2>1, <2>2 DEF b
<1> HIDE DEF e
<1>9. m \in Seq(ContentSet) /\ w \in ContentSet /\ w.kind = kind
  <2> DEFINE none == <<>>
  <2>1. none \in Seq(Nat) /\ kind \in ContentKinds
    BY DEF ContentKinds
  <2> HIDE DEF none
  <2>2. Content(kind, item, call, none) \in ContentSet /\ Content(kind, item, call, none).kind = kind
    BY <2>1, ContentFacts
  <2> QED BY <1>3, <2>2, TellsFacts DEF none
<1> HIDE DEF w
<1>10. n \in Nat /\ Len(m2) = n + 1 /\ m2[n + 1] = w
  BY <1>9
<1> HIDE DEF m2, n
<1>11. BlockAt(o, p, y, items2, m2, {Block(n, kind)})
  <2>1. items2[o].part \in 1..Len(m2) /\ items2[o].part - 1 = n /\ items2[o].part = n + 1
    BY <1>10 DEF n
  <2>2. m2[items2[o].part].kind = kind
    BY <1>9, <1>10, <2>1
  <2>3. p = <<[output |-> o, index |-> n]>>
    BY DEF p
  <2> QED BY <1>5, <2>1, <2>2, <2>3 DEF BlockAt
<1>12. OutputBlock(p, y, items2, m2, {Block(n, kind)})
  BY <1>11 DEF OutputBlock
<1>13. /\ d.nextIndex = n + 1 /\ d.open = p /\ d.openIndex = y /\ d.out = Append(x, e)
       /\ SameFlags(z, d) /\ IsResponses(d)
  <2> DEFINE n2 == n + 1
  <2> DEFINE x2 == Append(x, e)
  <2>1. d = ResponsesClient(z, n2, p, y, x2)
    BY <1>7
  <2> HIDE DEF n2, x2
  <2>2. /\ d.nextIndex = n2 /\ d.open = p /\ d.openIndex = y /\ d.out = x2
        /\ SameFlags(z, d) /\ IsResponses(d)
    BY <2>1, ResponsesFields
  <2> QED BY <2>2 DEF n2, x2
<1>14. Tracks(t, q, d, items2, m2)
  BY <1>8, <1>10, <1>12, <1>13 DEF Tracks
<1>15. SameFlags(c, d)
  BY <1>2, <1>13 DEF SameFlags
<1> QED BY <1>14, <1>15 DEF d, m2, w

\* What is emitted alone.
LEMMA EmitFacts ==
  ASSUME NEW c, IsResponses(c), NEW e
  PROVE  LET d == Responses!Emit(c, e) IN
         /\ IsResponses(d) /\ SameFlags(c, d) /\ d.nextIndex = c.nextIndex /\ d.open = c.open
         /\ d.openIndex = c.openIndex /\ d.out = Append(c.out, e)
<1> DEFINE n == c.nextIndex
<1> DEFINE p == c.open
<1> DEFINE y == c.openIndex
<1> DEFINE x == c.out
<1> DEFINE d == Responses!Emit(c, e)
<1> DEFINE x2 == Append(x, e)
<1>1. c = ResponsesClient(c, n, p, y, x)
  BY DEF IsResponses
<1> HIDE DEF n, p, y, x
<1>2. d = ResponsesClient(c, n, p, y, x2)
  BY <1>1, ResponsesEmits
<1> HIDE DEF d, x2
<1>3. /\ d.nextIndex = n /\ d.open = p /\ d.openIndex = y /\ d.out = x2
      /\ SameFlags(c, d) /\ IsResponses(d)
  BY <1>2, ResponsesFields
<1> QED BY <1>3 DEF n, p, y, x, d, x2

\* The open block where the contents keep their kinds.
LEMMA OutputKept ==
  ASSUME NEW open, NEW index, NEW items, NEW m, NEW B, OutputBlock(open, index, items, m, B),
         NEW m2, Len(m) \in Nat, Len(m2) \in Nat, Len(m2) >= Len(m),
         \A k \in 1..Len(m) : m2[k].kind = m[k].kind
  PROVE  OutputBlock(open, index, items, m2, B)
<1>1. ASSUME NEW o \in DOMAIN items, BlockAt(o, open, index, items, m, B)
      PROVE  BlockAt(o, open, index, items, m2, B)
  <2> DEFINE k == items[o].part
  <2> DEFINE p == open
  <2>1. k \in 1..Len(m) /\ m2[k].kind = m[k].kind /\ k \in 1..Len(m2)
    BY <1>1 DEF BlockAt
  <2> QED BY <1>1, <2>1 DEF BlockAt
<1> QED BY <1>1 DEF OutputBlock

\* A fragment of an open output.
LEMMA DeltaTracks ==
  ASSUME NEW t, NEW q, NEW c, NEW items, NEW m, Tracks(t, q, c, items, m),
         NEW o \in DOMAIN c.openIndex, NEW kind \in DeltaKinds,
         FitsKind(kind, m[items[o].part].kind), NEW text \in Seq(Nat)
  PROVE  LET d == Responses!Emit(c, Responses!ContentDelta(c.openIndex[o], kind, text)) IN
         /\ Tracks(t, q, d, items, Amend(m, items[o].part, kind, text)) /\ SameFlags(c, d)
<1> DEFINE k == items[o].part
<1> DEFINE b == Block(k - 1, m[k].kind)
<1> DEFINE B == {b}
<1> DEFINE m2 == Amend(m, k, kind, text)
<1> DEFINE e == ContentDelta(k - 1, kind, text)
<1> DEFINE d == Responses!Emit(c, Responses!ContentDelta(c.openIndex[o], kind, text))
<1>1. /\ o \in DOMAIN items /\ k \in 1..Len(m) /\ m \in Seq(ContentSet)
      /\ Tells(t, q, c.out, "open", B, m, "unspecified", NoUsage)
      /\ BlockAt(o, c.open, c.openIndex, items, m, B)
  BY TrackedOutput
<1>2. b \in B /\ b.index = k - 1 /\ b.kind = m[k].kind /\ k - 1 + 1 = k /\ c.openIndex[o] = k - 1
  BY <1>1 DEF Block, BlockAt
<1> HIDE DEF b, B
<1>3. d = Responses!Emit(c, e)
  BY <1>2, ResponsesEvents
<1>4. Tells(t, q, Append(c.out, e), "open", B, m2, "unspecified", NoUsage)
  <2> HIDE DEF k
  <2>1. Tells(t, q, Append(c.out, ContentDelta(b.index, kind, text)), "open", B,
              Amend(m, b.index + 1, kind, text), "unspecified", NoUsage)
    BY <1>1, <1>2, TellsDelta DEF k
  <2> QED BY <1>2, <2>1
<1> HIDE DEF e, d
<1>5. /\ IsResponses(d) /\ SameFlags(c, d) /\ d.nextIndex = c.nextIndex /\ d.open = c.open
      /\ d.openIndex = c.openIndex /\ d.out = Append(c.out, e)
  BY <1>3, EmitFacts DEF Tracks
<1>6. Len(m2) = Len(m) /\ \A i \in 1..Len(m) : m2[i].kind = m[i].kind
  BY <1>1, AmendFacts
<1> HIDE DEF m2, k
<1>7. OutputBlock(c.open, c.openIndex, items, m2, B)
  <2>1. OutputBlock(c.open, c.openIndex, items, m, B)
    BY <1>1 DEF OutputBlock
  <2>2. Len(m) \in Nat /\ Len(m2) \in Nat /\ Len(m2) >= Len(m)
    BY <1>1, <1>6
  <2> QED BY <1>6, <2>1, <2>2, OutputKept
<1>8. Tracks(t, q, d, items, m2)
  BY <1>4, <1>5, <1>6, <1>7 DEF Tracks
<1> QED BY <1>5, <1>8 DEF d, m2, k

\* A content that is passed on whole.
LEMMA SnapshotTracks ==
  ASSUME NEW t, NEW q, NEW c, NEW items, NEW m, Tracks(t, q, c, items, m),
         NEW item \in ItemNames, NEW text \in Seq(Nat)
  PROVE  LET d == Advanced(Responses!Emit(c, Responses!ContentSnapshot(c.nextIndex, item, text)),
                           c.nextIndex + 1) IN
         /\ Tracks(t, q, d, items, Append(m, Content("opaque", item, 0, text))) /\ SameFlags(c, d)
<1> DEFINE n == Len(m)
<1> DEFINE w == Content("opaque", item, 0, text)
<1> DEFINE m2 == Append(m, w)
<1> DEFINE e == ContentSnapshot(n, item, text)
<1> DEFINE a == Responses!Emit(c, Responses!ContentSnapshot(c.nextIndex, item, text))
<1> DEFINE d == Advanced(a, c.nextIndex + 1)
<1>1. PICK B : /\ Tells(t, q, c.out, "open", B, m, "unspecified", NoUsage)
               /\ OutputBlock(c.open, c.openIndex, items, m, B)
  BY DEF Tracks
<1>2. c.nextIndex = n /\ IsResponses(c) /\ m \in Seq(ContentSet) /\ n \in Nat
  BY <1>1, TellsFacts DEF Tracks
<1>3. a = Responses!Emit(c, e)
  BY <1>2, ResponsesEvents
<1>4. Tells(t, q, Append(c.out, e), "open", B, m2, "unspecified", NoUsage)
  BY <1>1, TellsSnapshot
<1> HIDE DEF e, a
<1>5. /\ IsResponses(a) /\ SameFlags(c, a) /\ a.nextIndex = c.nextIndex /\ a.open = c.open
      /\ a.openIndex = c.openIndex /\ a.out = Append(c.out, e)
  BY <1>2, <1>3, EmitFacts
<1>6. w \in ContentSet
  <2> DEFINE kind == "opaque"
  <2>1. kind \in ContentKinds /\ 0 \in Nat
    BY DEF ContentKinds
  <2> HIDE DEF kind
  <2>2. Content(kind, item, 0, text) \in ContentSet
    BY <2>1, ContentFacts
  <2> QED BY <2>2 DEF kind
<1> HIDE DEF w
<1>7. Len(m2) = n + 1 /\ \A i \in 1..n : m2[i].kind = m[i].kind
  BY <1>2, <1>6
<1> HIDE DEF m2
<1>8. OutputBlock(c.open, c.openIndex, items, m2, B)
  <2>1. Len(m) \in Nat /\ Len(m2) \in Nat /\ Len(m2) >= Len(m)
    BY <1>2, <1>7
  <2> QED BY <1>1, <1>7, <2>1, OutputKept
<1>9. /\ d.nextIndex = n + 1 /\ d.open = a.open /\ d.openIndex = a.openIndex /\ d.out = a.out
      /\ SameFlags(a, d) /\ IsResponses(d)
  <2> DEFINE p == a.open
  <2> DEFINE y == a.openIndex
  <2> DEFINE x == a.out
  <2> DEFINE k == a.nextIndex
  <2> DEFINE z == c.nextIndex + 1
  <2>1. a = ResponsesClient(a, k, p, y, x) /\ z = n + 1
    BY <1>2, <1>5 DEF IsResponses
  <2> HIDE DEF p, y, x, k, z
  <2>2. d = ResponsesClient(a, z, p, y, x)
    BY <2>1, AdvancedFacts DEF z
  <2> HIDE DEF d
  <2>3. /\ d.nextIndex = z /\ d.open = p /\ d.openIndex = y /\ d.out = x
        /\ SameFlags(a, d) /\ IsResponses(d)
    BY <2>2, ResponsesFields
  <2> QED BY <2>1, <2>3 DEF p, y, x
<1> HIDE DEF d
<1>10. Tracks(t, q, d, items, m2)
  BY <1>4, <1>5, <1>7, <1>8, <1>9 DEF Tracks
<1>11. SameFlags(c, d)
  BY <1>5, <1>9 DEF SameFlags
<1> QED BY <1>10, <1>11 DEF d, a, m2, w

\* The provider's output items.
Itemed(s, items) == [s EXCEPT !.items = items]

HasItems(s, s2, items) ==
  /\ SentOK(s2) /\ s2.items = items /\ s2.contents = s.contents /\ s2.began = s.began
  /\ s2.reason = s.reason /\ s2.usage = s.usage

LEMMA ItemedFacts ==
  ASSUME NEW s, SentOK(s), NEW items \in ItemMaps
  PROVE  HasItems(s, Itemed(s, items), items)
BY DEF SentSet, SentOK, Itemed, HasItems

HasItem(items, items2, o, v) ==
  /\ o \in Nat /\ o \notin DOMAIN items /\ items2 \in ItemMaps
  /\ DOMAIN items2 = DOMAIN items \union {o} /\ items2[o] = v
  /\ \A x \in DOMAIN items : items2[x] = items[x]

LEMMA NewItem ==
  ASSUME NEW items \in ItemMaps, NEW v \in ItemSet, NEW o, o = Cardinality(DOMAIN items)
  PROVE  HasItem(items, Put(items, o, v), o, v)
<1>1. PICK n \in Nat : items \in [0..(n - 1) -> ItemSet]
  BY DEF ItemMaps
<1>2. Cardinality(0..(n - 1)) = n
  <2>1. 0 \in Int /\ n - 1 \in Int
    OBVIOUS
  <2>2. Cardinality(0..(n - 1)) = IF 0 > n - 1 THEN 0 ELSE n - 1 - 0 + 1
    BY <2>1, FS_Interval
  <2> QED BY <2>2
<1>3. o = n
  BY <1>1, <1>2
<1>4. Put(items, o, v) \in [0..(n + 1 - 1) -> ItemSet]
  BY <1>1, <1>3 DEF Put
<1>5. n + 1 \in Nat
  OBVIOUS
<1>6. Put(items, o, v) \in ItemMaps
  BY <1>4, <1>5 DEF ItemMaps
<1> QED BY <1>1, <1>3, <1>6 DEF Put, HasItem

Changed(items, o, v) == [items EXCEPT ![o] = v]

HasChanged(items, items2, o, v) ==
  /\ items2 \in ItemMaps /\ DOMAIN items2 = DOMAIN items /\ items2[o] = v
  /\ \A x \in DOMAIN items : x # o => items2[x] = items[x]

LEMMA ChangedItem ==
  ASSUME NEW items \in ItemMaps, NEW v \in ItemSet, NEW o \in DOMAIN items
  PROVE  HasChanged(items, Changed(items, o, v), o, v)
<1>1. PICK n \in Nat : items \in [0..(n - 1) -> ItemSet]
  BY DEF ItemMaps
<1> QED BY <1>1 DEF ItemMaps, Changed, HasChanged

\* A turn that goes on.
ResponsesOpen(t, q, c, s) ==
  /\ SentOK(s) /\ s.began = TRUE /\ s.reason = "" /\ s.usage = NoUsage
  /\ Tracks(t, q, c, s.items, s.contents) /\ PhasesKnown(c.outputPhase, s.items)
  /\ c.messageStarted = TRUE /\ c.stopEmitted = FALSE /\ c.failed = FALSE

LEMMA ResponsesCreatedStep ==
  ASSUME NEW t, NEW q, Tells(t, q, <<>>, "new", {}, <<>>, "unspecified", NoUsage),
         NEW s2, s2 = [NewProvider EXCEPT !.began = TRUE]
  PROVE  ResponsesOpen(t, q, Responses!OnCreated(Responses!NewClient), s2)
<1> DEFINE c == Responses!NewClient
<1> DEFINE e == MessageStart(NoUsage)
<1> DEFINE a == Responses!Emit(c, Responses!MessageStart(Responses!NoUsage))
<1> DEFINE d == Started(a, TRUE)
<1>1. /\ IsResponses(c) /\ c.nextIndex = 0 /\ c.open = <<>> /\ DOMAIN c.openIndex = {}
      /\ DOMAIN c.outputPhase = {} /\ c.messageStarted = FALSE /\ c.stopEmitted = FALSE
      /\ c.failed = FALSE /\ c.out = <<>>
  BY DEF Responses!NewClient, IsResponses, ResponsesClient
<1> HIDE DEF c
<1>2. a = Responses!Emit(c, e)
  BY ResponsesEvents
<1> DEFINE x == Append(<<>>, e)
<1>3. Tells(t, q, x, "open", {}, <<>>, "unspecified", NoUsage)
  <2>1. NoUsage \in Usages /\ MergeUsage(NoUsage, NoUsage) = NoUsage
    BY DEF NoUsage, MergeUsage, Usages
  <2> DEFINE none == <<>>
  <2> DEFINE v == NoUsage
  <2>2. Tells(t, q, none, "new", {}, none, "unspecified", v) /\ v \in Usages
    BY <2>1
  <2> HIDE DEF none, v
  <2>3. Tells(t, q, Append(none, MessageStart(v)), "open", {}, none, "unspecified", MergeUsage(v, v))
    BY <2>2, TellsStart
  <2> QED BY <2>1, <2>3 DEF none, v
<1> HIDE DEF e, a
<1>4. /\ IsResponses(a) /\ SameFlags(c, a) /\ a.nextIndex = 0 /\ a.open = <<>>
      /\ a.openIndex = c.openIndex /\ a.out = x
  BY <1>1, <1>2, EmitFacts
<1> HIDE DEF x
<1>5. /\ SameBlocks(a, d) /\ d.messageStarted = TRUE /\ d.stopEmitted = FALSE /\ d.failed = FALSE
      /\ DOMAIN d.outputPhase = {}
  <2>1. /\ SameBlocks(a, d) /\ d.messageStarted = TRUE /\ d.stopEmitted = a.stopEmitted
        /\ d.outputPhase = a.outputPhase /\ d.failed = a.failed
    BY <1>4, StartedFacts
  <2>2. a.stopEmitted = FALSE /\ a.failed = FALSE /\ a.outputPhase = c.outputPhase
    BY <1>1, <1>4 DEF SameFlags
  <2> HIDE DEF d
  <2> QED BY <1>1, <2>1, <2>2
<1>6. Responses!OnCreated(c) = d
  BY DEF Responses!OnCreated, Started, a
<1> HIDE DEF d
<1>7. /\ SentOK(s2) /\ s2.began = TRUE /\ s2.reason = "" /\ s2.usage = NoUsage
      /\ s2.contents = <<>> /\ DOMAIN s2.items = {}
  <2>1. <<>> \in ItemMaps
    <3>1. <<>> \in [0..(0 - 1) -> ItemSet] /\ 0 \in Nat
      OBVIOUS
    <3> QED BY <3>1 DEF ItemMaps
  <2>2. <<>> \in Seq(ContentSet) /\ <<>> \in OneOrNone(Nat) /\ NoUsage \in Usages
    BY DEF OneOrNone, NoUsage, Usages
  <2> DEFINE none == <<>>
  <2> DEFINE v == NoUsage
  <2> DEFINE r == [began |-> TRUE, contents |-> none, written |-> 0, items |-> none,
                   block |-> none, reason |-> "", usage |-> v]
  <2>3. s2 = r
    BY DEF NewProvider
  <2>4. v \in Usages /\ v.in = 0 /\ v.out = 0 /\ DOMAIN none = {}
    BY DEF NoUsage, Usages
  <2>5. none \in ItemMaps /\ none \in Seq(ContentSet) /\ none \in OneOrNone(Nat)
    BY <2>1, <2>2
  <2> HIDE DEF none, v
  <2>6. r \in SentSet
    BY <2>4, <2>5 DEF SentSet
  <2>7. /\ r.began = TRUE /\ r.reason = "" /\ r.usage = v /\ r.written = 0
        /\ r.contents = none /\ r.items = none
    OBVIOUS
  <2> HIDE DEF r
  <2>8. SentOK(r)
    <3>1. r.usage.in = 0 /\ r.usage.out = 0
      BY <2>4, <2>7
    <3>2. r.written = 0
      BY <2>7
    <3> DEFINE i == r.usage.in
    <3> DEFINE j == r.usage.out
    <3> DEFINE k == r.written
    <3>3. i = 0 /\ j = 0 /\ k = 0
      BY <3>1, <3>2
    <3> HIDE DEF i, j, k
    <3>4. i <= 1 /\ j <= k
      BY <3>3
    <3> QED BY <2>6, <3>4 DEF SentOK, i, j, k
  <2> QED BY <2>3, <2>4, <2>7, <2>8 DEF none, v
<1>8. Tracks(t, q, d, s2.items, <<>>)
  <2>1. /\ IsResponses(d) /\ d.nextIndex = 0 /\ d.open = <<>> /\ DOMAIN d.openIndex = {}
        /\ d.out = x
    BY <1>1, <1>4, <1>5 DEF SameBlocks
  <2>2. Len(<<>>) = 0
    OBVIOUS
  <2> QED BY <1>3, <2>1, <2>2 DEF Tracks, OutputBlock
<1> QED BY <1>5, <1>6, <1>7, <1>8 DEF ResponsesOpen, PhasesKnown, c

\* A step that writes no flag but hasFunctionCall.
LEMMA StaysOpen ==
  ASSUME NEW c, NEW d, d.messageStarted = c.messageStarted, d.stopEmitted = c.stopEmitted,
         d.failed = c.failed, NEW t, NEW q, NEW s, ResponsesOpen(t, q, c, s),
         NEW s2, SentOK(s2), s2.began = s.began, s2.reason = s.reason, s2.usage = s.usage,
         Tracks(t, q, d, s2.items, s2.contents), PhasesKnown(d.outputPhase, s2.items)
  PROVE  ResponsesOpen(t, q, d, s2)
BY DEF ResponsesOpen

LEMMA StartedContent ==
  ASSUME NEW s, SentOK(s), NEW kind \in TextKinds \union {"tool"}, NEW item \in ItemNames,
         NEW call \in Nat
  PROVE  LET s1 == Adds(s, Content(kind, item, call, <<>>)) IN
         /\ SentOK(s1) /\ SameTurn(s, s1) /\ s.contents \in Seq(ContentSet)
         /\ s1.contents = Append(s.contents, Content(kind, item, call, <<>>))
         /\ Len(s1.contents) = Len(s.contents) + 1 /\ Len(s1.contents) \in Nat
<1> DEFINE none == <<>>
<1>1. none \in Seq(Nat) /\ kind \in ContentKinds
  BY DEF ContentKinds
<1> HIDE DEF none
<1> DEFINE w == Content(kind, item, call, none)
<1>2. w \in ContentSet
  BY <1>1, ContentFacts
<1> HIDE DEF w
<1> DEFINE s1 == Adds(s, w)
<1>3. SentOK(s1) /\ SameTurn(s, s1) /\ s1.contents = Append(s.contents, w)
  BY <1>2, AddsFacts
<1>4. s.contents \in Seq(ContentSet)
  BY DEF SentOK, SentSet
<1>5. Len(Append(s.contents, w)) = Len(s.contents) + 1 /\ Len(s.contents) + 1 \in Nat
  BY <1>2, <1>4
<1> HIDE DEF s1
<1>6. Len(s1.contents) = Len(s.contents) + 1 /\ Len(s1.contents) \in Nat
  BY <1>3, <1>5
<1> QED BY <1>3, <1>4, <1>6 DEF s1, w, none

\* Of a new item, the client remembers the phase.
LEMMA PhaseAdded ==
  ASSUME NEW phases, NEW items, PhasesKnown(phases, items), NEW o, o \notin DOMAIN items,
         NEW items2, DOMAIN items2 = DOMAIN items \union {o},
         \A x \in DOMAIN items : items2[x] = items[x], NEW phase, items2[o].phase = phase
  PROVE  PhasesKnown(Responses!Put(phases, o, phase), items2)
BY DEF PhasesKnown, Responses!Put

LEMMA ResponsesItemStep ==
  ASSUME NEW t, NEW q, NEW c, NEW s, ResponsesOpen(t, q, c, s),
         NEW o, o = Cardinality(DOMAIN s.items), NEW v \in ItemSet, v.type # "function_call",
         NEW e, e.output = o, e.type = v.type, e.phase = v.phase
  PROVE  ResponsesOpen(t, q, Responses!OnItemAdded(c, e), Itemed(s, Put(s.items, o, v)))
<1> DEFINE items2 == Put(s.items, o, v)
<1> DEFINE s2 == Itemed(s, items2)
<1> DEFINE d == Phased(c, Responses!Put(c.outputPhase, o, v.phase))
<1>1. /\ SentOK(s) /\ s.items \in ItemMaps /\ Tracks(t, q, c, s.items, s.contents)
      /\ IsResponses(c) /\ PhasesKnown(c.outputPhase, s.items)
  BY DEF ResponsesOpen, SentOK, SentSet, Tracks
<1>2. /\ o \notin DOMAIN s.items /\ items2 \in ItemMaps /\ items2[o] = v
      /\ DOMAIN items2 = DOMAIN s.items \union {o}
      /\ \A x \in DOMAIN s.items : items2[x] = s.items[x]
  <2>1. HasItem(s.items, items2, o, v)
    BY <1>1, NewItem
  <2> HIDE DEF items2
  <2> QED BY <2>1 DEF HasItem
<1> HIDE DEF items2
<1>3. HasItems(s, s2, items2)
  BY <1>1, <1>2, ItemedFacts
<1> HIDE DEF s2
<1> DEFINE phases == Responses!Put(c.outputPhase, o, v.phase)
<1>4. PhasesKnown(phases, items2)
  BY <1>1, <1>2, PhaseAdded
<1> HIDE DEF phases
<1>5. /\ SameBlocks(c, d) /\ d.outputPhase = phases /\ d.messageStarted = c.messageStarted
      /\ d.stopEmitted = c.stopEmitted /\ d.failed = c.failed
  BY <1>1, PhasedFacts DEF phases
<1>6. Responses!OnItemAdded(c, e) = d
  BY DEF Responses!OnItemAdded, Phased
<1> HIDE DEF d
<1>7. Tracks(t, q, d, s2.items, s2.contents)
  <2>1. Tracks(t, q, c, items2, s.contents)
    BY <1>1, <1>2, ItemsTrack
  <2>2. Tracks(t, q, d, items2, s.contents)
    BY <1>5, <2>1, SameTracks
  <2> QED BY <1>3, <2>2 DEF HasItems
<1>8. ResponsesOpen(t, q, d, s2)
  BY <1>3, <1>4, <1>5, <1>7, StaysOpen DEF HasItems
<1> QED BY <1>6, <1>8 DEF s2, items2

LEMMA ResponsesCallStep ==
  ASSUME NEW t, NEW q, NEW c, NEW s, ResponsesOpen(t, q, c, s),
         NEW o, o = Cardinality(DOMAIN s.items), NEW v \in ItemSet, v.type = "function_call",
         v.part = Len(s.contents) + 1,
         NEW item \in ItemNames, NEW call \in Nat,
         NEW e, e.output = o, e.type = v.type, e.phase = v.phase, e.item = item, e.call = call,
         NEW kind, kind = "tool", NEW s1, s1 = Adds(s, Content(kind, item, call, <<>>))
  PROVE  ResponsesOpen(t, q, Responses!OnItemAdded(c, e), Itemed(s1, Put(s.items, o, v)))
<1> DEFINE items2 == Put(s.items, o, v)
<1> DEFINE s2 == Itemed(s1, items2)
<1> DEFINE d == Phased(c, Responses!Put(c.outputPhase, o, v.phase))
<1> DEFINE m2 == Append(s.contents, Content(kind, item, call, <<>>))
<1>1. /\ SentOK(s) /\ s.items \in ItemMaps /\ Tracks(t, q, c, s.items, s.contents)
      /\ IsResponses(c) /\ PhasesKnown(c.outputPhase, s.items)
      /\ kind \in TextKinds \union {"tool"}
  BY DEF ResponsesOpen, SentOK, SentSet, Tracks
<1>2. /\ o \notin DOMAIN s.items /\ items2 \in ItemMaps /\ items2[o] = v
      /\ DOMAIN items2 = DOMAIN s.items \union {o}
      /\ \A x \in DOMAIN s.items : items2[x] = s.items[x]
  <2>1. HasItem(s.items, items2, o, v)
    BY <1>1, NewItem
  <2> HIDE DEF items2
  <2> QED BY <2>1 DEF HasItem
<1> HIDE DEF items2
<1>3. /\ SentOK(s1) /\ SameTurn(s, s1) /\ s1.contents = m2
  BY <1>1, StartedContent
<1> HIDE DEF m2
<1>4. HasItems(s1, s2, items2)
  BY <1>2, <1>3, ItemedFacts
<1> HIDE DEF s2
<1> DEFINE phases == Responses!Put(c.outputPhase, o, v.phase)
<1>5. PhasesKnown(phases, items2)
  BY <1>1, <1>2, PhaseAdded
<1> HIDE DEF phases
<1>6. /\ SameBlocks(c, d) /\ d.outputPhase = phases /\ d.messageStarted = c.messageStarted
      /\ d.stopEmitted = c.stopEmitted /\ d.failed = c.failed
  BY <1>1, PhasedFacts DEF phases
<1> DEFINE a == Called(d, TRUE)
<1>7. Responses!OnItemAdded(c, e) = Responses!StartOutputBlock(a, o, "tool", item, call)
  BY DEF Responses!OnItemAdded, Phased, Called
<1> HIDE DEF d
<1>8. /\ SameBlocks(d, a) /\ a.messageStarted = c.messageStarted /\ a.outputPhase = phases
      /\ a.stopEmitted = c.stopEmitted /\ a.failed = c.failed
  <2>1. IsResponses(d)
    BY <1>6 DEF SameBlocks
  <2>2. /\ SameBlocks(d, a) /\ a.messageStarted = d.messageStarted /\ a.outputPhase = d.outputPhase
        /\ a.stopEmitted = d.stopEmitted /\ a.failed = d.failed
    BY <2>1, CalledFacts
  <2> HIDE DEF a
  <2> QED BY <1>6, <2>2
<1> HIDE DEF a
<1>9. Tracks(t, q, a, s.items, s.contents)
  <2>1. Tracks(t, q, d, s.items, s.contents)
    BY <1>1, <1>6, SameTracks
  <2> QED BY <1>8, <2>1, SameTracks
<1>10. o \notin DOMAIN a.openIndex
  BY <1>2, <1>9, TrackedOutput
<1> DEFINE z == Responses!StartOutputBlock(a, o, kind, item, call)
<1>11. Tracks(t, q, z, items2, m2) /\ SameFlags(a, z)
  <2>1. /\ o \in DOMAIN items2 /\ items2[o].part = Len(s.contents) + 1
        /\ (items2[o].type = "function_call") = (kind = "tool")
    BY <1>2
  <2> QED BY <1>1, <1>9, <1>10, <2>1, StartTracks DEF m2
<1>12. Responses!OnItemAdded(c, e) = z
  BY <1>7
<1> HIDE DEF z
<1>13. /\ z.messageStarted = c.messageStarted /\ z.stopEmitted = c.stopEmitted
       /\ z.failed = c.failed /\ z.outputPhase = phases
  BY <1>8, <1>11 DEF SameFlags
<1>14. /\ SentOK(s2) /\ s2.items = items2 /\ s2.contents = m2 /\ s2.began = s.began
       /\ s2.reason = s.reason /\ s2.usage = s.usage
  BY <1>3, <1>4 DEF HasItems, SameTurn
<1>15. ResponsesOpen(t, q, z, s2)
  BY <1>5, <1>11, <1>13, <1>14, StaysOpen
<1> QED BY <1>12, <1>15 DEF s2, items2

\* The provider's items after a change of one that keeps its type and phase.
LEMMA PhaseKept ==
  ASSUME NEW phases, NEW items, PhasesKnown(phases, items), NEW items2, NEW o \in DOMAIN items,
         NEW v, HasChanged(items, items2, o, v), v.phase = items[o].phase
  PROVE  PhasesKnown(phases, items2)
BY DEF PhasesKnown, HasChanged

LEMMA ResponsesPartStep ==
  ASSUME NEW t, NEW q, NEW c, NEW s, ResponsesOpen(t, q, c, s), NEW o \in DOMAIN s.items,
         s.items[o].part = 0, s.items[o].type # "function_call",
         NEW v \in ItemSet, v.part = Len(s.contents) + 1, v.type = s.items[o].type,
         v.phase = s.items[o].phase, NEW kind \in TextKinds, NEW item \in ItemNames,
         NEW s1, s1 = Adds(s, Content(kind, item, 0, <<>>))
  PROVE  /\ o \notin DOMAIN c.openIndex
         /\ ResponsesOpen(t, q, Responses!StartOutputBlock(c, o, kind, item, 0),
                          Itemed(s1, Changed(s.items, o, v)))
<1> DEFINE items2 == Changed(s.items, o, v)
<1> DEFINE s2 == Itemed(s1, items2)
<1> DEFINE z == Responses!StartOutputBlock(c, o, kind, item, 0)
<1> DEFINE m2 == Append(s.contents, Content(kind, item, 0, <<>>))
<1>1. /\ SentOK(s) /\ s.items \in ItemMaps /\ Tracks(t, q, c, s.items, s.contents)
      /\ PhasesKnown(c.outputPhase, s.items)
      /\ kind \in TextKinds \union {"tool"} /\ kind # "tool" /\ 0 \in Nat
  BY DEF ResponsesOpen, SentOK, SentSet, TextKinds
<1>2. HasChanged(s.items, items2, o, v)
  BY <1>1, ChangedItem
<1> HIDE DEF items2
<1>3. /\ SentOK(s1) /\ SameTurn(s, s1) /\ s1.contents = m2
  BY <1>1, StartedContent
<1> HIDE DEF m2
<1>4. HasItems(s1, s2, items2)
  BY <1>2, <1>3, ItemedFacts DEF HasChanged
<1> HIDE DEF s2
<1>5. o \notin DOMAIN c.openIndex
  <2>1. o \in DOMAIN c.openIndex => s.items[o].part \in 1..Len(s.contents)
    BY <1>1, TrackedOutput
  <2> QED BY <2>1
<1>6. Tracks(t, q, z, items2, m2) /\ SameFlags(c, z)
  <2>1. /\ o \in DOMAIN items2 /\ items2[o].part = Len(s.contents) + 1
        /\ (items2[o].type = "function_call") = (kind = "tool")
    BY <1>1, <1>2 DEF HasChanged
  <2> QED BY <1>1, <1>5, <2>1, StartTracks DEF m2
<1> HIDE DEF z
<1>7. /\ z.messageStarted = c.messageStarted /\ z.stopEmitted = c.stopEmitted
      /\ z.failed = c.failed /\ z.outputPhase = c.outputPhase
  BY <1>6 DEF SameFlags
<1>8. /\ SentOK(s2) /\ s2.items = items2 /\ s2.contents = m2 /\ s2.began = s.began
      /\ s2.reason = s.reason /\ s2.usage = s.usage
  BY <1>3, <1>4 DEF HasItems, SameTurn
<1>9. PhasesKnown(z.outputPhase, items2)
  BY <1>1, <1>2, <1>7, PhaseKept
<1>10. ResponsesOpen(t, q, z, s2)
  BY <1>6, <1>7, <1>8, <1>9, StaysOpen
<1> QED BY <1>5, <1>10 DEF s2, items2, z

\* A delta of an output whose block was closed fails.
LEMMA ResponsesDeltaFails ==
  ASSUME NEW c, IsResponses(c), NEW e, e.output \notin DOMAIN c.openIndex
  PROVE  /\ Responses!OnDelta(c, e).failed = TRUE /\ Responses!OnDelta(c, e).out = c.out
         /\ IsResponses(Responses!OnDelta(c, e))
<1> DEFINE d == Failed(c, TRUE)
<1>1. Responses!OnDelta(c, e) = d
  BY DEF Responses!OnDelta, Failed
<1>2. SameBlocks(c, d)
  BY FailedFacts
<1>3. d.failed = TRUE
  BY FailedFacts
<1> HIDE DEF d
<1> QED BY <1>1, <1>2, <1>3 DEF SameBlocks

LEMMA ResponsesDeltaStep ==
  ASSUME NEW t, NEW q, NEW c, NEW s, ResponsesOpen(t, q, c, s), NEW o \in DOMAIN c.openIndex,
         NEW kind, kind = IF s.items[o].type = "function_call" THEN "tool" ELSE "text",
         NEW text \in Seq(Nat), NEW e, e.output = o, e.kind = kind, e.text = text
  PROVE  /\ ResponsesOpen(t, q, Responses!OnDelta(c, e), Writes(s, s.items[o].part, text))
<1> DEFINE m == s.contents
<1> DEFINE k == s.items[o].part
<1> DEFINE s2 == Writes(s, k, text)
<1> DEFINE m2 == Amend(m, k, kind, text)
<1> DEFINE d == Responses!Emit(c, Responses!ContentDelta(c.openIndex[o], kind, text))
<1> DEFINE B == {Block(k - 1, m[k].kind)}
<1>1. /\ SentOK(s) /\ Tracks(t, q, c, s.items, m) /\ PhasesKnown(c.outputPhase, s.items)
      /\ kind \in {"text", "tool"} /\ kind \in DeltaKinds
  BY DEF ResponsesOpen, DeltaKinds
<1>2. /\ k \in 1..Len(m) /\ BlockAt(o, c.open, c.openIndex, s.items, m, B)
      /\ Tells(t, q, c.out, "open", B, m, "unspecified", NoUsage)
  BY <1>1, TrackedOutput
<1>3. FitsKind(kind, m[k].kind)
  <2> DEFINE b == Block(k - 1, m[k].kind)
  <2>1. b \in B /\ b.kind = m[k].kind
    BY DEF Block
  <2> HIDE DEF b, B
  <2>2. b.kind \in TextKinds \union {"tool"}
    BY <1>2, <2>1, TellsFacts
  <2>3. (s.items[o].type = "function_call") = (m[k].kind = "tool")
    BY <1>2 DEF BlockAt
  <2> HIDE DEF k
  <2>4. m[k].kind = "tool" \/ m[k].kind \in TextKinds
    BY <2>1, <2>2
  <2> QED BY <2>3, <2>4 DEF FitsKind
<1>4. /\ SentOK(s2) /\ SameTurn(s, s2) /\ s2.contents = m2
  BY <1>1, <1>2, WritesFacts
<1> HIDE DEF s2
<1>5. Tracks(t, q, d, s.items, m2) /\ SameFlags(c, d)
  BY <1>1, <1>3, DeltaTracks
<1> HIDE DEF m2
<1>6. Responses!OnDelta(c, e) = d
  BY DEF Responses!OnDelta
<1> HIDE DEF d
<1>7. /\ d.messageStarted = c.messageStarted /\ d.stopEmitted = c.stopEmitted
      /\ d.failed = c.failed /\ d.outputPhase = c.outputPhase
  BY <1>5 DEF SameFlags
<1>8. /\ SentOK(s2) /\ s2.items = s.items /\ s2.contents = m2 /\ s2.began = s.began
      /\ s2.reason = s.reason /\ s2.usage = s.usage
  BY <1>4 DEF SameTurn
<1>9. ResponsesOpen(t, q, d, s2)
  BY <1>1, <1>5, <1>7, <1>8, StaysOpen
<1> QED BY <1>6, <1>9 DEF s2

LEMMA ResponsesPartDoneStep ==
  ASSUME NEW t, NEW q, NEW c, NEW s, ResponsesOpen(t, q, c, s), NEW o \in DOMAIN s.items,
         NEW v \in ItemSet, v.phase = s.items[o].phase, NEW e, e.output = o
  PROVE  ResponsesOpen(t, q, Responses!OnPartDone(c, e), Itemed(s, Changed(s.items, o, v)))
<1> DEFINE items2 == Changed(s.items, o, v)
<1> DEFINE s2 == Itemed(s, items2)
<1> DEFINE d == Responses!CloseOutputBlock(c, o)
<1>1. /\ SentOK(s) /\ s.items \in ItemMaps /\ Tracks(t, q, c, s.items, s.contents)
      /\ PhasesKnown(c.outputPhase, s.items)
  BY DEF ResponsesOpen, SentOK, SentSet
<1>2. HasChanged(s.items, items2, o, v)
  BY <1>1, ChangedItem
<1> HIDE DEF items2
<1>3. HasItems(s, s2, items2)
  BY <1>1, <1>2, ItemedFacts DEF HasChanged
<1> HIDE DEF s2
<1>4. Tracks(t, q, d, s.items, s.contents) /\ SameFlags(c, d) /\ o \notin DOMAIN d.openIndex
  BY <1>1, CloseOutputTracks
<1>5. Responses!OnPartDone(c, e) = d
  BY DEF Responses!OnPartDone
<1> HIDE DEF d
<1>6. Tracks(t, q, d, items2, s.contents)
  <2>1. \A x \in DOMAIN s.items : x \in DOMAIN d.openIndex =>
          x \in DOMAIN items2 /\ items2[x] = s.items[x]
    BY <1>2, <1>4 DEF HasChanged
  <2> QED BY <1>4, <2>1, ItemsTrack
<1>7. /\ d.messageStarted = c.messageStarted /\ d.stopEmitted = c.stopEmitted
      /\ d.failed = c.failed /\ d.outputPhase = c.outputPhase
  BY <1>4 DEF SameFlags
<1>8. PhasesKnown(d.outputPhase, items2)
  BY <1>1, <1>2, <1>7, PhaseKept
<1>9. ResponsesOpen(t, q, d, s2)
  BY <1>3, <1>6, <1>7, <1>8, StaysOpen DEF HasItems
<1> QED BY <1>5, <1>9 DEF s2, items2

\* What the end of an item leaves, before what it passes on.
LEMMA ResponsesItemCloses ==
  ASSUME NEW t, NEW q, NEW c, NEW s, ResponsesOpen(t, q, c, s), NEW o, NEW x
  PROVE  LET d == Responses!CloseOutputBlock(Called(c, x), o) IN
         /\ Tracks(t, q, d, s.items, s.contents) /\ o \notin DOMAIN d.openIndex
         /\ d.messageStarted = c.messageStarted /\ d.stopEmitted = c.stopEmitted
         /\ d.failed = c.failed /\ d.outputPhase = c.outputPhase
<1> DEFINE a == Called(c, x)
<1> DEFINE d == Responses!CloseOutputBlock(a, o)
<1>1. Tracks(t, q, c, s.items, s.contents) /\ IsResponses(c)
  BY DEF ResponsesOpen, Tracks
<1>2. /\ SameBlocks(c, a) /\ a.messageStarted = c.messageStarted
      /\ a.stopEmitted = c.stopEmitted /\ a.failed = c.failed /\ a.outputPhase = c.outputPhase
  BY <1>1, CalledFacts
<1> HIDE DEF a
<1>3. Tracks(t, q, a, s.items, s.contents)
  BY <1>1, <1>2, SameTracks
<1>4. Tracks(t, q, d, s.items, s.contents) /\ SameFlags(a, d) /\ o \notin DOMAIN d.openIndex
  BY <1>3, CloseOutputTracks
<1> HIDE DEF d
<1>5. /\ d.messageStarted = c.messageStarted /\ d.stopEmitted = c.stopEmitted
      /\ d.failed = c.failed /\ d.outputPhase = c.outputPhase
  BY <1>2, <1>4 DEF SameFlags
<1> QED BY <1>4, <1>5 DEF a, d

\* An item that passes nothing on.
LEMMA ResponsesItemEnds ==
  ASSUME NEW t, NEW q, NEW c, NEW s, ResponsesOpen(t, q, c, s), NEW o \in DOMAIN s.items,
         NEW v \in ItemSet, v.phase = s.items[o].phase,
         NEW e, e.output = o, e.type # "reasoning" \/ e.encrypted = <<>>
  PROVE  ResponsesOpen(t, q, Responses!OnItemDone(c, e), Itemed(s, Changed(s.items, o, v)))
<1> DEFINE items2 == Changed(s.items, o, v)
<1> DEFINE s2 == Itemed(s, items2)
<1> DEFINE x == c.hasFunctionCall \/ e.type = "function_call"
<1> DEFINE d == Responses!CloseOutputBlock(Called(c, x), o)
<1>1. /\ SentOK(s) /\ s.items \in ItemMaps /\ PhasesKnown(c.outputPhase, s.items)
  BY DEF ResponsesOpen, SentOK, SentSet
<1>2. HasChanged(s.items, items2, o, v)
  BY <1>1, ChangedItem
<1> HIDE DEF items2
<1>3. HasItems(s, s2, items2)
  BY <1>1, <1>2, ItemedFacts DEF HasChanged
<1> HIDE DEF s2
<1>4. Responses!OnItemDone(c, e) = d
  BY DEF Responses!OnItemDone, Called
<1> HIDE DEF x
<1>5. /\ Tracks(t, q, d, s.items, s.contents) /\ o \notin DOMAIN d.openIndex
      /\ d.messageStarted = c.messageStarted /\ d.stopEmitted = c.stopEmitted
      /\ d.failed = c.failed /\ d.outputPhase = c.outputPhase
  BY ResponsesItemCloses
<1> HIDE DEF d
<1>6. Tracks(t, q, d, items2, s.contents)
  <2>1. \A y \in DOMAIN s.items : y \in DOMAIN d.openIndex =>
          y \in DOMAIN items2 /\ items2[y] = s.items[y]
    BY <1>2, <1>5 DEF HasChanged
  <2> QED BY <1>5, <2>1, ItemsTrack
<1>7. PhasesKnown(d.outputPhase, items2)
  BY <1>1, <1>2, <1>5, PhaseKept
<1>8. ResponsesOpen(t, q, d, s2)
  BY <1>3, <1>5, <1>6, <1>7, StaysOpen DEF HasItems
<1> QED BY <1>4, <1>8 DEF s2, items2

\* A reasoning item that passes its encrypted content on.
LEMMA ResponsesItemSnapshot ==
  ASSUME NEW t, NEW q, NEW c, NEW s, ResponsesOpen(t, q, c, s), NEW o \in DOMAIN s.items,
         NEW v \in ItemSet, v.phase = s.items[o].phase, NEW text \in Seq(Nat), text # <<>>,
         NEW item \in ItemNames, NEW e, e.output = o, e.type = "reasoning", e.item = item,
         e.encrypted = text, NEW kind, kind = "opaque",
         NEW s1, s1 = Adds(s, Content(kind, item, 0, text))
  PROVE  ResponsesOpen(t, q, Responses!OnItemDone(c, e), Itemed(s1, Changed(s.items, o, v)))
<1> DEFINE items2 == Changed(s.items, o, v)
<1> DEFINE s2 == Itemed(s1, items2)
<1> DEFINE x == c.hasFunctionCall \/ e.type = "function_call"
<1> DEFINE d == Responses!CloseOutputBlock(Called(c, x), o)
<1> DEFINE m2 == Append(s.contents, Content(kind, item, 0, text))
<1> DEFINE z == Advanced(Responses!Emit(d, Responses!ContentSnapshot(d.nextIndex, item, text)),
                         d.nextIndex + 1)
<1>1. /\ SentOK(s) /\ s.items \in ItemMaps /\ PhasesKnown(c.outputPhase, s.items)
  BY DEF ResponsesOpen, SentOK, SentSet
<1>2. HasChanged(s.items, items2, o, v)
  BY <1>1, ChangedItem
<1> HIDE DEF items2
<1>3. SentOK(s1) /\ SameTurn(s, s1) /\ s1.contents = m2
  <2> DEFINE w == Content(kind, item, 0, text)
  <2>1. kind \in ContentKinds /\ 0 \in Nat
    BY DEF ContentKinds
  <2>2. w \in ContentSet
    BY <2>1, ContentFacts
  <2> QED BY <1>1, <2>2, AddsFacts
<1>4. HasItems(s1, s2, items2)
  BY <1>2, <1>3, ItemedFacts DEF HasChanged
<1> HIDE DEF s2
<1>5. Responses!OnItemDone(c, e) = z
  <2> DEFINE f == Responses!CloseOutputBlock(
                    [c EXCEPT !.hasFunctionCall = @ \/ e.type = "function_call"], e.output)
  <2>1. Responses!OnItemDone(c, e)
          = [Responses!Emit(f, Responses!ContentSnapshot(f.nextIndex, e.item, e.encrypted))
               EXCEPT !.nextIndex = @ + 1]
    BY DEF Responses!OnItemDone
  <2>2. f = d
    BY DEF Called
  <2> HIDE DEF f, d
  <2> DEFINE g == Responses!Emit(d, Responses!ContentSnapshot(d.nextIndex, item, text))
  <2>3. g.nextIndex = d.nextIndex
    <3>1. IsResponses(d)
      <4> HIDE DEF x
      <4>1. Tracks(t, q, d, s.items, s.contents)
        BY ResponsesItemCloses DEF d
      <4> QED BY <4>1 DEF Tracks
    <3> QED BY <3>1, EmitFacts
  <2>4. Responses!OnItemDone(c, e) = [g EXCEPT !.nextIndex = @ + 1]
    BY <2>1, <2>2
  <2> HIDE DEF g
  <2>5. [g EXCEPT !.nextIndex = @ + 1] = Advanced(g, d.nextIndex + 1)
    BY <2>3 DEF Advanced
  <2> QED BY <2>4, <2>5 DEF g
<1> HIDE DEF x
<1>6. /\ Tracks(t, q, d, s.items, s.contents) /\ o \notin DOMAIN d.openIndex
      /\ d.messageStarted = c.messageStarted /\ d.stopEmitted = c.stopEmitted
      /\ d.failed = c.failed /\ d.outputPhase = c.outputPhase
  BY ResponsesItemCloses
<1> HIDE DEF d
<1>7. Tracks(t, q, d, items2, s.contents)
  <2>1. \A y \in DOMAIN s.items : y \in DOMAIN d.openIndex =>
          y \in DOMAIN items2 /\ items2[y] = s.items[y]
    BY <1>2, <1>6 DEF HasChanged
  <2> QED BY <1>6, <2>1, ItemsTrack
<1>8. Tracks(t, q, z, items2, m2) /\ SameFlags(d, z)
  BY <1>7, SnapshotTracks
<1> HIDE DEF z, m2
<1>9. /\ z.messageStarted = c.messageStarted /\ z.stopEmitted = c.stopEmitted
      /\ z.failed = c.failed /\ z.outputPhase = c.outputPhase
  BY <1>6, <1>8 DEF SameFlags
<1>10. PhasesKnown(z.outputPhase, items2)
  BY <1>1, <1>2, <1>9, PhaseKept
<1>11. /\ SentOK(s2) /\ s2.items = items2 /\ s2.contents = m2 /\ s2.began = s.began
       /\ s2.reason = s.reason /\ s2.usage = s.usage
  BY <1>3, <1>4 DEF HasItems, SameTurn
<1>12. ResponsesOpen(t, q, z, s2)
  BY <1>8, <1>9, <1>10, <1>11, StaysOpen
<1> QED BY <1>5, <1>12 DEF s2, items2

\* The end of a turn, reported or not.
ResponsesEnded(c, status, u) ==
  Ended(Responses!Emit(Responses!CloseOpenOutput(c), Responses!MessageStop(status, u)), TRUE)

EndsAs(t, q, z, m, status, u) ==
  /\ IsResponses(z) /\ z.stopEmitted = TRUE /\ z.failed = FALSE
  /\ Tells(t, q, z.out, "stopped", {}, m, status, u)

LEMMA ResponsesStops ==
  ASSUME NEW t, NEW q, NEW c, NEW s, ResponsesOpen(t, q, c, s), NEW status \in Statuses,
         NEW u \in Usages
  PROVE  EndsAs(t, q, ResponsesEnded(c, status, u), s.contents, status, u)
<1> DEFINE m == s.contents
<1> DEFINE a == Responses!CloseOpenOutput(c)
<1> DEFINE e == MessageStop(status, u)
<1> DEFINE b == Responses!Emit(a, Responses!MessageStop(status, u))
<1> DEFINE z == Ended(b, TRUE)
<1>1. Tracks(t, q, c, s.items, m) /\ c.failed = FALSE
  BY DEF ResponsesOpen
<1>2. Closed(t, q, c, a, m)
  BY <1>1, ClosedFacts
<1> HIDE DEF a
<1>3. /\ IsResponses(a) /\ a.failed = FALSE
      /\ Tells(t, q, a.out, "open", {}, m, "unspecified", NoUsage)
  BY <1>1, <1>2 DEF Closed, SameFlags
<1>4. b = Responses!Emit(a, e)
  BY ResponsesEvents
<1>5. Tells(t, q, Append(a.out, e), "stopped", {}, m, status, u)
  <2> DEFINE v == NoUsage
  <2>1. MergeUsage(v, u) = u /\ Tells(t, q, a.out, "open", {}, m, "unspecified", v)
    BY <1>3, MergeFacts DEF NoUsage, Usages
  <2> HIDE DEF v
  <2>2. Tells(t, q, Append(a.out, MessageStop(status, u)), "stopped", {}, m, status,
              MergeUsage(v, u))
    BY <2>1, TellsStop
  <2> QED BY <2>1, <2>2
<1> HIDE DEF e, b
<1>6. IsResponses(b) /\ b.failed = FALSE /\ b.out = Append(a.out, e)
  <2>1. IsResponses(b) /\ SameFlags(a, b) /\ b.out = Append(a.out, e)
    BY <1>3, <1>4, EmitFacts
  <2> QED BY <1>3, <2>1 DEF SameFlags
<1>7. SameBlocks(b, z) /\ z.stopEmitted = TRUE /\ z.failed = b.failed
  BY <1>6, EndedFacts
<1> HIDE DEF z
<1>8. IsResponses(z) /\ z.out = b.out
  BY <1>7 DEF SameBlocks
<1>9. Tells(t, q, z.out, "stopped", {}, m, status, u)
  BY <1>5, <1>6, <1>8
<1>10. z = ResponsesEnded(c, status, u)
  BY DEF z, b, a, ResponsesEnded
<1> QED BY <1>6, <1>7, <1>8, <1>9, <1>10 DEF EndsAs

\* A turn that has ended.
ResponsesStopped(t, q, c, s) ==
  /\ SentOK(s) /\ s.began = TRUE /\ IsResponses(c) /\ c.stopEmitted = TRUE /\ c.failed = FALSE
  /\ \E status :
       /\ Tells(t, q, c.out, "stopped", {}, s.contents, status, s.usage)
       /\ s.reason = "" => status = "failed"
       /\ status = "completed" => Completed(s)

LEMMA ResponsesTerminalStep ==
  ASSUME NEW t, NEW q, NEW c, NEW s, ResponsesOpen(t, q, c, s), NEW reason \in AllReasons,
         NEW u, Honest(s, u), NEW e, e.reason = reason, e.usage = u, e.calls = (Calls(s) # {}),
         NEW s2, s2 = Turned(s, TRUE, reason, u)
  PROVE  ResponsesStopped(t, q, Responses!OnTerminal(c, e), s2)
<1> DEFINE k == Responses!StatusOf(e)
<1> DEFINE status == IF k = "completed" /\ c.hasFunctionCall THEN "pending_tool_use" ELSE k
<1> DEFINE z == ResponsesEnded(c, status, u)
<1>1. /\ SentOK(s) /\ s.usage = NoUsage /\ u \in Usages
  BY DEF ResponsesOpen, Honest
<1>2. k \in Statuses /\ (k = "completed" => reason = "stop" /\ Calls(s) = {})
  <2>1. k \in Statuses
    BY DEF Responses!StatusOf, Statuses
  <2>2. k = "completed" => reason = "stop" /\ ~e.calls
    BY DEF Responses!StatusOf
  <2> QED BY <2>1, <2>2
<1>3. status \in Statuses /\ (status = "completed" => k = "completed")
  BY <1>2 DEF Statuses
<1>4. Responses!OnTerminal(c, e) = z
  BY DEF Responses!OnTerminal, ResponsesEnded, Ended
<1> HIDE DEF status, k
<1>5. /\ IsResponses(z) /\ z.stopEmitted = TRUE /\ z.failed = FALSE
      /\ Tells(t, q, z.out, "stopped", {}, s.contents, status, u)
  <2>1. EndsAs(t, q, z, s.contents, status, u)
    BY <1>1, <1>3, ResponsesStops
  <2> HIDE DEF z
  <2> QED BY <2>1 DEF EndsAs
<1> HIDE DEF z
<1>6. /\ SentOK(s2) /\ s2.contents = s.contents /\ s2.began = TRUE /\ s2.reason = reason
      /\ s2.usage = u
  <2>1. HasTurned(s, s2, TRUE, reason, u)
    BY <1>1, TurnFacts
  <2>2. MergeUsage(s.usage, u) = u
    BY <1>1, MergeFacts
  <2> QED BY <2>1, <2>2 DEF HasTurned
<1>7. status = "completed" => Completed(s2)
  BY <1>2, <1>3, <1>6 DEF Completed, Calls
<1>8. reason # ""
  BY DEF AllReasons
<1> QED BY <1>4, <1>5, <1>6, <1>7, <1>8 DEF ResponsesStopped

LEMMA ResponsesFinishStep ==
  ASSUME NEW t, NEW q, NEW c, NEW s, ResponsesOpen(t, q, c, s)
  PROVE  ResponsesStopped(t, q, Responses!Finish(c), s)
<1> DEFINE status == "failed"
<1> DEFINE u == NoUsage
<1> DEFINE z == ResponsesEnded(c, status, u)
<1>1. /\ SentOK(s) /\ s.usage = u /\ c.messageStarted = TRUE /\ c.stopEmitted = FALSE
      /\ s.began = TRUE /\ Responses!NoUsage = u
  BY ResponsesEvents DEF ResponsesOpen
<1>2. status \in Statuses /\ u \in Usages /\ status # "completed"
  BY DEF Statuses, NoUsage, Usages
<1>3. Responses!Finish(c) = z
  BY <1>1 DEF Responses!Finish, ResponsesEnded, Ended
<1> HIDE DEF status, u
<1>4. /\ IsResponses(z) /\ z.stopEmitted = TRUE /\ z.failed = FALSE
      /\ Tells(t, q, z.out, "stopped", {}, s.contents, status, u)
  BY <1>2, ResponsesStops DEF EndsAs
<1> HIDE DEF z
<1> QED BY <1>1, <1>2, <1>3, <1>4 DEF ResponsesStopped, status

\* A client that has nothing to end.
LEMMA ResponsesFinished ==
  ASSUME NEW c, c.messageStarted = FALSE \/ c.stopEmitted = TRUE
  PROVE  Responses!Finish(c) = c
BY DEF Responses!Finish

-----------------------------------------------------------------------------
(* A client of any dialect                                                 *)

ResponsesInStep(t, q, c, s, ph) ==
  \/ /\ c = Responses!NewClient /\ s = NewProvider
     /\ Tells(t, q, <<>>, "new", {}, <<>>, "unspecified", NoUsage)
  \/ ResponsesOpen(t, q, c, s) /\ ph \notin {"drained", "ended"}
  \/ ResponsesStopped(t, q, c, s) /\ (ph = "reading" => s.reason # "")
  \/ /\ c.failed = TRUE /\ c.out = <<>> /\ IsResponses(c) /\ ph \notin {"drained", "ended"}
     /\ \E state, B, m, v : Tells(t, q, <<>>, state, B, m, "unspecified", v)

\* Delivered, the waiting events bring the reader to where the provider is.
InStep(d, t, q, c, s, ph) ==
  \/ d = "openai_chat"      /\ ChatInStep(t, q, c, s, ph)
  \/ d = "openai_responses" /\ ResponsesInStep(t, q, c, s, ph)
  \/ d = "anthropic"        /\ AnthropicInStep(t, q, c, s)
  \/ d = "google"           /\ GoogleInStep(t, q, c, s, ph)

\* What that means for the reader, whatever the dialect.
Brings(d, t, q, c, s, ph) ==
  \E state, B, m, status, v :
    /\ Tells(t, q, c.out, state, B, m, status, v)
    /\ m = s.contents \/ (d = "openai_responses" /\ c.failed)
    /\ "late_stop" \notin Quirks =>
         (status = "completed" => Completed(s) /\ m = s.contents)
    /\ "bare_stop" \notin Quirks =>
         (ph = "ended" /\ s.reason # "" => v = s.usage /\ state = "stopped")
    /\ d \in {"openai_chat", "openai_responses"} /\ ph = "ended" /\ s.began =>
         state = "stopped" /\ (s.reason # "" \/ status \in {"unspecified", "failed"})

LEMMA ChatBrings ==
  ASSUME NEW t, NEW q, NEW c, NEW s, NEW ph, SentOK(s), ChatInStep(t, q, c, s, ph)
  PROVE  Brings("openai_chat", t, q, c, s, ph)
<1>1. PICK state, B, m, status, v :
        Tells(t, q, c.out, state, B, m, status, v) /\ ChatRel(c, s, ph, state, B, m, status, v)
  BY Zenon DEF ChatInStep
<1>2. /\ c.stopEmitted \in BOOLEAN /\ s.began \in BOOLEAN
  BY Zenon, <1>1, ChatParts DEF ChatRel, SentOK, SentSet
<1>3. m = s.contents /\ (status = "completed" => Completed(s))
  BY <1>1, <1>2 DEF ChatRel
<1>4. ph = "ended" /\ s.began => c.stopEmitted /\ state = "stopped" /\ v = s.usage
  BY <1>1, <1>2 DEF ChatRel
<1>5. s.reason # "" => s.began
  BY <1>1, <1>2 DEF ChatRel
<1>6. s.reason = "" => status = "unspecified"
  BY <1>1, <1>2 DEF ChatRel
<1> QED BY Zenon, <1>1, <1>3, <1>4, <1>5, <1>6 DEF Brings

LEMMA GoogleBrings ==
  ASSUME NEW t, NEW q, NEW c, NEW s, NEW ph, GoogleInStep(t, q, c, s, ph)
  PROVE  Brings("google", t, q, c, s, ph)
<1>1. PICK state, B, m, status, v :
        Tells(t, q, c.out, state, B, m, status, v) /\ GoogleRel(c, s, ph, state, B, m, status, v)
  BY Zenon DEF GoogleInStep
<1>2. m = s.contents /\ ("late_stop" \notin Quirks => (status = "completed" => Completed(s)))
  BY <1>1 DEF GoogleRel
<1>3. "bare_stop" \notin Quirks => (s.reason # "" => v = s.usage /\ state = "stopped")
  BY <1>1 DEF GoogleRel
<1> QED BY Zenon, <1>1, <1>2, <1>3 DEF Brings

LEMMA AnthropicBrings ==
  ASSUME NEW t, NEW q, NEW c, NEW s, NEW ph, AnthropicInStep(t, q, c, s)
  PROVE  Brings("anthropic", t, q, c, s, ph)
<1>1. PICK state, B, m, status, v :
        /\ Tells(t, q, c.out, state, B, m, status, v)
        /\ AnthropicRel(c.pendingSnapshotStops, s, state, B, m, status, v)
  BY Zenon DEF AnthropicInStep
<1>2. /\ m = s.contents /\ v = s.usage /\ (status = "completed" => Completed(s))
      /\ s.reason # "" => state = "stopped"
  BY <1>1 DEF AnthropicRel
<1> QED BY Zenon, <1>1, <1>2 DEF Brings

LEMMA ResponsesBrings ==
  ASSUME NEW t, NEW q, NEW c, NEW s, NEW ph, ResponsesInStep(t, q, c, s, ph)
  PROVE  Brings("openai_responses", t, q, c, s, ph)
<1>1. CASE /\ c = Responses!NewClient /\ s = NewProvider
           /\ Tells(t, q, <<>>, "new", {}, <<>>, "unspecified", NoUsage)
  <2>1. c.out = <<>>
    BY <1>1 DEF Responses!NewClient
  <2>2. s.contents = <<>> /\ s.reason = "" /\ s.began = FALSE
    BY <1>1 DEF NewProvider
  <2> DEFINE state == "new"  B == {}  m == <<>>  status == "unspecified"  v == NoUsage
  <2>3. Tells(t, q, c.out, state, B, m, status, v) /\ m = s.contents /\ status # "completed"
    BY <1>1, <2>1, <2>2
  <2> HIDE DEF state, B, m, status, v
  <2> QED BY Zenon, <2>2, <2>3 DEF Brings
<1>2. CASE ResponsesOpen(t, q, c, s) /\ ph \notin {"drained", "ended"}
  <2>1. PICK B : Tells(t, q, c.out, "open", B, s.contents, "unspecified", NoUsage)
    BY Zenon, <1>2 DEF ResponsesOpen, Tracks
  <2> DEFINE state == "open"  m == s.contents  status == "unspecified"  v == NoUsage
  <2>3. Tells(t, q, c.out, state, B, m, status, v) /\ m = s.contents /\ status # "completed"
    BY <2>1
  <2>4. ph # "ended"
    BY <1>2
  <2> HIDE DEF state, m, status, v
  <2> QED BY Zenon, <2>3, <2>4 DEF Brings
<1>3. CASE ResponsesStopped(t, q, c, s)
  <2>1. PICK status :
          /\ Tells(t, q, c.out, "stopped", {}, s.contents, status, s.usage)
          /\ s.reason = "" => status = "failed"
          /\ status = "completed" => Completed(s)
    BY Zenon, <1>3 DEF ResponsesStopped
  <2> QED BY Zenon, <2>1 DEF Brings
<1>4. CASE /\ c.failed = TRUE /\ c.out = <<>> /\ ph \notin {"drained", "ended"}
           /\ \E state, B, m, v : Tells(t, q, <<>>, state, B, m, "unspecified", v)
  <2>1. PICK state, B, m, v : Tells(t, q, <<>>, state, B, m, "unspecified", v)
    BY Zenon, <1>4
  <2> DEFINE status == "unspecified"
  <2>2. Tells(t, q, c.out, state, B, m, status, v) /\ status # "completed"
    BY <1>4, <2>1
  <2>3. ph # "ended" /\ c.failed
    BY <1>4
  <2> HIDE DEF status
  <2> QED BY Zenon, <2>2, <2>3 DEF Brings
<1> QED BY Zenon, <1>1, <1>2, <1>3, <1>4 DEF ResponsesInStep

-----------------------------------------------------------------------------
(* Delivering an event                                                     *)

Yielded(c) == [c EXCEPT !.out = Tail(@)]

LEMMA TellsFirst ==
  ASSUME NEW t, NEW q, NEW out, out # <<>>, NEW state, NEW B, NEW m, NEW status, NEW v,
         Tells(t, q, out, state, B, m, status, v)
  PROVE  /\ out \in Seq(Proper) /\ Tail(out) \in Seq(Proper)
         /\ Head(out) \in Proper /\ Legal(t, Head(out))
         /\ Tells(After(t, Head(out)), Reduce(q, Head(out)), Tail(out), state, B, m, status, v)
<1>1. Leads(t, q, out, TurnOf(state, B, m), ReplyOf(m, status, v))
  BY DEF Tells
<1>2. out \in Seq(Proper)
  BY <1>1, LeadsEnds
<1>3. Tail(out) \in Seq(Proper)
  BY <1>2
<1> QED BY Zenon, <1>1, <1>2, <1>3, LeadsFirst DEF Tells

LEMMA ChatDelivers ==
  ASSUME NEW t, NEW q, NEW c, NEW s, NEW ph, ChatInStep(t, q, c, s, ph), c.out # <<>>
  PROVE  ChatInStep(After(t, Head(c.out)), Reduce(q, Head(c.out)), Yielded(c), s, ph)
<1> DEFINE d == Yielded(c)
<1>1. PICK state, B, m, status, v :
        Tells(t, q, c.out, state, B, m, status, v) /\ ChatRel(c, s, ph, state, B, m, status, v)
  BY Zenon DEF ChatInStep
<1>2. /\ Tail(c.out) \in Seq(Proper)
      /\ Tells(After(t, Head(c.out)), Reduce(q, Head(c.out)), Tail(c.out), state, B, m, status, v)
  BY Zenon, <1>1, TellsFirst
<1>3. c \in ChatClients
  BY Zenon, <1>1 DEF ChatRel
<1>4. /\ d \in ChatClients /\ d.out = Tail(c.out) /\ d.status = c.status /\ d.open = c.open
      /\ d.messageStarted = c.messageStarted /\ d.stopEmitted = c.stopEmitted
      /\ d.nextIndex = c.nextIndex
  <2> DEFINE o == Tail(c.out)
  <2>1. d = [c EXCEPT !.out = o]
    BY DEF Yielded
  <2>2. o \in Seq(Proper)
    BY <1>2
  <2> HIDE DEF o, d
  <2>3. /\ d \in ChatClients /\ d.out = o /\ d.status = c.status /\ d.open = c.open
        /\ d.messageStarted = c.messageStarted /\ d.stopEmitted = c.stopEmitted
        /\ d.nextIndex = c.nextIndex
    BY <1>3, <2>1, <2>2 DEF ChatClients
  <2> QED BY <2>3 DEF o
<1> HIDE DEF d
<1>5. ChatRel(d, s, ph, state, B, m, status, v)
  BY Zenon, <1>1, <1>4 DEF ChatRel
<1>6. ChatInStep(After(t, Head(c.out)), Reduce(q, Head(c.out)), d, s, ph)
  BY Zenon, <1>2, <1>4, <1>5 DEF ChatInStep
<1> QED BY <1>6 DEF d

LEMMA GoogleDelivers ==
  ASSUME NEW t, NEW q, NEW c, NEW s, NEW ph, GoogleInStep(t, q, c, s, ph), c.out # <<>>
  PROVE  GoogleInStep(After(t, Head(c.out)), Reduce(q, Head(c.out)), Yielded(c), s, ph)
<1> DEFINE d == Yielded(c)
<1>1. PICK state, B, m, status, v :
        Tells(t, q, c.out, state, B, m, status, v) /\ GoogleRel(c, s, ph, state, B, m, status, v)
  BY Zenon DEF GoogleInStep
<1>2. /\ Tail(c.out) \in Seq(Proper)
      /\ Tells(After(t, Head(c.out)), Reduce(q, Head(c.out)), Tail(c.out), state, B, m, status, v)
  BY Zenon, <1>1, TellsFirst
<1>3. c \in GoogleClients
  BY Zenon, <1>1 DEF GoogleRel
<1>4. /\ d \in GoogleClients /\ d.out = Tail(c.out) /\ d.open = c.open
      /\ d.messageStarted = c.messageStarted /\ d.lastUsage = c.lastUsage
      /\ d.nextIndex = c.nextIndex
  <2> DEFINE o == Tail(c.out)
  <2>1. d = [c EXCEPT !.out = o]
    BY DEF Yielded
  <2>2. o \in Seq(Proper)
    BY <1>2
  <2> HIDE DEF o, d
  <2>3. /\ d \in GoogleClients /\ d.out = o /\ d.open = c.open
        /\ d.messageStarted = c.messageStarted /\ d.lastUsage = c.lastUsage
        /\ d.nextIndex = c.nextIndex
    BY <1>3, <2>1, <2>2 DEF GoogleClients
  <2> QED BY <2>3 DEF o
<1> HIDE DEF d
<1>5. GoogleRel(d, s, ph, state, B, m, status, v)
  BY Zenon, <1>1, <1>4 DEF GoogleRel
<1>6. GoogleInStep(After(t, Head(c.out)), Reduce(q, Head(c.out)), d, s, ph)
  BY Zenon, <1>2, <1>4, <1>5 DEF GoogleInStep
<1> QED BY <1>6 DEF d

LEMMA AnthropicDelivers ==
  ASSUME NEW t, NEW q, NEW c, NEW s, AnthropicInStep(t, q, c, s), c.out # <<>>
  PROVE  AnthropicInStep(After(t, Head(c.out)), Reduce(q, Head(c.out)), Yielded(c), s)
<1> DEFINE d == Yielded(c)
<1>1. PICK state, B, m, status, v :
        /\ Tells(t, q, c.out, state, B, m, status, v)
        /\ AnthropicRel(c.pendingSnapshotStops, s, state, B, m, status, v)
  BY Zenon DEF AnthropicInStep
<1>2. /\ Tail(c.out) \in Seq(Proper)
      /\ Tells(After(t, Head(c.out)), Reduce(q, Head(c.out)), Tail(c.out), state, B, m, status, v)
  BY Zenon, <1>1, TellsFirst
<1>3. c \in AnthropicClients
  BY Zenon DEF AnthropicInStep
<1>4. /\ d \in AnthropicClients /\ d.out = Tail(c.out)
      /\ d.pendingSnapshotStops = c.pendingSnapshotStops
  <2> DEFINE o == Tail(c.out)
  <2>1. d = [c EXCEPT !.out = o]
    BY DEF Yielded
  <2>2. o \in Seq(Proper)
    BY <1>2
  <2> HIDE DEF o, d
  <2>3. /\ d \in AnthropicClients /\ d.out = o
        /\ d.pendingSnapshotStops = c.pendingSnapshotStops
    BY <1>3, <2>1, <2>2 DEF AnthropicClients
  <2> QED BY <2>3 DEF o
<1> HIDE DEF d
<1>6. AnthropicInStep(After(t, Head(c.out)), Reduce(q, Head(c.out)), d, s)
  BY Zenon, <1>1, <1>2, <1>4 DEF AnthropicInStep
<1> QED BY <1>6 DEF d

LEMMA ResponsesYields ==
  ASSUME NEW c, IsResponses(c)
  PROVE  /\ IsResponses(Yielded(c)) /\ Yielded(c).out = Tail(c.out)
         /\ \A g \in ClientFields : g # "out" => Yielded(c)[g] = c[g]
<1> DEFINE o == Tail(c.out)
<1> DEFINE f == "out"
<1>1. Yielded(c) = SetIn(c, f, o) /\ f \in ClientFields
  BY DEF Yielded, SetIn, ClientFields
<1> HIDE DEF o, f
<1>2. /\ IsResponses(SetIn(c, f, o)) /\ SetIn(c, f, o)[f] = o
      /\ \A g \in ClientFields : g # f => SetIn(c, f, o)[g] = c[g]
  BY <1>1, SetFacts
<1> DEFINE d == Yielded(c)
<1>3. IsResponses(d) /\ d[f] = o /\ \A g \in ClientFields : g # f => d[g] = c[g]
  BY <1>1, <1>2
<1> HIDE DEF d
<1>4. IsResponses(d) /\ d.out = o /\ \A g \in ClientFields : g # "out" => d[g] = c[g]
  BY <1>3 DEF f
<1> QED BY <1>4 DEF d, o

LEMMA ResponsesDelivers ==
  ASSUME NEW t, NEW q, NEW c, NEW s, NEW ph, ResponsesInStep(t, q, c, s, ph), c.out # <<>>
  PROVE  ResponsesInStep(After(t, Head(c.out)), Reduce(q, Head(c.out)), Yielded(c), s, ph)
<1> DEFINE d == Yielded(c)
<1> DEFINE t2 == After(t, Head(c.out))
<1> DEFINE q2 == Reduce(q, Head(c.out))
<1>1. c # Responses!NewClient
  BY DEF Responses!NewClient
<1>2. CASE ResponsesOpen(t, q, c, s) /\ ph \notin {"drained", "ended"}
  <2>1. PICK B : /\ Tells(t, q, c.out, "open", B, s.contents, "unspecified", NoUsage)
                 /\ OutputBlock(c.open, c.openIndex, s.items, s.contents, B)
    BY Zenon, <1>2 DEF ResponsesOpen, Tracks
  <2>2. IsResponses(c) /\ c.nextIndex = Len(s.contents)
    BY Zenon, <1>2 DEF ResponsesOpen, Tracks
  <2>3. Tells(t2, q2, Tail(c.out), "open", B, s.contents, "unspecified", NoUsage)
    BY Zenon, <2>1, TellsFirst
  <2>4. /\ IsResponses(d) /\ d.out = Tail(c.out)
        /\ \A g \in ClientFields : g # "out" => d[g] = c[g]
    BY Zenon, <2>2, ResponsesYields
  <2> HIDE DEF d, t2, q2
  <2>5. /\ d.nextIndex = c.nextIndex /\ d.open = c.open /\ d.openIndex = c.openIndex
        /\ d.outputPhase = c.outputPhase /\ d.messageStarted = c.messageStarted
        /\ d.stopEmitted = c.stopEmitted /\ d.failed = c.failed
    BY <2>4 DEF ClientFields
  <2>6. Tracks(t2, q2, d, s.items, s.contents)
    BY Zenon, <2>1, <2>2, <2>3, <2>4, <2>5 DEF Tracks
  <2>7. ResponsesOpen(t2, q2, d, s)
    BY Zenon, <1>2, <2>5, <2>6 DEF ResponsesOpen
  <2>8. ResponsesInStep(t2, q2, d, s, ph)
    BY Zenon, <1>2, <2>7 DEF ResponsesInStep
  <2> QED BY <2>8 DEF d, t2, q2
<1>3. CASE ResponsesStopped(t, q, c, s) /\ (ph = "reading" => s.reason # "")
  <2>1. PICK status :
          /\ Tells(t, q, c.out, "stopped", {}, s.contents, status, s.usage)
          /\ s.reason = "" => status = "failed"
          /\ status = "completed" => Completed(s)
    BY Zenon, <1>3 DEF ResponsesStopped
  <2>2. IsResponses(c)
    BY Zenon, <1>3 DEF ResponsesStopped
  <2>3. Tells(t2, q2, Tail(c.out), "stopped", {}, s.contents, status, s.usage)
    BY Zenon, <2>1, TellsFirst
  <2>4. /\ IsResponses(d) /\ d.out = Tail(c.out)
        /\ \A g \in ClientFields : g # "out" => d[g] = c[g]
    BY Zenon, <2>2, ResponsesYields
  <2> HIDE DEF d, t2, q2
  <2>5. d.stopEmitted = c.stopEmitted /\ d.failed = c.failed
    BY <2>4 DEF ClientFields
  <2>6. ResponsesStopped(t2, q2, d, s)
    BY Zenon, <1>3, <2>1, <2>3, <2>4, <2>5 DEF ResponsesStopped
  <2>8. ResponsesInStep(t2, q2, d, s, ph)
    BY Zenon, <1>3, <2>6 DEF ResponsesInStep
  <2> QED BY <2>8 DEF d, t2, q2
<1> HIDE DEF d, t2, q2
<1>4. ResponsesInStep(t2, q2, d, s, ph)
  BY Zenon, <1>1, <1>2, <1>3 DEF ResponsesInStep, d, t2, q2
<1> QED BY <1>4 DEF d, t2, q2

\* The reader takes the event that is due, as the protocol lets it.
LEMMA Delivers ==
  ASSUME NEW d, NEW t, NEW q, NEW c, NEW s, NEW ph, InStep(d, t, q, c, s, ph), c.out # <<>>
  PROVE  InStep(d, After(t, Head(c.out)), Reduce(q, Head(c.out)), Yielded(c), s, ph)
BY Zenon, ChatDelivers, GoogleDelivers, AnthropicDelivers, ResponsesDelivers DEF InStep

-----------------------------------------------------------------------------
(* The phases of a stream                                                  *)

\* A stream that is left stays as it is, and so does one that is drained.
LEMMA PhaseMoves ==
  ASSUME NEW d, NEW t, NEW q, NEW c, NEW s, NEW ph, SentOK(s), InStep(d, t, q, c, s, ph),
         NEW ph2, \/ ph2 \in {"failed", "canceled"}
                  \/ ph2 = "ended" /\ ph = "drained"
  PROVE  InStep(d, t, q, c, s, ph2)
<1>0. ph2 # "reading" /\ (ph2 \in {"drained", "ended"} => ph \in {"drained", "ended"})
  OBVIOUS
<1>1. ChatInStep(t, q, c, s, ph) => ChatInStep(t, q, c, s, ph2)
  <2> SUFFICES ASSUME ChatInStep(t, q, c, s, ph) PROVE ChatInStep(t, q, c, s, ph2)
    OBVIOUS
  <2>1. PICK state, B, m, status, v :
        Tells(t, q, c.out, state, B, m, status, v) /\ ChatRel(c, s, ph, state, B, m, status, v)
    BY Zenon DEF ChatInStep
  <2>2. ChatRel(c, s, ph2, state, B, m, status, v)
    BY Zenon, <1>0, <2>1 DEF ChatRel
  <2> QED BY Zenon, <2>1, <2>2 DEF ChatInStep
<1>2. GoogleInStep(t, q, c, s, ph) => GoogleInStep(t, q, c, s, ph2)
  BY Zenon DEF GoogleInStep, GoogleRel
<1>3. ResponsesInStep(t, q, c, s, ph) => ResponsesInStep(t, q, c, s, ph2)
  BY Zenon, <1>0 DEF ResponsesInStep
<1> QED BY Zenon, <1>1, <1>2, <1>3 DEF InStep

-----------------------------------------------------------------------------
(* What a reader may rely on                                               *)

\* A reply is judged by the end of the turn, and only by that.
JudgedAtEnd(t, q) == q.status # "unspecified" => t.turn = "stopped"

\* What a reply that is reported completed promises.
Whole(q, s) == q.status = "completed" => Completed(s) /\ q.contents = s.contents

LEMMA InStepBrings ==
  ASSUME NEW d, NEW t, NEW q, NEW c, NEW s, NEW ph, SentOK(s), InStep(d, t, q, c, s, ph)
  PROVE  Brings(d, t, q, c, s, ph)
BY Zenon, ChatBrings, GoogleBrings, AnthropicBrings, ResponsesBrings DEF InStep

\* The reader, and the event that is due.
LEMMA BringsReader ==
  ASSUME NEW d, NEW t, NEW q, NEW c, NEW s, NEW ph, Brings(d, t, q, c, s, ph)
  PROVE  /\ ReaderOK(t, q)
         /\ c.out \in Seq(Proper)
         /\ c.out # <<>> => /\ Head(c.out) \in Proper
                            /\ Legal(t, Head(c.out))
<1>1. PICK state, B, m, status, v : Tells(t, q, c.out, state, B, m, status, v)
  BY Zenon DEF Brings
<1> QED BY Zenon, <1>1, LeadsEnds, LeadsFirst DEF Tells

\* The reader is where the provider is.
Agrees(d, t, q, c, s, ph) ==
  /\ q.contents = s.contents \/ (d = "openai_responses" /\ c.failed)
  /\ "late_stop" \notin Quirks => Whole(q, s)
  /\ "bare_stop" \notin Quirks =>
       (ph = "ended" /\ s.reason # "" => q.usage = s.usage /\ t.turn = "stopped")
  /\ d \in {"openai_chat", "openai_responses"} /\ ph = "ended" /\ s.began =>
       t.turn = "stopped" /\ (s.reason # "" \/ q.status \in {"unspecified", "failed"})

\* It is once the events are delivered.
LEMMA BringsAll ==
  ASSUME NEW d, NEW t, NEW q, NEW c, NEW s, NEW ph, Brings(d, t, q, c, s, ph), c.out = <<>>
  PROVE  Agrees(d, t, q, c, s, ph)
<1>1. PICK state, B, m, status, v :
        /\ Tells(t, q, c.out, state, B, m, status, v)
        /\ m = s.contents \/ (d = "openai_responses" /\ c.failed)
        /\ "late_stop" \notin Quirks =>
             (status = "completed" => Completed(s) /\ m = s.contents)
        /\ "bare_stop" \notin Quirks =>
             (ph = "ended" /\ s.reason # "" => v = s.usage /\ state = "stopped")
        /\ d \in {"openai_chat", "openai_responses"} /\ ph = "ended" /\ s.began =>
             state = "stopped" /\ (s.reason # "" \/ status \in {"unspecified", "failed"})
  BY Zenon DEF Brings
<1> DEFINE u == TurnOf(state, B, m)
<1> DEFINE p == ReplyOf(m, status, v)
<1>2. u.turn = state /\ p.contents = m /\ p.status = status /\ p.usage = v
  BY DEF TurnOf, ReplyOf
<1>3. t.turn = state /\ q.contents = m /\ q.status = status /\ q.usage = v
  <2>1. Leads(t, q, c.out, u, p)
    BY <1>1 DEF Tells
  <2> HIDE DEF u, p
  <2>2. u = t /\ p = q
    BY <2>1, LeadsEnds
  <2> QED BY <1>2, <2>2
<1> QED BY Zenon, <1>1, <1>3 DEF Agrees, Whole

\* A reply is judged completed only when the turn is all there.
LEMMA WholeReply ==
  ASSUME NEW d, NEW t, NEW q, NEW c, NEW s, NEW ph, Brings(d, t, q, c, s, ph),
         JudgedAtEnd(t, q), "late_stop" \notin Quirks
  PROVE  Whole(q, s)
<1> SUFFICES ASSUME q.status = "completed" PROVE Whole(q, s)
  BY DEF Whole
<1>1. t.turn = "stopped"
  BY DEF JudgedAtEnd
<1>2. PICK state, B, m, status, v : Tells(t, q, c.out, state, B, m, status, v)
  BY Zenon DEF Brings
<1>3. c.out = <<>>
  BY Zenon, <1>1, <1>2, LeadsStopped DEF Tells
<1> QED BY Zenon, <1>3, BringsAll DEF Agrees

LEMMA StaysJudged ==
  ASSUME NEW t, NEW q, ReaderOK(t, q), JudgedAtEnd(t, q), NEW e \in Proper, Legal(t, e)
  PROVE  JudgedAtEnd(After(t, e), Reduce(q, e))
<1>1. t \in Turns /\ q \in Replies /\ e \in EventSet
  BY DEF ReaderOK, Proper
<1>2. CASE e.type = "message_stop"
  BY <1>1, <1>2, AfterCases DEF JudgedAtEnd
<1>3. CASE e.type # "message_stop"
  <2>1. q.status = "unspecified"
    BY <1>3 DEF JudgedAtEnd, Legal, Begins
  <2>2. Reduce(q, e).status = q.status
    <3>1. CASE e.type \in {"content_start", "content_snapshot"}
      BY <1>1, <3>1, ReduceOpens
    <3>2. CASE e.type \in {"message_start", "content_stop", "usage_only"}
      BY <1>1, <3>2, ReduceOther
    <3>3. CASE e.type = "content_delta"
      <4>1. PICK b \in t.blocks : b.index = e.index /\ FitsKind(e.kind, b.kind)
        BY <3>3 DEF Legal, Begins, OpensContent, ExtendsBlock, ClosesBlock, Ends
      <4>2. /\ e.index \in DOMAIN q.blocks /\ q.blocks[e.index] \in 1..Len(q.contents)
            /\ FitsKind(e.kind, q.contents[q.blocks[e.index]].kind)
        BY <4>1 DEF ReaderOK
      <4> QED BY <1>1, <3>3, <4>2, ReduceDelta
    <3> QED BY <1>1, <1>3, <3>1, <3>2, <3>3 DEF EventSet, EventTypes
  <2> QED BY <2>1, <2>2 DEF JudgedAtEnd
<1> QED BY <1>2, <1>3

\* One more event, whether it is sent or not.
LEMMA DeliversMore ==
  ASSUME NEW d, NEW t, NEW q, NEW c, NEW s, NEW ph, SentOK(s), InStep(d, t, q, c, s, ph),
         JudgedAtEnd(t, q), c.out # <<>>, NEW e, e = Head(c.out)
  PROVE  /\ e \in Proper /\ Legal(t, e)
         /\ InStep(d, After(t, e), Reduce(q, e), Yielded(c), s, ph)
         /\ JudgedAtEnd(After(t, e), Reduce(q, e))
         /\ ReaderOK(After(t, e), Reduce(q, e))
         /\ "late_stop" \notin Quirks => Whole(Reduce(q, e), s)
<1>1. e \in Proper /\ Legal(t, e) /\ ReaderOK(t, q)
  <2>1. Brings(d, t, q, c, s, ph)
    BY InStepBrings
  <2> QED BY <2>1, BringsReader
<1>2. InStep(d, After(t, e), Reduce(q, e), Yielded(c), s, ph)
  BY Zenon, Delivers
<1>3. JudgedAtEnd(After(t, e), Reduce(q, e))
  BY <1>1, StaysJudged
<1>4. Brings(d, After(t, e), Reduce(q, e), Yielded(c), s, ph)
  BY Zenon, <1>2, InStepBrings
<1>5. ReaderOK(After(t, e), Reduce(q, e))
  BY Zenon, <1>4, BringsReader
<1>6. "late_stop" \notin Quirks => Whole(Reduce(q, e), s)
  BY Zenon, <1>3, <1>4, WholeReply
<1> QED BY <1>1, <1>2, <1>3, <1>5, <1>6

=============================================================================
