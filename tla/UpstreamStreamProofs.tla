------------------------ MODULE UpstreamStreamProofs ------------------------
(***************************************************************************)
(* A streamed turn is right whatever the provider sends and wherever it is *)
(* cut short: the chat events are a stream as chat.proto promises it, the  *)
(* reply that is rebuilt from them is the provider's, its usage is         *)
(* accounted, and it is reported completed only if all of it arrived.      *)
(*                                                                         *)
(* The invariant is InStep: delivered, the events that wait bring the      *)
(* reader to where the provider is.  A lemma for each action of the        *)
(* provider rests on what its converter does (ConverterProofs).            *)
(***************************************************************************)
EXTENDS UpstreamStream, ConverterProofs

-----------------------------------------------------------------------------
(* What the provider sends next, one lemma for each action                 *)

\* What has been read so far, and what the reader knows.
Known == SentOK(sent) /\ InStep(dialect, turn, resp, conv, sent, "reading")

Taken == SentOK(sent') /\ InStep(dialect, turn, resp, conv', sent', "reading")

LEMMA ToolListIs ==
  ASSUME NEW s, NEW l \in ToolLists(s)
  PROVE  l = [tools |-> l.tools, sent |-> l.sent]
BY DEF ToolLists

LEMMA ReasonsKnown ==
  ASSUME NEW s, NEW reason \in {""} \union ReasonsOf(s)
  PROVE  /\ reason \in {""} \union AllReasons
         /\ reason = "stop" => Calls(s) = {}
BY ProviderAssumption DEF ReasonsOf, AllReasons

LEMMA OpenAIChatChunkTaken ==
  ASSUME Known, OpenAIChatChunk
  PROVE  Taken
<1>1. dialect = "openai_chat" /\ sent.reason = ""
  BY DEF OpenAIChatChunk
<1>2. SentOK(sent) /\ ChatInStep(turn, resp, conv, sent, "reading")
  BY <1>1 DEF InStep, Known
<1>3. PICK r \in Texts(sent) : \E t \in Texts(Says(sent, "reasoning", r)) :
      \E l \in ToolLists(Says(Says(sent, "reasoning", r), "text", t)) :
      \E reason \in {""} \union ReasonsOf(l.sent) :
      \E u \in {NoUsage} \union IF reason = "" THEN {} ELSE {Usage(l.sent)} :
        Take(Reports(Finishes([l.sent EXCEPT !.began = TRUE], reason), u),
             Chat!Convert(conv, [reasoning |-> r, text |-> t, tools |-> l.tools,
                                 reason |-> reason, usage |-> u]))
  BY DEF OpenAIChatChunk
<1>4. PICK t \in Texts(Says(sent, "reasoning", r)) :
      \E l \in ToolLists(Says(Says(sent, "reasoning", r), "text", t)) :
      \E reason \in {""} \union ReasonsOf(l.sent) :
      \E u \in {NoUsage} \union IF reason = "" THEN {} ELSE {Usage(l.sent)} :
        Take(Reports(Finishes([l.sent EXCEPT !.began = TRUE], reason), u),
             Chat!Convert(conv, [reasoning |-> r, text |-> t, tools |-> l.tools,
                                 reason |-> reason, usage |-> u]))
  BY <1>3
<1>5. PICK l \in ToolLists(Says(Says(sent, "reasoning", r), "text", t)) :
      \E reason \in {""} \union ReasonsOf(l.sent) :
      \E u \in {NoUsage} \union IF reason = "" THEN {} ELSE {Usage(l.sent)} :
        Take(Reports(Finishes([l.sent EXCEPT !.began = TRUE], reason), u),
             Chat!Convert(conv, [reasoning |-> r, text |-> t, tools |-> l.tools,
                                 reason |-> reason, usage |-> u]))
  BY <1>4
<1>6. PICK reason \in {""} \union ReasonsOf(l.sent) :
      \E u \in {NoUsage} \union IF reason = "" THEN {} ELSE {Usage(l.sent)} :
        Take(Reports(Finishes([l.sent EXCEPT !.began = TRUE], reason), u),
             Chat!Convert(conv, [reasoning |-> r, text |-> t, tools |-> l.tools,
                                 reason |-> reason, usage |-> u]))
  BY <1>5
<1>7. PICK u \in {NoUsage} \union IF reason = "" THEN {} ELSE {Usage(l.sent)} :
        Take(Reports(Finishes([l.sent EXCEPT !.began = TRUE], reason), u),
             Chat!Convert(conv, [reasoning |-> r, text |-> t, tools |-> l.tools,
                                 reason |-> reason, usage |-> u]))
  BY <1>6
<1> DEFINE chunk == [reasoning |-> r, text |-> t, tools |-> l.tools,
                     reason |-> reason, usage |-> u]
<1> DEFINE s1 == l.sent
<1>8. sent' = Turned(s1, TRUE, reason, u) /\ conv' = Chat!Convert(conv, chunk)
  BY <1>7 DEF Take, Turned
<1>9. ChunkOf(sent, chunk, s1) /\ chunk.reason = reason /\ chunk.usage = u
  BY ToolListIs DEF ChunkOf
<1>10. /\ reason \in {""} \union AllReasons /\ (reason = "stop" => Calls(s1) = {})
       /\ u = NoUsage \/ (reason # "" /\ u = Usage(s1))
  BY ReasonsKnown
<1> HIDE DEF chunk, s1
<1>11. /\ SentOK(Turned(s1, TRUE, reason, u))
       /\ ChatInStep(turn, resp, Chat!Convert(conv, chunk), Turned(s1, TRUE, reason, u), "reading")
  BY <1>1, <1>2, <1>9, <1>10, ChatChunkStep
<1> QED BY <1>1, <1>8, <1>11 DEF InStep, Taken

LEMMA OpenAIChatUsageTaken ==
  ASSUME Known, OpenAIChatUsage
  PROVE  Taken
<1>1. /\ dialect = "openai_chat" /\ sent.reason # "" /\ sent.usage = NoUsage
      /\ Take(Reports(sent, Usage(sent)),
              Chat!Convert(conv, [reasoning |-> <<>>, text |-> <<>>, tools |-> <<>>,
                                  reason |-> "", usage |-> Usage(sent)]))
  BY DEF OpenAIChatUsage
<1> DEFINE ph == "reading"
<1>2. SentOK(sent) /\ ChatInStep(turn, resp, conv, sent, ph)
  BY <1>1 DEF InStep, Known
<1> DEFINE chunk == [reasoning |-> <<>>, text |-> <<>>, tools |-> <<>>,
                     reason |-> "", usage |-> Usage(sent)]
<1>3. sent' = Reports(sent, Usage(sent)) /\ conv' = Chat!Convert(conv, chunk)
  BY <1>1 DEF Take
<1> HIDE DEF ph
<1>4. /\ SentOK(Reports(sent, Usage(sent)))
      /\ ChatInStep(turn, resp, Chat!Convert(conv, chunk), Reports(sent, Usage(sent)), ph)
  <2> DEFINE k == chunk
  <2>1. k = [reasoning |-> <<>>, text |-> <<>>, tools |-> <<>>, reason |-> "", usage |-> Usage(sent)]
        /\ ph = "reading"
    BY DEF ph
  <2> HIDE DEF k
  <2>2. /\ SentOK(Reports(sent, Usage(sent)))
        /\ ChatInStep(turn, resp, Chat!Convert(conv, k), Reports(sent, Usage(sent)), ph)
    BY Zenon, <1>1, <1>2, <2>1, ChatUsageStep
  <2> QED BY <2>2 DEF k
<1> QED BY <1>1, <1>3, <1>4 DEF InStep, Taken, ph

LEMMA GoogleResponseTaken ==
  ASSUME Known, GoogleResponse
  PROVE  Taken
<1>1. dialect = "google" /\ sent.reason = ""
  BY DEF GoogleResponse
<1>2. SentOK(sent) /\ GoogleInStep(turn, resp, conv, sent, "reading")
  BY <1>1 DEF InStep, Known
<1>3. PICK l \in PartLists(sent) :
      \E reason \in {""} \union GoogleReasons(l.sent, l.parts) : \E u \in {NoUsage, Usage(l.sent)} :
      \E bare \in {FALSE} \union IF "bare_stop" \in Quirks THEN {TRUE} ELSE {} :
        /\ bare => l.parts = <<>> /\ reason # ""
        /\ Take(Reports(Finishes([l.sent EXCEPT !.began = TRUE], reason), u),
                Google!Convert(conv, [hasContent |-> ~bare, parts |-> l.parts,
                                      reason |-> reason, usage |-> u]))
  BY DEF GoogleResponse
<1>4. PICK reason \in {""} \union GoogleReasons(l.sent, l.parts), u \in {NoUsage, Usage(l.sent)} :
      \E bare \in {FALSE} \union IF "bare_stop" \in Quirks THEN {TRUE} ELSE {} :
        /\ bare => l.parts = <<>> /\ reason # ""
        /\ Take(Reports(Finishes([l.sent EXCEPT !.began = TRUE], reason), u),
                Google!Convert(conv, [hasContent |-> ~bare, parts |-> l.parts,
                                      reason |-> reason, usage |-> u]))
  BY <1>3
<1>5. PICK bare \in {FALSE} \union IF "bare_stop" \in Quirks THEN {TRUE} ELSE {} :
        /\ bare => l.parts = <<>> /\ reason # ""
        /\ Take(Reports(Finishes([l.sent EXCEPT !.began = TRUE], reason), u),
                Google!Convert(conv, [hasContent |-> ~bare, parts |-> l.parts,
                                      reason |-> reason, usage |-> u]))
  BY <1>4
<1> DEFINE r == [hasContent |-> ~bare, parts |-> l.parts, reason |-> reason, usage |-> u]
<1>6. sent' = Turned(l.sent, TRUE, reason, u) /\ conv' = Google!Convert(conv, r)
  BY <1>5 DEF Take, Turned
<1>7. reason \in {""} \union AllReasons
  BY ProviderAssumption DEF GoogleReasons, AllReasons
<1>8. /\ r.parts = l.parts /\ r.reason = reason /\ r.usage = u
      /\ bare = TRUE => r.hasContent = FALSE
      /\ bare = FALSE => r.hasContent = TRUE
  OBVIOUS
<1>9. /\ bare \in BOOLEAN /\ (bare = TRUE => "bare_stop" \in Quirks)
      /\ u = NoUsage \/ u = Usage(l.sent)
  OBVIOUS
<1> HIDE DEF r
<1>10. CASE bare = TRUE
  <2>1. l.sent = sent
    <3>1. l.parts = <<>>
      BY <1>5, <1>10
    <3> QED BY <3>1, PartListsCases
  <2>2. reason \in AllReasons
    BY <1>5, <1>7, <1>10
  <2>3. /\ SentOK(Turned(sent, TRUE, reason, u))
        /\ GoogleInStep(turn, resp, Google!Convert(conv, r), Turned(sent, TRUE, reason, u), "reading")
    BY <1>1, <1>2, <1>8, <1>9, <1>10, <2>1, <2>2, GoogleBareStep
  <2> QED BY <1>1, <1>6, <2>1, <2>3 DEF InStep, Taken
<1>11. CASE bare = FALSE
  <2>1. Google!StatusOf(reason, l.parts) = "completed" /\ "late_stop" \notin Quirks
           => Calls(l.sent) = {}
    <3>1. SUFFICES ASSUME Google!StatusOf(reason, l.parts) = "completed", "late_stop" \notin Quirks
                   PROVE  Calls(l.sent) = {}
      OBVIOUS
    <3>2. reason = "stop" /\ \A k \in DOMAIN l.parts : l.parts[k].kind # "tool"
      BY <3>1 DEF Google!StatusOf
    <3> QED BY <3>1, <3>2, ProviderAssumption DEF GoogleReasons
  <2>2. /\ SentOK(Turned(l.sent, TRUE, reason, u))
        /\ GoogleInStep(turn, resp, Google!Convert(conv, r), Turned(l.sent, TRUE, reason, u), "reading")
    <3> DEFINE ph == "reading"
    <3>1. GoogleInStep(turn, resp, conv, sent, ph)
      BY <1>2
    <3> HIDE DEF ph
    <3>2. /\ SentOK(Turned(l.sent, TRUE, reason, u))
          /\ GoogleInStep(turn, resp, Google!Convert(conv, r), Turned(l.sent, TRUE, reason, u), ph)
      BY Zenon, <1>1, <1>2, <1>7, <1>8, <1>9, <1>11, <2>1, <3>1, GoogleResponseStep
    <3> QED BY <3>2 DEF ph
  <2> QED BY <1>1, <1>6, <2>2 DEF InStep, Taken
<1> QED BY <1>9, <1>10, <1>11

LEMMA AnthropicKnown ==
  ASSUME Known, dialect = "anthropic"
  PROVE  SentOK(sent) /\ AnthropicInStep(turn, resp, conv, sent)
BY DEF Known, InStep

LEMMA AnthropicTaken ==
  ASSUME dialect = "anthropic", NEW s, NEW c, Take(s, c), SentOK(s),
         AnthropicInStep(turn, resp, c, s)
  PROVE  Taken
BY DEF Take, InStep, Taken

LEMMA AnthropicOpened ==
  ASSUME Known, InTurn("anthropic")
  PROVE  /\ AnthropicOpen(turn, resp, conv, sent) /\ dialect = "anthropic"
         /\ sent \in SentSet
<1>1. dialect = "anthropic" /\ sent.reason = "" /\ sent.began
  BY DEF InTurn
<1>2. SentOK(sent) /\ AnthropicInStep(turn, resp, conv, sent) /\ sent \in SentSet
  BY <1>1, AnthropicKnown DEF SentOK
<1>3. sent.began = TRUE
  BY <1>1, <1>2 DEF SentSet
<1> QED BY <1>1, <1>2, <1>3 DEF AnthropicOpen

LEMMA AnthropicMessageStartTaken ==
  ASSUME Known, AnthropicMessageStart
  PROVE  Taken
<1> DEFINE u == [in |-> 1, out |-> 0]
<1> DEFINE e == [usage |-> u]
<1>1. /\ dialect = "anthropic" /\ ~sent.began
      /\ Take(Reports([sent EXCEPT !.began = TRUE], u), Anthropic!OnMessageStart(conv, e))
  BY DEF AnthropicMessageStart
<1>2. SentOK(sent) /\ AnthropicInStep(turn, resp, conv, sent) /\ sent.began = FALSE
  <2>1. SentOK(sent) /\ AnthropicInStep(turn, resp, conv, sent)
    BY <1>1, AnthropicKnown
  <2> QED BY <1>1, <2>1 DEF SentOK, SentSet
<1>3. Honest(sent, u)
  BY <1>2, NoReport
<1>4. e.usage = u
  OBVIOUS
<1> HIDE DEF u, e
<1>5. /\ SentOK(Turned(sent, TRUE, "", u))
      /\ AnthropicInStep(turn, resp, Anthropic!OnMessageStart(conv, e), Turned(sent, TRUE, "", u))
  BY <1>2, <1>3, <1>4, AnthropicStartStep
<1>6. Reports([sent EXCEPT !.began = TRUE], u) = Turned(sent, TRUE, "", u)
  <2>1. PICK s : s = [sent EXCEPT !.began = TRUE]
    OBVIOUS
  <2>2. SentOK(sent) => s.reason = sent.reason
    BY <2>1 DEF SentOK, SentSet
  <2>3. sent.reason = ""
    BY <1>2 DEF AnthropicInStep, AnthropicRel
  <2>4. [s EXCEPT !.reason = ""] = s
    BY <1>2, <2>1, <2>2, <2>3 DEF SentOK, SentSet
  <2> QED BY <2>1, <2>4 DEF Turned, Finishes
<1> QED BY <1>1, <1>5, <1>6, AnthropicTaken

LEMMA AnthropicBlockStartTaken ==
  ASSUME Known, AnthropicBlockStart
  PROVE  Taken
<1> DEFINE index == Len(sent.contents)
<1> DEFINE CallOf(kind) == IF kind = "tool" THEN NextCall(sent) ELSE 0
<1> DEFINE S1(kind, text) == Adds(sent, Content(kind, NoItem, CallOf(kind), text))
<1> DEFINE E(kind, text, sign) == [index |-> index, kind |-> kind, id |-> CallOf(kind),
                                   text |-> text, signature |-> sign]
<1>1. InTurn("anthropic") /\ sent.block = <<>>
  BY DEF AnthropicBlockStart
<1>2. PICK kind \in {"text", "reasoning", "tool", "opaque"}, text \in Texts(sent) :
        \E sign \in (IF kind = "reasoning" THEN Texts(S1(kind, text)) ELSE {<<>>}) :
          /\ kind = "tool" => text = <<>>
          /\ Take([Signs(S1(kind, text), Len(S1(kind, text).contents), sign)
                     EXCEPT !.block = <<index>>],
                  Anthropic!OnBlockStart(conv, E(kind, text, sign)))
  BY DEF AnthropicBlockStart
<1> DEFINE call == CallOf(kind)
<1> DEFINE s1 == Adds(sent, Content(kind, NoItem, call, text))
<1>3. PICK sign \in (IF kind = "reasoning" THEN Texts(s1) ELSE {<<>>}) :
        /\ kind = "tool" => text = <<>>
        /\ Take([Signs(s1, Len(s1.contents), sign) EXCEPT !.block = <<index>>],
                Anthropic!OnBlockStart(conv, E(kind, text, sign)))
  BY <1>2
<1> DEFINE e == E(kind, text, sign)
<1> DEFINE s2 == Blocked(Signs(s1, Len(s1.contents), sign), <<index>>)
<1>4. Take(s2, Anthropic!OnBlockStart(conv, e))
  BY <1>3 DEF Blocked
<1>5. e.kind = kind /\ e.index = index /\ e.id = call /\ e.text = text /\ e.signature = sign
  OBVIOUS
<1>6. AnthropicOpen(turn, resp, conv, sent) /\ dialect = "anthropic" /\ sent \in SentSet
  BY <1>1, AnthropicOpened
<1>7. call \in Nat /\ (kind # "tool" => call = 0)
  BY <1>6, CallsFacts
<1> HIDE DEF e, call
<1>8. text \in Seq(Nat)
  BY <1>6, TextsTyped
<1>9. CASE kind = "opaque"
  <2>1. call = 0 /\ sign = <<>>
    BY <1>3, <1>7, <1>9
  <2>2. /\ s1 = Adds(sent, Content("opaque", NoItem, 0, text))
        /\ s2 = Blocked(Signs(s1, Len(s1.contents), <<>>), <<Len(sent.contents)>>)
    BY <1>9, <2>1
  <2>3. e.kind = "opaque" /\ e.index = Len(sent.contents) /\ e.text = text
    BY <1>5, <1>9
  <2> HIDE DEF s1, s2
  <2>4. SentOK(s2) /\ AnthropicInStep(turn, resp, Anthropic!OnBlockStart(conv, e), s2)
    BY <1>1, <1>6, <2>2, <2>3, AnthropicSnapshotStep
  <2> QED BY <1>4, <1>6, <2>4, AnthropicTaken
<1>10. CASE kind # "opaque"
  <2>1. kind \in {"text", "reasoning", "tool"} /\ (kind = "tool" => text = <<>>)
    BY <1>3, <1>10
  <2>2. sign \in Seq(Nat)
    <3>1. SentOK(s1)
      <4>1. NoItem \in ItemNames /\ kind \in ContentKinds
        BY <2>1 DEF ItemNames, ContentKinds, TextKinds
      <4>2. Content(kind, NoItem, call, text) \in ContentSet
        BY <1>7, <1>8, <4>1, ContentFacts
      <4>3. SentOK(sent)
        BY <1>6 DEF AnthropicOpen
      <4> QED BY <4>2, <4>3, AddsFacts
    <3>2. Texts(s1) \subseteq Seq(Nat)
      BY <3>1, TextsTyped DEF SentOK
    <3>3. <<>> \in Seq(Nat)
      OBVIOUS
    <3> HIDE DEF s1
    <3> QED BY <1>3, <3>2, <3>3
  <2>3. /\ s1 = Adds(sent, Content(kind, NoItem, call, text))
        /\ s2 = Blocked(Signs(s1, Len(s1.contents), sign), <<Len(sent.contents)>>)
    OBVIOUS
  <2>4. e.index = Len(sent.contents)
    BY <1>5
  <2> HIDE DEF s1, s2, index
  <2>5. SentOK(s2) /\ AnthropicInStep(turn, resp, Anthropic!OnBlockStart(conv, e), s2)
    BY <1>1, <1>5, <1>6, <1>7, <1>8, <2>1, <2>2, <2>3, <2>4, AnthropicBlockStep
  <2> QED BY <1>4, <1>6, <2>5, AnthropicTaken
<1> QED BY <1>9, <1>10

LEMMA AnthropicBlockStopTaken ==
  ASSUME Known, AnthropicBlockStop
  PROVE  Taken
<1> DEFINE e == [index |-> Head(sent.block)]
<1> DEFINE s2 == Blocked(sent, <<>>)
<1>1. InTurn("anthropic") /\ sent.block # <<>> /\ Take(s2, Anthropic!OnBlockStop(conv, e))
  BY DEF AnthropicBlockStop, Blocked
<1>2. AnthropicOpen(turn, resp, conv, sent) /\ dialect = "anthropic"
  BY <1>1, AnthropicOpened
<1>3. e.index = Head(sent.block) /\ s2 = Blocked(sent, <<>>)
  OBVIOUS
<1> HIDE DEF e, s2
<1>4. SentOK(s2) /\ AnthropicInStep(turn, resp, Anthropic!OnBlockStop(conv, e), s2)
  BY <1>1, <1>2, <1>3, AnthropicStopStep
<1> QED BY <1>1, <1>2, <1>4, AnthropicTaken

LEMMA WithoutInput ==
  ASSUME NEW w, NEW x, x = [in |-> 1, out |-> w]
  PROVE  [x EXCEPT !.in = 0] = [in |-> 0, out |-> w]
OBVIOUS

LEMMA AnthropicMessageDeltaTaken ==
  ASSUME Known, AnthropicMessageDelta
  PROVE  Taken
<1>1. InTurn("anthropic") /\ sent.block = <<>>
  BY DEF AnthropicMessageDelta
<1>2. PICK reason \in {""} \union ReasonsOf(sent), u \in {NoUsage, [Usage(sent) EXCEPT !.in = 0]} :
        Take(Reports(Finishes(sent, reason), u),
             Anthropic!OnMessageDelta(conv, [reason |-> reason, usage |-> u]))
  BY DEF AnthropicMessageDelta
<1> DEFINE e == [reason |-> reason, usage |-> u]
<1> DEFINE s2 == Turned(sent, TRUE, reason, u)
<1>3. AnthropicOpen(turn, resp, conv, sent) /\ dialect = "anthropic" /\ SentOK(sent)
      /\ sent.began = TRUE
  BY <1>1, AnthropicOpened DEF AnthropicOpen
<1>4. reason \in {""} \union AllReasons /\ (reason = "stop" => Calls(sent) = {})
  BY ReasonsKnown
<1>5. Honest(sent, u)
  <2> DEFINE w == sent.written
  <2>1. Usage(sent) = [in |-> 1, out |-> w]
    BY DEF Usage
  <2>2. Honest(sent, NoUsage) /\ Honest(sent, [in |-> 0, out |-> w])
    BY <1>3, NoReport
  <2> HIDE DEF w
  <2>3. [Usage(sent) EXCEPT !.in = 0] = [in |-> 0, out |-> w]
    <3> DEFINE x == Usage(sent)
    <3>1. x = [in |-> 1, out |-> w]
      BY <2>1
    <3> HIDE DEF x
    <3>2. [x EXCEPT !.in = 0] = [in |-> 0, out |-> w]
      BY <3>1, WithoutInput
    <3> QED BY <3>2 DEF x
  <2> QED BY <1>2, <2>2, <2>3
<1>6. [sent EXCEPT !.began = TRUE] = sent
  BY <1>3 DEF SentOK, SentSet
<1>7. Take(s2, Anthropic!OnMessageDelta(conv, e))
  BY <1>2, <1>6 DEF Turned
<1>8. e.reason = reason /\ e.usage = u /\ s2 = Turned(sent, TRUE, reason, u)
  OBVIOUS
<1> HIDE DEF e, s2
<1>9. SentOK(s2) /\ AnthropicInStep(turn, resp, Anthropic!OnMessageDelta(conv, e), s2)
  BY <1>1, <1>3, <1>4, <1>5, <1>8, AnthropicMessageStep
<1> QED BY <1>3, <1>7, <1>9, AnthropicTaken

LEMMA AnthropicBlockDeltaTaken ==
  ASSUME Known, AnthropicBlockDelta
  PROVE  Taken
<1> DEFINE index == Head(sent.block)
<1> DEFINE text == Fragment(sent)
<1> DEFINE E(kind) == [index |-> index, kind |-> kind, text |-> text]
<1>1. InTurn("anthropic") /\ sent.block # <<>>
  BY DEF AnthropicBlockDelta
<1>2. AnthropicOpen(turn, resp, conv, sent) /\ dialect = "anthropic" /\ SentOK(sent)
      /\ sent \in SentSet
  BY <1>1, AnthropicOpened DEF AnthropicOpen
<1> DEFINE k == Len(sent.contents)
<1>3. index + 1 = k /\ k \in 1..k
  <2>1. PICK state, B, m, status, v :
          /\ Tells(turn, resp, conv.out, state, B, m, status, v)
          /\ AnthropicRel(conv.pendingSnapshotStops, sent, state, B, m, status, v)
    BY Zenon, <1>2 DEF AnthropicOpen, AnthropicInStep
  <2>2. sent.contents # <<>> /\ sent.block = <<k - 1>>
    BY Zenon, <1>1, <2>1 DEF AnthropicRel
  <2>3. sent.contents \in Seq(ContentSet)
    BY <1>2 DEF SentSet
  <2>4. k \in Nat /\ k # 0
    BY <2>2, <2>3
  <2> QED BY <2>2, <2>4
<1>4. text \in Seq(Nat)
  BY <1>2, TextsTyped
<1>5. \/ /\ sent.contents[k].kind \in {"text", "reasoning"}
         /\ Take(Writes(sent, k, text), Anthropic!OnBlockDelta(conv, E("text")))
      \/ /\ sent.contents[k].kind = "reasoning"
         /\ Take(Signs(sent, k, text), Anthropic!OnBlockDelta(conv, E("signature")))
      \/ /\ sent.contents[k].kind = "tool"
         /\ Take(Writes(sent, k, text), Anthropic!OnBlockDelta(conv, E("tool")))
  BY <1>3 DEF AnthropicBlockDelta
<1>6. ASSUME NEW kind \in DeltaKinds, NEW s2, SentOK(s2), SameTurn(sent, s2),
             s2.contents = Amend(sent.contents, k, kind, text),
             sent.contents[k].kind # "opaque", FitsKind(kind, sent.contents[k].kind),
             Take(s2, Anthropic!OnBlockDelta(conv, E(kind)))
      PROVE  Taken
  <2> DEFINE e == E(kind)
  <2> DEFINE kind0 == sent.contents[k].kind
  <2>1. e.index = Head(sent.block) /\ e.kind = kind /\ e.text = text
    OBVIOUS
  <2>2. sent.contents[Len(sent.contents)].kind = kind0 /\ kind0 # "opaque" /\ FitsKind(kind, kind0)
    BY <1>6
  <2>3. s2.contents = Amend(sent.contents, Len(sent.contents), kind, text)
    BY <1>6
  <2>4. Take(s2, Anthropic!OnBlockDelta(conv, e))
    BY <1>6
  <2> HIDE DEF e, kind0, text, k
  <2>5. AnthropicInStep(turn, resp, Anthropic!OnBlockDelta(conv, e), s2)
    BY Zenon, <1>1, <1>2, <1>4, <1>6, <2>1, <2>2, <2>3, AnthropicDeltaStep
  <2> QED BY Zenon, <1>2, <1>6, <2>4, <2>5, AnthropicTaken
<1>7. /\ SentOK(Writes(sent, k, text)) /\ SameTurn(sent, Writes(sent, k, text))
      /\ \A kind \in {"text", "tool"} :
           Writes(sent, k, text).contents = Amend(sent.contents, k, kind, text)
  BY <1>2, <1>3, <1>4, WritesFacts
<1>8. /\ SentOK(Signs(sent, k, text)) /\ SameTurn(sent, Signs(sent, k, text))
      /\ Signs(sent, k, text).contents = Amend(sent.contents, k, "signature", text)
  BY <1>2, <1>3, <1>4, SignsFacts
<1>9. CASE /\ sent.contents[k].kind \in {"text", "reasoning"}
           /\ Take(Writes(sent, k, text), Anthropic!OnBlockDelta(conv, E("text")))
  <2> DEFINE s2 == Writes(sent, k, text)
  <2> DEFINE kind == "text"
  <2>1. kind \in DeltaKinds /\ sent.contents[k].kind # "opaque"
        /\ FitsKind(kind, sent.contents[k].kind)
    BY <1>9 DEF DeltaKinds, FitsKind, TextKinds
  <2>2. /\ SentOK(s2) /\ SameTurn(sent, s2) /\ s2.contents = Amend(sent.contents, k, kind, text)
        /\ Take(s2, Anthropic!OnBlockDelta(conv, E(kind)))
    BY <1>7, <1>9
  <2> HIDE DEF s2, kind, E, text, k
  <2> QED BY Zenon, <1>6, <2>1, <2>2
<1>10. CASE /\ sent.contents[k].kind = "reasoning"
            /\ Take(Signs(sent, k, text), Anthropic!OnBlockDelta(conv, E("signature")))
  <2> DEFINE s2 == Signs(sent, k, text)
  <2> DEFINE kind == "signature"
  <2>1. kind \in DeltaKinds /\ sent.contents[k].kind # "opaque"
        /\ FitsKind(kind, sent.contents[k].kind)
    BY <1>10 DEF DeltaKinds, FitsKind
  <2>2. /\ SentOK(s2) /\ SameTurn(sent, s2) /\ s2.contents = Amend(sent.contents, k, kind, text)
        /\ Take(s2, Anthropic!OnBlockDelta(conv, E(kind)))
    BY <1>8, <1>10
  <2> HIDE DEF s2, kind, E, text, k
  <2> QED BY Zenon, <1>6, <2>1, <2>2
<1>11. CASE /\ sent.contents[k].kind = "tool"
            /\ Take(Writes(sent, k, text), Anthropic!OnBlockDelta(conv, E("tool")))
  <2> DEFINE s2 == Writes(sent, k, text)
  <2> DEFINE kind == "tool"
  <2>1. kind \in DeltaKinds /\ sent.contents[k].kind # "opaque"
        /\ FitsKind(kind, sent.contents[k].kind)
    BY <1>11 DEF DeltaKinds, FitsKind, TextKinds
  <2>2. /\ SentOK(s2) /\ SameTurn(sent, s2) /\ s2.contents = Amend(sent.contents, k, kind, text)
        /\ Take(s2, Anthropic!OnBlockDelta(conv, E(kind)))
    BY <1>7, <1>11
  <2> HIDE DEF s2, kind, E, text, k
  <2> QED BY Zenon, <1>6, <2>1, <2>2
<1> QED BY <1>5, <1>9, <1>10, <1>11

LEMMA ResponsesOpened ==
  ASSUME Known, InTurn("openai_responses")
  PROVE  /\ ResponsesOpen(turn, resp, conv, sent) /\ dialect = "openai_responses"
         /\ SentOK(sent) /\ sent \in SentSet /\ sent.began = TRUE /\ conv.out = <<>>
<1>1. /\ dialect = "openai_responses" /\ sent.reason = "" /\ sent.began /\ conv.out = <<>>
      /\ ~conv.failed
  BY DEF InTurn, Reading, Broken
<1>2. SentOK(sent) /\ sent \in SentSet
  BY DEF Known, SentOK
<1>3. sent.began = TRUE
  BY <1>1, <1>2 DEF SentSet
<1> DEFINE ph == "reading"
<1>4. ResponsesInStep(turn, resp, conv, sent, ph) /\ ph = "reading"
  BY <1>1 DEF Known, InStep
<1> HIDE DEF ph
<1>5. sent # NewProvider
  <2>1. NewProvider.began = FALSE
    BY DEF NewProvider
  <2> QED BY <1>3, <2>1
<1>6. ResponsesOpen(turn, resp, conv, sent)
  BY Zenon, <1>1, <1>4, <1>5 DEF ResponsesInStep
<1> QED BY <1>1, <1>2, <1>3, <1>6

LEMMA ResponsesTaken ==
  ASSUME dialect = "openai_responses", NEW s, NEW c, Take(s, c), ResponsesOpen(turn, resp, c, s)
  PROVE  Taken
<1> DEFINE ph == "reading"
<1>1. ph \notin {"drained", "ended"}
  OBVIOUS
<1> HIDE DEF ph
<1>2. ResponsesInStep(turn, resp, c, s, ph) /\ SentOK(s)
  BY Zenon, <1>1 DEF ResponsesInStep, ResponsesOpen
<1> QED BY <1>2 DEF Take, InStep, Taken, ph

\* An item whose part is opened or closed, and one that is done.
PartSet(s, o, part)  == [s EXCEPT !.items[o].part = part]
ItemEnded(s, o, part) == [s EXCEPT !.items[o].state = "done", !.items[o].part = part]

WithPart(v, part)  == [v EXCEPT !.part = part]
EndedWith(v, part) == [v EXCEPT !.state = "done", !.part = part]

LEMMA ItemFields ==
  ASSUME NEW s \in SentSet, NEW o \in DOMAIN s.items, NEW part
  PROVE  /\ PartSet(s, o, part) = Itemed(s, Changed(s.items, o, WithPart(s.items[o], part)))
         /\ ItemEnded(s, o, part) = Itemed(s, Changed(s.items, o, EndedWith(s.items[o], part)))
<1>1. PICK n \in Nat : s.items \in [0..(n - 1) -> ItemSet]
  BY DEF SentSet, ItemMaps
<1> DEFINE f == s.items
<1>2. f \in [0..(n - 1) -> ItemSet] /\ o \in DOMAIN f
  BY <1>1
<1> HIDE DEF f
<1>3. [f EXCEPT ![o].part = part] = [f EXCEPT ![o] = [f[o] EXCEPT !.part = part]]
  BY <1>2
<1>4. [f EXCEPT ![o].state = "done", ![o].part = part]
        = [f EXCEPT ![o] = [f[o] EXCEPT !.state = "done", !.part = part]]
  <2>1. [f EXCEPT ![o].state = "done"] = [f EXCEPT ![o] = [f[o] EXCEPT !.state = "done"]]
    BY <1>2
  <2> QED BY <1>2, <2>1
<1> QED BY <1>3, <1>4 DEF Itemed, Changed, f, PartSet, ItemEnded, WithPart, EndedWith

LEMMA ItemParts ==
  ASSUME NEW v \in ItemSet, NEW part \in Nat
  PROVE  /\ WithPart(v, part) \in ItemSet
         /\ WithPart(v, part).part = part /\ WithPart(v, part).type = v.type
         /\ WithPart(v, part).phase = v.phase
         /\ EndedWith(v, part) \in ItemSet /\ EndedWith(v, part).phase = v.phase
BY DEF ItemSet, WithPart, EndedWith

LEMMA ResponsesCreatedTaken ==
  ASSUME Known, ResponsesCreated
  PROVE  Taken
<1>1. /\ dialect = "openai_responses" /\ ~sent.began /\ conv.out = <<>> /\ ~conv.failed
      /\ Take([sent EXCEPT !.began = TRUE], Responses!OnCreated(conv))
  BY DEF ResponsesCreated, Reading, Broken
<1> DEFINE ph == "reading"
<1>2. ResponsesInStep(turn, resp, conv, sent, ph)
  BY <1>1 DEF Known, InStep
<1> HIDE DEF ph
<1>3. /\ conv = Responses!NewClient /\ sent = NewProvider
      /\ Tells(turn, resp, <<>>, "new", {}, <<>>, "unspecified", NoUsage)
  BY Zenon, <1>1, <1>2 DEF ResponsesInStep, ResponsesOpen, ResponsesStopped
<1> DEFINE s2 == [NewProvider EXCEPT !.began = TRUE]
<1>4. Take(s2, Responses!OnCreated(Responses!NewClient)) /\ s2 = [NewProvider EXCEPT !.began = TRUE]
  BY <1>1, <1>3
<1> HIDE DEF s2
<1>5. ResponsesOpen(turn, resp, Responses!OnCreated(Responses!NewClient), s2)
  BY Zenon, <1>3, <1>4, ResponsesCreatedStep
<1> QED BY Zenon, <1>1, <1>4, <1>5, ResponsesTaken

LEMMA ItemIdTyped ==
  ASSUME NEW o \in Nat
  PROVE  ItemId(o) \in ItemNames
BY DEF ItemId, ItemNames

LEMMA ResponsesItemAddedTaken ==
  ASSUME Known, ResponsesItemAdded
  PROVE  Taken
<1> DEFINE o == Cardinality(DOMAIN sent.items)
<1> DEFINE CallOf(type) == IF type = "function_call" THEN NextCall(sent) ELSE 0
<1> DEFINE S(type) == IF type = "function_call"
                      THEN Adds(sent, Content("tool", ItemId(o), CallOf(type), <<>>))
                      ELSE sent
<1> DEFINE V(type, textPhase) ==
      [type |-> type, phase |-> textPhase, state |-> "open",
       part |-> IF type = "function_call" THEN Len(S(type).contents) ELSE 0]
<1> DEFINE E(type, textPhase) ==
      [output |-> o, item |-> ItemId(o), type |-> type, phase |-> textPhase, call |-> CallOf(type)]
<1>1. InTurn("openai_responses")
  BY DEF ResponsesItemAdded
<1>2. PICK type \in {"message", "reasoning", "function_call"}, textPhase \in {"text", "outcome"} :
        Take([S(type) EXCEPT !.items = Put(@, o, V(type, textPhase))],
             Responses!OnItemAdded(conv, E(type, textPhase)))
  BY DEF ResponsesItemAdded
<1> DEFINE v == V(type, textPhase)
<1> DEFINE e == E(type, textPhase)
<1>3. /\ ResponsesOpen(turn, resp, conv, sent) /\ dialect = "openai_responses"
      /\ SentOK(sent) /\ sent \in SentSet
  BY <1>1, ResponsesOpened
<1>4. /\ e.output = o /\ e.item = ItemId(o) /\ e.type = type /\ e.phase = textPhase
      /\ e.call = CallOf(type)
  OBVIOUS
<1>5. v.type = type /\ v.phase = textPhase
  OBVIOUS
<1>6. CASE type # "function_call"
  <2>1. S(type) = sent
    BY <1>6
  <2>2. v \in ItemSet
    <3>1. v = [type |-> type, phase |-> textPhase, state |-> "open", part |-> 0]
      BY <1>6
    <3> HIDE DEF v
    <3> QED BY <3>1 DEF ItemSet
  <2> HIDE DEF e, v
  <2>3. Take([sent EXCEPT !.items = Put(@, o, v)], Responses!OnItemAdded(conv, e))
    <3> HIDE DEF S
    <3> QED BY <1>2, <2>1 DEF v, e
  <2>4. [sent EXCEPT !.items = Put(@, o, v)] = Itemed(sent, Put(sent.items, o, v))
    BY DEF Itemed
  <2>5. o = Cardinality(DOMAIN sent.items) /\ v.type # "function_call"
        /\ e.type = v.type /\ e.phase = v.phase
    BY <1>4, <1>5, <1>6
  <2> HIDE DEF o
  <2>6. ResponsesOpen(turn, resp, Responses!OnItemAdded(conv, e), Itemed(sent, Put(sent.items, o, v)))
    BY Zenon, <1>3, <1>4, <2>2, <2>5, ResponsesItemStep
  <2>7. Take(Itemed(sent, Put(sent.items, o, v)), Responses!OnItemAdded(conv, e))
    BY <2>3, <2>4
  <2> QED BY Zenon, <1>3, <2>6, <2>7, ResponsesTaken
<1>7. CASE type = "function_call"
  <2> DEFINE call == NextCall(sent)
  <2> DEFINE kind == "tool"
  <2> DEFINE s1 == Adds(sent, Content(kind, ItemId(o), call, <<>>))
  <2>1. S(type) = s1 /\ CallOf(type) = call
    BY <1>7
  <2>2. call \in Nat
    BY <1>3, CallsFacts
  <2>3. o \in Nat
    <3>1. PICK n \in Nat : sent.items \in [0..(n - 1) -> ItemSet]
      BY <1>3 DEF SentSet, ItemMaps
    <3>2. IsFiniteSet(0..(n - 1))
      BY <3>1, FS_Interval
    <3> QED BY <3>1, <3>2, FS_CardinalityType
  <2>4. ItemId(o) \in ItemNames
    <3> HIDE DEF o
    <3> QED BY <2>3, ItemIdTyped
  <2>5. /\ SentOK(s1) /\ s1.items = sent.items
        /\ Len(s1.contents) = Len(sent.contents) + 1 /\ Len(s1.contents) \in Nat
    <3> DEFINE x == Content(kind, ItemId(o), call, <<>>)
    <3>1. x \in ContentSet
      <4>1. kind \in ContentKinds /\ <<>> \in Seq(Nat)
        BY DEF ContentKinds
      <4> HIDE DEF kind, call, o
      <4> QED BY <2>2, <2>4, <4>1, ContentFacts
    <3> HIDE DEF x
    <3>2. SentOK(s1) /\ SameTurn(sent, s1) /\ s1.contents = Append(sent.contents, x)
      BY <1>3, <3>1, AddsFacts DEF x
    <3>3. sent.contents \in Seq(ContentSet)
      BY <1>3 DEF SentSet
    <3> HIDE DEF s1
    <3> QED BY <3>1, <3>2, <3>3 DEF SameTurn
  <2>6. v.part = Len(s1.contents) /\ v \in ItemSet
    <3> DEFINE n == Len(s1.contents)
    <3>1. v = [type |-> type, phase |-> textPhase, state |-> "open", part |-> n] /\ n \in Nat
      BY <1>7, <2>1, <2>5
    <3> HIDE DEF v, n
    <3>2. v.part = n /\ v \in ItemSet
      BY <3>1 DEF ItemSet
    <3> QED BY <3>2 DEF n
  <2> HIDE DEF e, v
  <2>7. Take([s1 EXCEPT !.items = Put(@, o, v)], Responses!OnItemAdded(conv, e))
    <3> HIDE DEF S, s1
    <3> QED BY <1>2, <2>1 DEF v, e
  <2>8. [s1 EXCEPT !.items = Put(@, o, v)] = Itemed(s1, Put(sent.items, o, v))
    <3> HIDE DEF s1
    <3> QED BY <2>5 DEF Itemed
  <2>9. /\ o = Cardinality(DOMAIN sent.items) /\ v.type = "function_call"
        /\ e.type = v.type /\ e.phase = v.phase /\ e.call = call
        /\ v.part = Len(sent.contents) + 1 /\ kind = "tool"
        /\ s1 = Adds(sent, Content(kind, ItemId(o), call, <<>>))
    BY <1>4, <1>5, <1>7, <2>1, <2>5, <2>6
  <2> HIDE DEF o, s1, call, kind
  <2>10. ResponsesOpen(turn, resp, Responses!OnItemAdded(conv, e),
                       Itemed(s1, Put(sent.items, o, v)))
    BY Zenon, <1>3, <1>4, <2>2, <2>4, <2>6, <2>9, ResponsesCallStep
  <2>11. Take(Itemed(s1, Put(sent.items, o, v)), Responses!OnItemAdded(conv, e))
    BY <2>7, <2>8
  <2> QED BY Zenon, <1>3, <2>10, <2>11, ResponsesTaken
<1> QED BY <1>6, <1>7

LEMMA ItemsTyped ==
  ASSUME SentOK(sent), NEW o \in DOMAIN sent.items
  PROVE  /\ sent.items[o] \in ItemSet /\ o \in Nat /\ ItemId(o) \in ItemNames
         /\ sent.contents \in Seq(ContentSet) /\ Len(sent.contents) \in Nat
<1>1. PICK n \in Nat : sent.items \in [0..(n - 1) -> ItemSet]
  BY DEF SentOK, SentSet, ItemMaps
<1>2. o \in Nat
  BY <1>1
<1>3. sent.contents \in Seq(ContentSet)
  BY DEF SentOK, SentSet
<1> QED BY <1>1, <1>2, <1>3, ItemIdTyped

LEMMA ResponsesPartAddedTaken ==
  ASSUME Known, ResponsesPartAdded
  PROVE  Taken
<1>1. InTurn("openai_responses")
  BY DEF ResponsesPartAdded
<1>2. /\ ResponsesOpen(turn, resp, conv, sent) /\ dialect = "openai_responses"
      /\ SentOK(sent) /\ sent \in SentSet
  BY <1>1, ResponsesOpened
<1> DEFINE KindOf(item) == IF item.type = "message" THEN item.phase ELSE "reasoning"
<1> DEFINE S1(o) == Adds(sent, Content(KindOf(sent.items[o]), ItemId(o), 0, <<>>))
<1> DEFINE S(o) == PartSet(S1(o), o, Len(sent.contents) + 1)
<1>3. PICK o \in DOMAIN sent.items :
        /\ o \in OpenItems /\ sent.items[o].part = 0
        /\ \/ /\ sent.items[o].type = "message"
              /\ Take(S(o), Responses!OnTextPartAdded(conv, ItemIn(sent, o)))
           \/ /\ sent.items[o].type = "reasoning"
              /\ Take(S(o), Responses!OnReasoningPartAdded(conv, ItemIn(sent, o)))
           \/ /\ sent.items[o].type = "reasoning"
              /\ Take(S(o), Responses!OnSummaryPartAdded(conv, ItemIn(sent, o)))
  BY DEF ResponsesPartAdded, PartSet
<1> DEFINE item == sent.items[o]
<1> DEFINE kind == KindOf(item)
<1> DEFINE part == Len(sent.contents) + 1
<1> DEFINE v == WithPart(item, part)
<1> DEFINE id == ItemId(o)
<1> DEFINE s1 == Adds(sent, Content(kind, id, 0, <<>>))
<1> DEFINE e == ItemIn(sent, o)
<1>4. e.output = o /\ e.item = id
  BY DEF ItemIn
<1>5. /\ item \in ItemSet /\ id \in ItemNames /\ part \in Nat /\ o \in Nat
      /\ sent.contents \in Seq(ContentSet)
  BY <1>2, ItemsTyped
<1> HIDE DEF item, id, part, e
<1>6. /\ v \in ItemSet /\ v.part = part /\ v.type = item.type /\ v.phase = item.phase
  BY <1>5, ItemParts
<1>7. kind \in TextKinds
  BY <1>5 DEF ItemSet, TextKinds
<1>8. SentOK(s1) /\ s1 \in SentSet /\ s1.items = sent.items
  <2> DEFINE x == Content(kind, id, 0, <<>>)
  <2>1. x \in ContentSet
    <3>1. kind \in ContentKinds /\ <<>> \in Seq(Nat) /\ 0 \in Nat
      BY <1>7 DEF ContentKinds
    <3> HIDE DEF kind
    <3> QED BY <1>5, <3>1, ContentFacts
  <2> HIDE DEF x
  <2>2. SentOK(s1) /\ SameTurn(sent, s1)
    BY <1>2, <2>1, AddsFacts DEF x
  <2> HIDE DEF s1
  <2> QED BY <2>2 DEF SameTurn, SentOK
<1>9. item.part = 0 /\ item.type # "function_call"
  BY <1>3 DEF item
<1>10. S(o) = Itemed(s1, Changed(sent.items, o, v))
  <2>1. S(o) = PartSet(s1, o, part)
    BY DEF part, item, id
  <2> HIDE DEF s1, S
  <2>2. o \in DOMAIN s1.items /\ s1.items[o] = item
    BY <1>8 DEF item
  <2>3. PartSet(s1, o, part) = Itemed(s1, Changed(s1.items, o, WithPart(s1.items[o], part)))
    BY Zenon, <1>8, <2>2, ItemFields
  <2> QED BY <1>8, <2>1, <2>2, <2>3
<1>11. conv.outputPhase[o] = item.phase
  BY <1>2 DEF ResponsesOpen, PhasesKnown, item
<1> DEFINE d == Responses!StartOutputBlock(conv, o, kind, id, 0)
<1>12. /\ o \notin DOMAIN conv.openIndex
       /\ ResponsesOpen(turn, resp, d, Itemed(s1, Changed(sent.items, o, v)))
  <2>1. /\ sent.items[o].part = 0 /\ sent.items[o].type # "function_call"
        /\ v.part = Len(sent.contents) + 1 /\ v.type = sent.items[o].type
        /\ v.phase = sent.items[o].phase /\ s1 = Adds(sent, Content(kind, id, 0, <<>>))
    BY <1>6, <1>9 DEF item, part
  <2> HIDE DEF v, kind, s1
  <2> QED BY Zenon, <1>2, <1>5, <1>6, <1>7, <2>1, ResponsesPartStep
<1>13. CASE /\ item.type = "message"
            /\ Take(S(o), Responses!OnTextPartAdded(conv, e))
  <2>1. kind = item.phase
    BY <1>13
  <2> HIDE DEF kind, v, s1, S
  <2>2. Responses!OnTextPartAdded(conv, e) = d
    BY <1>4, <1>11, <2>1 DEF Responses!OnTextPartAdded
  <2> HIDE DEF d
  <2> QED BY <1>2, <1>10, <1>12, <1>13, <2>2, ResponsesTaken
<1>14. CASE /\ item.type = "reasoning"
            /\ \/ Take(S(o), Responses!OnReasoningPartAdded(conv, e))
               \/ Take(S(o), Responses!OnSummaryPartAdded(conv, e))
  <2>1. kind = "reasoning"
    BY <1>14
  <2> HIDE DEF kind, v, s1, S
  <2>2. Responses!OnReasoningPartAdded(conv, e) = d
    BY <1>4, <2>1 DEF Responses!OnReasoningPartAdded
  <2>3. Responses!OnSummaryPartAdded(conv, e) = Responses!OnReasoningPartAdded(conv, e)
    BY <1>4, <1>12 DEF Responses!OnSummaryPartAdded
  <2> HIDE DEF d
  <2>4. Take(S(o), d)
    BY <1>14, <2>2, <2>3
  <2> QED BY <1>2, <1>10, <1>12, <2>4, ResponsesTaken
<1>15. \/ /\ item.type = "message"
          /\ Take(S(o), Responses!OnTextPartAdded(conv, e))
       \/ /\ item.type = "reasoning"
          /\ Take(S(o), Responses!OnReasoningPartAdded(conv, e))
       \/ /\ item.type = "reasoning"
          /\ Take(S(o), Responses!OnSummaryPartAdded(conv, e))
  <2> HIDE DEF S
  <2> QED BY <1>3 DEF item, e
<1> HIDE DEF S
<1> QED BY <1>13, <1>14, <1>15

LEMMA ResponsesPartDoneTaken ==
  ASSUME Known, ResponsesPartDone
  PROVE  Taken
<1>1. InTurn("openai_responses")
  BY DEF ResponsesPartDone
<1>2. /\ ResponsesOpen(turn, resp, conv, sent) /\ dialect = "openai_responses"
      /\ SentOK(sent) /\ sent \in SentSet
  BY <1>1, ResponsesOpened
<1> DEFINE part == 0
<1>3. PICK o \in DOMAIN sent.items :
        Take(PartSet(sent, o, part), Responses!OnPartDone(conv, ItemIn(sent, o)))
  BY DEF ResponsesPartDone, PartSet
<1> DEFINE e == ItemIn(sent, o)
<1> DEFINE v == WithPart(sent.items[o], part)
<1>4. e.output = o
  BY DEF ItemIn
<1>5. part \in Nat
  OBVIOUS
<1> HIDE DEF e, part
<1>6. v \in ItemSet /\ v.phase = sent.items[o].phase
  BY <1>2, <1>5, ItemsTyped, ItemParts
<1>7. PartSet(sent, o, part) = Itemed(sent, Changed(sent.items, o, v))
  BY Zenon, <1>2, ItemFields
<1> HIDE DEF v
<1>8. ResponsesOpen(turn, resp, Responses!OnPartDone(conv, e),
                    Itemed(sent, Changed(sent.items, o, v)))
  BY Zenon, <1>2, <1>4, <1>6, ResponsesPartDoneStep
<1>9. Take(Itemed(sent, Changed(sent.items, o, v)), Responses!OnPartDone(conv, e))
  BY <1>3, <1>7 DEF e
<1> QED BY Zenon, <1>2, <1>8, <1>9, ResponsesTaken

\* A fragment for no content there is.
LEMMA WritesTyped ==
  ASSUME NEW s, SentOK(s), NEW k \in Nat, NEW text \in Seq(Nat)
  PROVE  SentOK(Writes(s, k, text))
<1>1. CASE k \in 1..Len(s.contents)
  BY <1>1, WritesFacts
<1>2. CASE k \notin 1..Len(s.contents)
  <2> DEFINE m == s.contents
  <2> DEFINE w == s.written + Len(text)
  <2>1. m \in Seq(ContentSet) /\ w \in Nat /\ w >= s.written /\ s \in SentSet
        /\ s.usage \in Usages
    <3>1. Len(text) \in Nat
      OBVIOUS
    <3>2. s \in SentSet
      BY DEF SentOK
    <3>3. m \in Seq(ContentSet) /\ s.written \in Nat /\ s.usage \in Usages
      BY <3>2 DEF SentSet
    <3> DEFINE n == s.written  l == Len(text)
    <3>4. n \in Nat /\ l \in Nat
      BY <3>1, <3>3
    <3> HIDE DEF n, l
    <3>5. n + l \in Nat /\ n + l >= n
      BY <3>4
    <3> QED BY <3>2, <3>3, <3>5 DEF n, l
  <2>2. Writes(s, k, text) = [s EXCEPT !.contents = [m EXCEPT ![k].text = @ \o text], !.written = w]
    BY DEF Writes
  <2>3. [m EXCEPT ![k].text = @ \o text] = m
    <3>1. k \notin DOMAIN m /\ m = [i \in DOMAIN m |-> m[i]]
      BY <1>2, <2>1
    <3> HIDE DEF m
    <3> QED BY <3>1
  <2> HIDE DEF m, w
  <2> DEFINE s2 == [s EXCEPT !.contents = m, !.written = w]
  <2>4. s2 \in SentSet /\ s2.usage = s.usage /\ s2.written = w
    BY <2>1 DEF SentSet
  <2>5. Writes(s, k, text) = s2
    BY <2>2, <2>3
  <2> HIDE DEF s2
  <2> DEFINE i == s.usage.in  o == s.usage.out  n == s.written
  <2>6. i <= 1 /\ o <= n /\ o \in Nat /\ n \in Nat /\ w >= n
    BY <2>1 DEF SentOK, SentSet, Usages
  <2>7. s2.usage.in = i /\ s2.usage.out = o
    BY <2>4
  <2> HIDE DEF i, o, n
  <2>8. s2.usage.in <= 1 /\ s2.usage.out <= w
    BY <2>1, <2>6, <2>7
  <2>9. SentOK(s2)
    BY <2>4, <2>8 DEF SentOK
  <2> QED BY <2>5, <2>9
<1> QED BY <1>1, <1>2

LEMMA ResponsesDeltaTaken ==
  ASSUME Known, ResponsesDelta
  PROVE  Taken
<1>1. InTurn("openai_responses")
  BY DEF ResponsesDelta
<1>2. /\ ResponsesOpen(turn, resp, conv, sent) /\ dialect = "openai_responses"
      /\ SentOK(sent) /\ sent \in SentSet /\ conv.out = <<>>
  BY <1>1, ResponsesOpened
<1> DEFINE KindOf(o) == IF sent.items[o].type = "function_call" THEN "tool" ELSE "text"
<1> DEFINE E(o) == [output |-> o, text |-> Fragment(sent), kind |-> KindOf(o)]
<1>3. PICK o \in DOMAIN sent.items :
        Take(Writes(sent, sent.items[o].part, Fragment(sent)), Responses!OnDelta(conv, E(o)))
  BY DEF ResponsesDelta
<1> DEFINE e == E(o)
<1> DEFINE kind == KindOf(o)
<1> DEFINE text == Fragment(sent)
<1> DEFINE s2 == Writes(sent, sent.items[o].part, text)
<1>4. /\ e.output = o /\ e.kind = kind /\ e.text = text
      /\ kind = IF sent.items[o].type = "function_call" THEN "tool" ELSE "text"
  OBVIOUS
<1>5. text \in Seq(Nat)
  BY <1>2, TextsTyped
<1>6. Take(s2, Responses!OnDelta(conv, e))
  BY <1>3
<1> HIDE DEF e, kind, text
<1>7. CASE o \in DOMAIN conv.openIndex
  <2>1. ResponsesOpen(turn, resp, Responses!OnDelta(conv, e), s2)
    BY Zenon, <1>2, <1>4, <1>5, <1>7, ResponsesDeltaStep
  <2> QED BY Zenon, <1>2, <1>6, <2>1, ResponsesTaken
<1>8. CASE o \notin DOMAIN conv.openIndex
  <2>1. sent.items[o].part \in Nat
    BY <1>2, ItemsTyped DEF ItemSet
  <2>2. SentOK(s2)
    BY <1>2, <1>5, <2>1, WritesTyped
  <2> DEFINE d == Responses!OnDelta(conv, e)
  <2>3. PICK B : Tells(turn, resp, conv.out, "open", B, sent.contents, "unspecified", NoUsage)
    BY Zenon, <1>2 DEF ResponsesOpen, Tracks
  <2>4. IsResponses(conv)
    BY Zenon, <1>2 DEF ResponsesOpen, Tracks
  <2>5. d.failed = TRUE /\ d.out = <<>> /\ IsResponses(d)
    BY <1>2, <1>4, <1>8, <2>4, ResponsesDeltaFails
  <2> HIDE DEF s2, d
  <2> DEFINE ph == "reading"
  <2>6. ph \notin {"drained", "ended"}
    OBVIOUS
  <2>7. \E state, b, m, v : Tells(turn, resp, <<>>, state, b, m, "unspecified", v)
    BY Zenon, <1>2, <2>3
  <2> HIDE DEF ph
  <2>8. ResponsesInStep(turn, resp, d, s2, ph)
    BY Zenon, <2>5, <2>6, <2>7 DEF ResponsesInStep
  <2> QED BY <1>2, <1>6, <2>2, <2>8 DEF Take, Taken, InStep, ph, d
<1> QED BY <1>7, <1>8

LEMMA ResponsesItemDoneTaken ==
  ASSUME Known, ResponsesItemDone
  PROVE  Taken
<1>1. InTurn("openai_responses")
  BY DEF ResponsesItemDone
<1>2. /\ ResponsesOpen(turn, resp, conv, sent) /\ dialect = "openai_responses"
      /\ SentOK(sent) /\ sent \in SentSet
  BY <1>1, ResponsesOpened
<1> DEFINE part == 0
<1> DEFINE S(o, x) == IF x = <<>> THEN sent ELSE Adds(sent, Content("opaque", ItemId(o), 0, x))
<1>3. PICK o \in DOMAIN sent.items :
      \E x \in (IF sent.items[o].type = "reasoning" /\ CanAdd(sent) THEN Texts(sent) ELSE {<<>>}) :
        Take(ItemEnded(S(o, x), o, part), Responses!OnItemDone(conv, ItemDone(sent, o, x)))
  BY DEF ResponsesItemDone, ItemEnded
<1>4. PICK x \in (IF sent.items[o].type = "reasoning" /\ CanAdd(sent) THEN Texts(sent) ELSE {<<>>}) :
        Take(ItemEnded(S(o, x), o, part), Responses!OnItemDone(conv, ItemDone(sent, o, x)))
  <2> HIDE DEF S, part
  <2> QED BY <1>3
<1> DEFINE e == ItemDone(sent, o, x)
<1> DEFINE item == sent.items[o]
<1> DEFINE id == ItemId(o)
<1> DEFINE v == EndedWith(item, part)
<1>5. e.output = o /\ e.item = id /\ e.type = item.type /\ e.encrypted = x
  BY DEF ItemDone
<1>6. item \in ItemSet /\ id \in ItemNames /\ part \in Nat
  BY <1>2, ItemsTyped
<1>7. x \in Seq(Nat) /\ (x # <<>> => item.type = "reasoning")
  <2>1. Texts(sent) \subseteq Seq(Nat) /\ <<>> \in Seq(Nat)
    BY <1>2, TextsTyped
  <2>2. CASE item.type = "reasoning" /\ CanAdd(sent)
    BY <1>4, <2>1, <2>2
  <2>3. CASE ~(item.type = "reasoning" /\ CanAdd(sent))
    <3>1. x = <<>>
      BY <1>4, <2>3
    <3> QED BY <2>1, <3>1
  <2> QED BY <2>2, <2>3
<1> HIDE DEF e, part
<1>8. v \in ItemSet /\ v.phase = sent.items[o].phase
  BY <1>6, ItemParts
<1>9. CASE x = <<>>
  <2>1. S(o, x) = sent
    BY <1>9
  <2>2. ItemEnded(sent, o, part) = Itemed(sent, Changed(sent.items, o, v))
    BY <1>2, ItemFields
  <2>3. Take(ItemEnded(sent, o, part), Responses!OnItemDone(conv, e))
    <3> HIDE DEF S
    <3> QED BY <1>4, <2>1 DEF e
  <2>4. e.type # "reasoning" \/ e.encrypted = <<>>
    BY <1>5, <1>9
  <2> HIDE DEF v
  <2>5. ResponsesOpen(turn, resp, Responses!OnItemDone(conv, e),
                      Itemed(sent, Changed(sent.items, o, v)))
    BY Zenon, <1>2, <1>5, <1>8, <2>4, ResponsesItemEnds
  <2>6. Take(Itemed(sent, Changed(sent.items, o, v)), Responses!OnItemDone(conv, e))
    BY <2>2, <2>3
  <2> QED BY Zenon, <1>2, <2>5, <2>6, ResponsesTaken
<1>10. CASE x # <<>>
  <2> DEFINE kind == "opaque"
  <2> DEFINE s1 == Adds(sent, Content(kind, id, 0, x))
  <2>1. S(o, x) = s1
    BY <1>10
  <2>2. SentOK(s1) /\ s1 \in SentSet /\ s1.items = sent.items
    <3> DEFINE y == Content(kind, id, 0, x)
    <3>1. y \in ContentSet
      <4>1. kind \in ContentKinds /\ 0 \in Nat
        BY DEF ContentKinds
      <4> HIDE DEF kind, id
      <4> QED BY <1>6, <1>7, <4>1, ContentFacts
    <3> HIDE DEF y
    <3>2. SentOK(s1) /\ SameTurn(sent, s1)
      BY <1>2, <3>1, AddsFacts DEF y
    <3> HIDE DEF s1
    <3> QED BY <3>2 DEF SameTurn, SentOK
  <2>3. Take(ItemEnded(s1, o, part), Responses!OnItemDone(conv, e))
    <3> HIDE DEF S, s1
    <3> QED BY <1>4, <2>1 DEF e
  <2>4. kind = "opaque" /\ s1 = Adds(sent, Content(kind, id, 0, x))
    OBVIOUS
  <2> HIDE DEF s1, kind
  <2>5. ItemEnded(s1, o, part) = Itemed(s1, Changed(sent.items, o, v))
    <3>1. ItemEnded(s1, o, part) = Itemed(s1, Changed(s1.items, o, EndedWith(s1.items[o], part)))
      BY <2>2, ItemFields
    <3> QED BY <2>2, <3>1
  <2>6. e.type = "reasoning"
    BY <1>5, <1>7, <1>10
  <2> HIDE DEF v, id
  <2>7. ResponsesOpen(turn, resp, Responses!OnItemDone(conv, e),
                      Itemed(s1, Changed(sent.items, o, v)))
    BY Zenon, <1>2, <1>5, <1>6, <1>7, <1>8, <1>10, <2>4, <2>6, ResponsesItemSnapshot
  <2>8. Take(Itemed(s1, Changed(sent.items, o, v)), Responses!OnItemDone(conv, e))
    BY <2>3, <2>5
  <2> QED BY Zenon, <1>2, <2>7, <2>8, ResponsesTaken
<1> QED BY <1>9, <1>10

LEMMA ResponsesTerminalTaken ==
  ASSUME Known, ResponsesTerminal
  PROVE  Taken
<1>1. InTurn("openai_responses")
  BY DEF ResponsesTerminal
<1>2. /\ ResponsesOpen(turn, resp, conv, sent) /\ dialect = "openai_responses"
      /\ SentOK(sent) /\ sent \in SentSet /\ sent.began = TRUE
  BY <1>1, ResponsesOpened
<1> DEFINE u == Usage(sent)
<1> DEFINE calls == Calls(sent) # {}
<1>3. PICK reason \in Reasons \ {"calls"} :
        Take(Reports(Finishes(sent, reason), u),
             Responses!OnTerminal(conv, [reason |-> reason, usage |-> u, calls |-> calls]))
  BY DEF ResponsesTerminal
<1> DEFINE e == [reason |-> reason, usage |-> u, calls |-> calls]
<1> DEFINE s2 == Turned(sent, TRUE, reason, u)
<1>4. e.reason = reason /\ e.usage = u /\ e.calls = (Calls(sent) # {})
  OBVIOUS
<1>5. reason \in AllReasons /\ reason # ""
  BY ProviderAssumption DEF AllReasons
<1>6. Honest(sent, u)
  BY <1>2, NoReport
<1>7. Take(s2, Responses!OnTerminal(conv, e)) /\ s2 = Turned(sent, TRUE, reason, u)
  <2>1. [sent EXCEPT !.began = TRUE] = sent
    BY <1>2 DEF SentSet
  <2> HIDE DEF u, calls
  <2> QED BY <1>3, <2>1 DEF Turned
<1> DEFINE ph == "reading"
<1>8. s2.reason = reason
  <2>1. reason \in {""} \union AllReasons /\ TRUE \in BOOLEAN
    BY <1>5
  <2> HIDE DEF u
  <2> DEFINE b == TRUE
  <2>2. b \in BOOLEAN
    OBVIOUS
  <2> HIDE DEF b
  <2>3. HasTurned(sent, Turned(sent, b, reason, u), b, reason, u)
    BY <1>2, <1>6, <2>1, <2>2, TurnFacts
  <2> QED BY <2>3 DEF HasTurned, b
<1> HIDE DEF e, s2, u, ph
<1>9. ResponsesStopped(turn, resp, Responses!OnTerminal(conv, e), s2)
  BY Zenon, <1>2, <1>4, <1>5, <1>6, <1>7, ResponsesTerminalStep
<1>10. ResponsesInStep(turn, resp, Responses!OnTerminal(conv, e), s2, ph) /\ SentOK(s2)
  BY Zenon, <1>5, <1>8, <1>9 DEF ResponsesInStep, ResponsesStopped
<1> QED BY <1>2, <1>7, <1>10 DEF Take, Taken, InStep, ph

-----------------------------------------------------------------------------
(* Reading the upstream                                                    *)

ProviderSends ==
  \/ OpenAIChatChunk \/ OpenAIChatUsage
  \/ GoogleResponse
  \/ AnthropicMessageStart \/ AnthropicBlockStart \/ AnthropicBlockDelta
  \/ AnthropicBlockStop \/ AnthropicMessageDelta
  \/ ResponsesCreated \/ ResponsesItemAdded \/ ResponsesPartAdded
  \/ ResponsesDelta \/ ResponsesPartDone \/ ResponsesItemDone
  \/ ResponsesTerminal

LEMMA ProviderSendsTaken ==
  ASSUME Known, ProviderSends
  PROVE  Taken
BY Zenon, OpenAIChatChunkTaken, OpenAIChatUsageTaken, GoogleResponseTaken,
   AnthropicMessageStartTaken, AnthropicBlockStartTaken, AnthropicBlockDeltaTaken,
   AnthropicBlockStopTaken, AnthropicMessageDeltaTaken, ResponsesCreatedTaken,
   ResponsesItemAddedTaken, ResponsesPartAddedTaken, ResponsesDeltaTaken,
   ResponsesPartDoneTaken, ResponsesItemDoneTaken, ResponsesTerminalTaken
   DEF ProviderSends

\* Nothing but what was sent and the client changes.
Stays == UNCHANGED <<dialect, resp, phase, recorded, turn, event, count>>

LEMMA ProviderSendsStays ==
  ASSUME ProviderSends
  PROVE  Reading /\ Stays
<1>1. CASE OpenAIChatChunk
  BY <1>1 DEF OpenAIChatChunk, Take, Stays
<1>2. CASE OpenAIChatUsage
  BY <1>2 DEF OpenAIChatUsage, Take, Stays
<1>3. CASE GoogleResponse
  BY <1>3 DEF GoogleResponse, Take, Stays
<1>4. CASE AnthropicMessageStart
  BY <1>4 DEF AnthropicMessageStart, Take, Stays
<1>5. CASE AnthropicBlockStart
  BY <1>5 DEF AnthropicBlockStart, InTurn, Take, Stays
<1>6. CASE AnthropicBlockDelta
  BY <1>6 DEF AnthropicBlockDelta, InTurn, Take, Stays
<1>7. CASE AnthropicBlockStop
  BY <1>7 DEF AnthropicBlockStop, InTurn, Take, Stays
<1>8. CASE AnthropicMessageDelta
  BY <1>8 DEF AnthropicMessageDelta, InTurn, Take, Stays
<1>9. CASE ResponsesCreated
  BY <1>9 DEF ResponsesCreated, Take, Stays
<1>10. CASE ResponsesItemAdded
  BY <1>10 DEF ResponsesItemAdded, InTurn, Take, Stays
<1>11. CASE ResponsesPartAdded
  BY <1>11 DEF ResponsesPartAdded, InTurn, Take, Stays
<1>12. CASE ResponsesDelta
  BY <1>12 DEF ResponsesDelta, InTurn, Take, Stays
<1>13. CASE ResponsesPartDone
  BY <1>13 DEF ResponsesPartDone, InTurn, Take, Stays
<1>14. CASE ResponsesItemDone
  BY <1>14 DEF ResponsesItemDone, InTurn, Take, Stays
<1>15. CASE ResponsesTerminal
  BY <1>15 DEF ResponsesTerminal, InTurn, Take, Stays
<1> QED BY <1>1, <1>2, <1>3, <1>4, <1>5, <1>6, <1>7, <1>8, <1>9, <1>10, <1>11, <1>12,
           <1>13, <1>14, <1>15 DEF ProviderSends

\* What closes the turn when the upstream ends keeps the client in step.
LEMMA EndsInStep ==
  ASSUME Known, Reading, UpstreamEnds
  PROVE  InStep(dialect, turn, resp, conv', sent, "drained")
<1> DEFINE r == "reading"
<1> DEFINE ph == "drained"
<1>1. SentOK(sent) /\ InStep(dialect, turn, resp, conv, sent, r) /\ r = "reading"
      /\ ph = "drained" /\ ph # "reading"
  BY DEF Known
<1>2. conv' = CASE dialect = "openai_chat"      -> Chat!Finish(conv)
               [] dialect = "openai_responses" -> Responses!Finish(conv)
               [] dialect = "anthropic"        -> Anthropic!Finish(conv)
               [] dialect = "google"           -> Google!Finish(conv)
  BY DEF UpstreamEnds
<1>3. dialect = "openai_responses" => ~conv.failed
  BY DEF Reading, Broken
<1> HIDE DEF r, ph
<1>4. CASE dialect = "openai_chat" /\ ChatInStep(turn, resp, conv, sent, r)
  <2>1. conv' = Chat!Finish(conv)
    BY <1>2, <1>4
  <2>2. ChatInStep(turn, resp, conv, sent, "reading")
    BY <1>1, <1>4
  <2>3. ChatInStep(turn, resp, Chat!Finish(conv), sent, ph)
    BY <1>1, <2>2, ChatFinishStep
  <2>4. InStep(dialect, turn, resp, conv', sent, ph)
    BY Zenon, <1>4, <2>1, <2>3 DEF InStep
  <2> QED BY <2>4 DEF ph
<1>5. CASE dialect = "openai_responses" /\ ResponsesInStep(turn, resp, conv, sent, r)
  <2>1. conv' = Responses!Finish(conv)
    BY <1>2, <1>5
  <2>2. ResponsesInStep(turn, resp, Responses!Finish(conv), sent, ph)
    <3>1. CASE /\ conv = Responses!NewClient /\ sent = NewProvider
               /\ Tells(turn, resp, <<>>, "new", {}, <<>>, "unspecified", NoUsage)
      <4>1. conv.messageStarted = FALSE
        BY <3>1 DEF Responses!NewClient
      <4>2. Responses!Finish(conv) = conv
        BY <4>1, ResponsesFinished
      <4> QED BY Zenon, <3>1, <4>2 DEF ResponsesInStep
    <3>2. CASE ResponsesOpen(turn, resp, conv, sent)
      <4>1. ResponsesStopped(turn, resp, Responses!Finish(conv), sent)
        BY <3>2, ResponsesFinishStep
      <4> QED BY Zenon, <1>1, <4>1 DEF ResponsesInStep
    <3>3. CASE ResponsesStopped(turn, resp, conv, sent)
      <4>1. Responses!Finish(conv) = conv
        BY <3>3, ResponsesFinished DEF ResponsesStopped
      <4> QED BY Zenon, <1>1, <3>3, <4>1 DEF ResponsesInStep
    <3>4. conv.failed # TRUE
      BY <1>3, <1>5
    <3> QED BY Zenon, <1>5, <3>1, <3>2, <3>3, <3>4 DEF ResponsesInStep
  <2>4. InStep(dialect, turn, resp, conv', sent, ph)
    BY Zenon, <1>5, <2>1, <2>2 DEF InStep
  <2> QED BY <2>4 DEF ph
<1>6. CASE dialect = "anthropic" /\ AnthropicInStep(turn, resp, conv, sent)
  <2>1. conv' = conv
    BY <1>2, <1>6 DEF Anthropic!Finish
  <2>4. InStep(dialect, turn, resp, conv', sent, ph)
    BY Zenon, <1>6, <2>1 DEF InStep
  <2> QED BY <2>4 DEF ph
<1>7. CASE dialect = "google" /\ GoogleInStep(turn, resp, conv, sent, r)
  <2>1. conv' = conv
    BY <1>2, <1>7 DEF Google!Finish
  <2>2. GoogleInStep(turn, resp, conv, sent, ph)
    BY Zenon, <1>7 DEF GoogleInStep, GoogleRel
  <2>4. InStep(dialect, turn, resp, conv', sent, ph)
    BY Zenon, <1>7, <2>1, <2>2 DEF InStep
  <2> QED BY <2>4 DEF ph
<1> QED BY Zenon, <1>1, <1>4, <1>5, <1>6, <1>7 DEF InStep

-----------------------------------------------------------------------------
(* The inductive invariant                                                 *)

StreamTyped ==
  /\ dialect \in Dialects
  /\ SentOK(sent)
  /\ turn \in Turns
  /\ event \in Proper
  /\ phase \in {"reading", "drained", "ended", "failed", "canceled"}
  /\ recorded \in Seq(Usages)
  /\ phase \in {"reading", "drained"} => recorded = <<>>
  /\ phase = "ended" => conv.out = <<>> /\ recorded = <<resp.usage>>
  /\ Len(recorded) <= 1
  /\ phase \in {"drained", "ended"} => Complete \/ "eof" \in Quirks

\* The event that could not be sent was reduced, and stays where it was.
Abandoned ==
  /\ phase = "failed" /\ conv.out # <<>>
  /\ \E t : ReaderOK(t, resp)
  /\ "late_stop" \notin Quirks => Whole(resp, sent)

IInv ==
  /\ StreamTyped
  /\ \/ InStep(dialect, turn, resp, conv, sent, phase) /\ JudgedAtEnd(turn, resp)
     \/ Abandoned

-----------------------------------------------------------------------------
(* The initial states                                                      *)

LEMMA NewProviderOK == SentOK(NewProvider)
<1>1. <<>> \in Seq(ContentSet)
  BY EmptySeq
<1>2. <<>> \in ItemMaps
  <2>1. 0..(0 - 1) = {}
    OBVIOUS
  <2>2. <<>> \in [0..(0 - 1) -> ItemSet]
    BY <2>1
  <2> QED BY <2>2 DEF ItemMaps
<1>3. /\ NewProvider.usage = NoUsage /\ NewProvider.written = 0
      /\ NoUsage \in Usages /\ NoUsage.in = 0 /\ NoUsage.out = 0
  BY DEF NewProvider, NoUsage, Usages
<1> DEFINE e == <<>>
<1> DEFINE u == NoUsage
<1>4. NewProvider = [began |-> FALSE, contents |-> e, written |-> 0, items |-> e,
                     block |-> e, reason |-> "", usage |-> u]
  BY DEF NewProvider
<1>5. e \in Seq(ContentSet) /\ e \in ItemMaps /\ e \in OneOrNone(Nat) /\ u \in Usages
  BY <1>1, <1>2, <1>3 DEF OneOrNone
<1> HIDE DEF e, u
<1>6. NewProvider \in SentSet
  BY <1>4, <1>5 DEF SentSet
<1> QED BY <1>3, <1>6 DEF SentOK

LEMMA NewClientInStep ==
  ASSUME NEW d \in Dialects, NEW ph, ph = "reading"
  PROVE  InStep(d, NewTurn, NewReducer, NewClient(d), NewProvider, ph)
<1> DEFINE s == NewProvider
<1> DEFINE state == "new"  B == {}  m == <<>>  status == "unspecified"  v == NoUsage
<1>1. Tells(NewTurn, NewReducer, <<>>, state, B, m, status, v)
  BY NewReader
<1>2. /\ s.began = FALSE /\ s.contents = <<>> /\ s.reason = "" /\ s.usage = NoUsage
      /\ s.block = <<>>
  BY DEF NewProvider
<1>3. NoUsage \in Usages /\ Len(<<>>) = 0 /\ <<>> \in Seq(Proper)
  BY EmptySeq DEF NoUsage, Usages
<1>4. CASE d = "openai_chat"
  <2> DEFINE c == Chat!NewClient
  <2>1. NewClient(d) = c
    BY <1>4 DEF NewClient
  <2>2. /\ c \in ChatClients
        /\ c.messageStarted = FALSE /\ c.stopEmitted = FALSE /\ c.status = "unspecified"
        /\ c.nextIndex = 0 /\ c.open = <<>> /\ c.out = <<>>
    BY <1>3 DEF Chat!NewClient, ChatClients, Statuses, OneOrNone
  <2> HIDE DEF s, c
  <2>3. ChatRel(c, s, ph, state, B, m, status, v)
    BY <1>2, <1>3, <2>2 DEF ChatRel, BlocksOf
  <2> HIDE DEF state, B, m, status, v
  <2>4. ChatInStep(NewTurn, NewReducer, c, s, ph)
    BY Zenon, <1>1, <2>2, <2>3 DEF ChatInStep
  <2>5. InStep(d, NewTurn, NewReducer, NewClient(d), s, ph)
    BY Zenon, <1>4, <2>1, <2>4 DEF InStep
  <2> QED BY <2>5 DEF s
<1>5. CASE d = "google"
  <2> DEFINE c == Google!NewClient
  <2>1. NewClient(d) = c
    BY <1>5 DEF NewClient
  <2>2. /\ c \in GoogleClients
        /\ c.messageStarted = FALSE /\ c.nextIndex = 0 /\ c.open = <<>> /\ c.out = <<>>
        /\ c.lastUsage = NoUsage
    BY <1>3 DEF Google!NewClient, Google!NoUsage, NoUsage, GoogleClients, OneOrNone
  <2> HIDE DEF s, c
  <2>3. GoogleRel(c, s, ph, state, B, m, status, v)
    BY <1>2, <1>3, <2>2 DEF GoogleRel, BlocksOf
  <2> HIDE DEF state, B, m, status, v
  <2>4. GoogleInStep(NewTurn, NewReducer, c, s, ph)
    BY Zenon, <1>1, <2>2, <2>3 DEF GoogleInStep
  <2>5. InStep(d, NewTurn, NewReducer, NewClient(d), s, ph)
    BY Zenon, <1>5, <2>1, <2>4 DEF InStep
  <2> QED BY <2>5 DEF s
<1>6. CASE d = "anthropic"
  <2> DEFINE c == Anthropic!NewClient
  <2>1. NewClient(d) = c
    BY <1>6 DEF NewClient
  <2>2. c \in AnthropicClients /\ c.pendingSnapshotStops = {} /\ c.out = <<>>
    BY <1>3 DEF Anthropic!NewClient, AnthropicClients
  <2> HIDE DEF s, c
  <2>3. AnthropicRel(c.pendingSnapshotStops, s, state, B, m, status, v)
    BY <1>2, <2>2 DEF AnthropicRel
  <2> HIDE DEF state, B, m, status, v
  <2>4. AnthropicInStep(NewTurn, NewReducer, c, s)
    BY Zenon, <1>1, <2>2, <2>3 DEF AnthropicInStep
  <2>5. InStep(d, NewTurn, NewReducer, NewClient(d), s, ph)
    BY Zenon, <1>6, <2>1, <2>4 DEF InStep
  <2> QED BY <2>5 DEF s
<1>7. CASE d = "openai_responses"
  <2>1. NewClient(d) = Responses!NewClient
    BY <1>7 DEF NewClient
  <2>2. ResponsesInStep(NewTurn, NewReducer, Responses!NewClient, NewProvider, ph)
    BY Zenon, NewReader DEF ResponsesInStep
  <2> QED BY Zenon, <1>7, <2>1, <2>2 DEF InStep
<1> QED BY <1>4, <1>5, <1>6, <1>7, UpstreamStreamAssumption

LEMMA BlankProper == Blank \in Proper
<1>1. Blank \in EventSet /\ Blank.type = "usage_only" /\ Blank.status = "unspecified"
  BY BlankFields DEF IsEvent
<1> QED BY <1>1 DEF Proper

LEMMA InitIInv == StreamInit => IInv
<1> SUFFICES ASSUME StreamInit PROVE IInv
  OBVIOUS
<1>1. /\ dialect \in Dialects /\ sent = NewProvider /\ conv = NewClient(dialect)
      /\ resp = NewReducer /\ phase = "reading" /\ recorded = <<>>
      /\ turn = NewTurn /\ event = Blank
  BY DEF StreamInit, Init
<1>2. InStep(dialect, turn, resp, conv, sent, phase)
  BY Zenon, <1>1, NewClientInStep
<1>3. JudgedAtEnd(turn, resp)
  BY <1>1 DEF JudgedAtEnd, NewReducer
<1>4. NewTurn \in Turns
  BY NewReader, LeadsEnds DEF Tells, ReaderOK
<1>5. <<>> \in Seq(Usages) /\ Len(<<>>) = 0
  BY EmptySeq
<1>6. StreamTyped
  BY <1>1, <1>4, <1>5, BlankProper, NewProviderOK DEF StreamTyped
<1> QED BY <1>2, <1>3, <1>6 DEF IInv

-----------------------------------------------------------------------------
(* The steps                                                               *)

\* A reader that is still there is in step.
LEMMA StillInStep ==
  ASSUME IInv, phase # "failed" \/ conv.out = <<>>
  PROVE  /\ SentOK(sent) /\ InStep(dialect, turn, resp, conv, sent, phase)
         /\ JudgedAtEnd(turn, resp)
BY DEF IInv, Abandoned, StreamTyped

LEMMA SendsPreserves ==
  ASSUME IInv, ProviderSends
  PROVE  IInv'
<1>1. Reading /\ Stays
  BY ProviderSendsStays
<1>2. phase = "reading" /\ phase' = "reading"
  BY <1>1 DEF Reading, Stays
<1>3. /\ SentOK(sent) /\ InStep(dialect, turn, resp, conv, sent, phase)
      /\ JudgedAtEnd(turn, resp)
  BY <1>2, StillInStep
<1>4. Known
  BY <1>2, <1>3 DEF Known
<1>5. SentOK(sent') /\ InStep(dialect, turn, resp, conv', sent', "reading")
  BY <1>4, ProviderSendsTaken DEF Taken
<1>6. /\ dialect' = dialect /\ turn' = turn /\ resp' = resp /\ event' = event
      /\ recorded' = recorded
  BY <1>1 DEF Stays
<1>7. InStep(dialect', turn', resp', conv', sent', phase') /\ JudgedAtEnd(turn', resp')
  BY <1>2, <1>3, <1>5, <1>6
<1>8. StreamTyped'
  BY <1>2, <1>5, <1>6 DEF IInv, StreamTyped
<1> QED BY Zenon, <1>7, <1>8 DEF IInv

LEMMA EndsPreserves ==
  ASSUME IInv, UpstreamEnds
  PROVE  IInv'
<1>1. /\ phase = "reading" /\ phase' = "drained" /\ Reading
      /\ sent.reason # "" \/ "eof" \in Quirks
      /\ dialect' = dialect /\ turn' = turn /\ resp' = resp /\ event' = event
      /\ sent' = sent /\ recorded' = recorded
  BY DEF UpstreamEnds, Reading, Complete
<1>2. /\ SentOK(sent) /\ InStep(dialect, turn, resp, conv, sent, phase)
      /\ JudgedAtEnd(turn, resp)
  BY <1>1, StillInStep
<1>3. Known
  BY <1>1, <1>2 DEF Known
<1>4. InStep(dialect, turn, resp, conv', sent, "drained")
  BY <1>1, <1>3, EndsInStep
<1>5. InStep(dialect', turn', resp', conv', sent', phase') /\ JudgedAtEnd(turn', resp')
  BY <1>1, <1>2, <1>4
<1>6. StreamTyped'
  BY <1>1 DEF IInv, StreamTyped, Complete
<1> QED BY Zenon, <1>5, <1>6 DEF IInv

LEMMA DeliverPreserves ==
  ASSUME IInv, Deliver
  PROVE  IInv' /\ Legal(turn, event') /\ turn' = After(turn, event') /\ count' = count + 1
<1>1. /\ phase \in {"reading", "drained"} /\ phase' = phase /\ conv.out # <<>>
      /\ event' = Head(conv.out) /\ resp' = Reduce(resp, event') /\ turn' = After(turn, event')
      /\ conv' = Yielded(conv) /\ count' = count + 1
      /\ dialect' = dialect /\ sent' = sent /\ recorded' = recorded
  BY DEF Deliver, Yielding, Yielded
<1>2. /\ SentOK(sent) /\ InStep(dialect, turn, resp, conv, sent, phase)
      /\ JudgedAtEnd(turn, resp)
  BY <1>1, StillInStep
<1> DEFINE e == event'
<1>3. e = Head(conv.out)
  BY <1>1
<1> HIDE DEF e
<1>4. /\ e \in Proper /\ Legal(turn, e)
      /\ InStep(dialect, After(turn, e), Reduce(resp, e), Yielded(conv), sent, phase)
      /\ JudgedAtEnd(After(turn, e), Reduce(resp, e))
      /\ ReaderOK(After(turn, e), Reduce(resp, e))
  BY Zenon, <1>1, <1>2, <1>3, DeliversMore
<1>5. /\ InStep(dialect', turn', resp', conv', sent', phase') /\ JudgedAtEnd(turn', resp')
      /\ event' \in Proper /\ turn' \in Turns /\ Legal(turn, event')
  BY <1>1, <1>4 DEF e, ReaderOK
<1>6. StreamTyped'
  BY <1>1, <1>5 DEF IInv, StreamTyped, Complete
<1> QED BY Zenon, <1>1, <1>5, <1>6 DEF IInv

LEMMA SendFailsPreserves ==
  ASSUME IInv, SendFails
  PROVE  IInv'
<1>1. /\ phase \in {"reading", "drained"} /\ phase' = "failed" /\ conv.out # <<>>
      /\ resp' = Reduce(resp, Head(conv.out)) /\ conv' = conv
      /\ dialect' = dialect /\ sent' = sent /\ recorded' = recorded
      /\ turn' = turn /\ event' = event
  BY DEF SendFails, Yielding
<1>2. /\ SentOK(sent) /\ InStep(dialect, turn, resp, conv, sent, phase)
      /\ JudgedAtEnd(turn, resp)
  BY <1>1, StillInStep
<1> DEFINE e == Head(conv.out)
<1>3. /\ ReaderOK(After(turn, e), Reduce(resp, e))
      /\ "late_stop" \notin Quirks => Whole(Reduce(resp, e), sent)
  BY Zenon, <1>1, <1>2, DeliversMore
<1>4. /\ \E t : ReaderOK(t, resp')
      /\ "late_stop" \notin Quirks => Whole(resp', sent')
  BY <1>1, <1>3
<1>5. Abandoned'
  BY <1>1, <1>4 DEF Abandoned
<1>6. StreamTyped'
  BY <1>1 DEF IInv, StreamTyped
<1> QED BY Zenon, <1>5, <1>6 DEF IInv

\* The stream is left: by an error, by a cancellation, or because it is over.
LEMMA LeavingPreserves ==
  ASSUME IInv, UpstreamFails \/ Canceled \/ Return
  PROVE  IInv'
<1>1. /\ dialect' = dialect /\ sent' = sent /\ conv' = conv /\ resp' = resp
      /\ turn' = turn /\ event' = event
      /\ phase \in {"reading", "drained"}
      /\ \/ phase' = "failed" /\ recorded' = recorded
         \/ phase' = "canceled" /\ recorded' = Append(recorded, resp.usage)
         \/ /\ phase = "drained" /\ phase' = "ended" /\ conv.out = <<>>
            /\ recorded' = Append(recorded, resp.usage)
  BY DEF UpstreamFails, Canceled, Return, Yielding
<1>2. /\ SentOK(sent) /\ InStep(dialect, turn, resp, conv, sent, phase)
      /\ JudgedAtEnd(turn, resp)
  BY <1>1, StillInStep
<1>3. InStep(dialect, turn, resp, conv, sent, phase')
  BY Zenon, <1>1, <1>2, PhaseMoves
<1>4. InStep(dialect', turn', resp', conv', sent', phase') /\ JudgedAtEnd(turn', resp')
  BY <1>1, <1>2, <1>3
<1>5. recorded = <<>>
  BY <1>1 DEF IInv, StreamTyped
<1>6. resp.usage \in Usages
  BY <1>2, InStepBrings, BringsReader DEF ReaderOK, Replies
<1>7. /\ recorded' = <<>> \/ recorded' = <<resp.usage>>
      /\ phase' # "failed" => recorded' = <<resp.usage>>
  BY <1>1, <1>5
<1>8. recorded' \in Seq(Usages) /\ Len(recorded') <= 1
  <2>1. CASE recorded' = <<>>
    BY <2>1, EmptySeq
  <2>2. CASE recorded' = <<resp.usage>>
    BY <1>6, <2>2
  <2> QED BY <1>7, <2>1, <2>2
<1>9. StreamTyped'
  BY <1>1, <1>7, <1>8 DEF IInv, StreamTyped, Complete
<1> QED BY Zenon, <1>4, <1>9 DEF IInv

\* Every step keeps the invariant, and what it lets the client see is legal.
LEMMA NextIInv ==
  ASSUME IInv, [StreamNext]_vars
  PROVE  IInv' /\ [Next]_<<turn, event, count>>
<1>1. CASE ProviderSends
  <2>1. UNCHANGED <<turn, event, count>>
    BY <1>1, ProviderSendsStays DEF Stays
  <2> QED BY <1>1, <2>1, SendsPreserves
<1>2. CASE UpstreamEnds
  BY <1>2, EndsPreserves DEF UpstreamEnds
<1>3. CASE Deliver
  BY <1>3, DeliverPreserves DEF Next
<1>4. CASE SendFails
  BY <1>4, SendFailsPreserves DEF SendFails
<1>5. CASE UpstreamFails \/ Canceled \/ Return
  BY <1>5, LeavingPreserves DEF UpstreamFails, Canceled, Return
<1>6. CASE UNCHANGED vars
  <2>1. /\ UNCHANGED <<turn, event, count>>
        /\ dialect' = dialect /\ sent' = sent /\ conv' = conv /\ resp' = resp
        /\ phase' = phase /\ recorded' = recorded /\ turn' = turn /\ event' = event
    BY <1>6 DEF vars
  <2> QED BY <2>1 DEF IInv, StreamTyped, Abandoned, Complete
<1> QED BY <1>1, <1>2, <1>3, <1>4, <1>5, <1>6 DEF StreamNext, ProviderSends

-----------------------------------------------------------------------------
(* The theorems                                                            *)

\* In every state of a streamed turn, whatever the dialect, the quirks of the
\* provider and the point where the stream is cut short, the events that wait
\* bring the reader to what the provider has sent.
THEOREM StreamInvariant == StreamSpec => []IInv
BY InitIInv, NextIInv, PTL DEF StreamSpec

\* The invariant says of each kind of state what the properties need.
LEMMA IInvTyped == IInv => TypeOK
<1> SUFFICES ASSUME IInv PROVE TypeOK
  OBVIOUS
<1>1. StreamTyped /\ \E t : ReaderOK(t, resp)
  BY InStepBrings, BringsReader DEF IInv, Abandoned, StreamTyped
<1>2. PICK t : ReaderOK(t, resp)
  BY <1>1
<1>3. /\ resp.status \in Statuses
      /\ resp.contents \in Seq(ContentSet)
      /\ DOMAIN resp.contents = 1..Len(resp.contents)
  BY <1>2 DEF ReaderOK, Replies
<1>4. Range(resp.blocks) = DOMAIN resp.contents
  BY <1>2, <1>3 DEF ReaderOK, Range
<1>5. event.kind \in TextKinds \union DeltaKinds \union {"", "opaque"}
  BY <1>1 DEF StreamTyped, Proper, EventSet, EventKinds, ContentKinds, DeltaKinds
<1> QED BY <1>1, <1>3, <1>4, <1>5 DEF StreamTyped, TypeOK, Usages

LEMMA IInvIntact == IInv => MessageIntact
<1> SUFFICES ASSUME IInv, conv.out = <<>>, ~Broken PROVE resp.contents = sent.contents
  BY DEF MessageIntact
<1>1. SentOK(sent) /\ InStep(dialect, turn, resp, conv, sent, phase)
  BY StillInStep
<1>2. Brings(dialect, turn, resp, conv, sent, phase)
  BY <1>1, InStepBrings
<1>3. Agrees(dialect, turn, resp, conv, sent, phase)
  BY Zenon, <1>2, BringsAll
<1> QED BY <1>3 DEF Agrees, Broken

\* What holds of a stream that has ended.
LEMMA IInvEnded ==
  ASSUME IInv, phase = "ended"
  PROVE  /\ recorded = <<resp.usage>>
         /\ Complete \/ "eof" \in Quirks
         /\ "bare_stop" \notin Quirks =>
              (Complete => resp.usage = sent.usage /\ turn.turn = "stopped")
         /\ dialect \in {"openai_chat", "openai_responses"} /\ sent.began =>
              turn.turn = "stopped" /\ (Complete \/ resp.status \in {"unspecified", "failed"})
<1>1. conv.out = <<>> /\ recorded = <<resp.usage>> /\ (Complete \/ "eof" \in Quirks)
  BY DEF IInv, StreamTyped
<1>2. SentOK(sent) /\ InStep(dialect, turn, resp, conv, sent, phase)
  BY <1>1, StillInStep
<1>3. Agrees(dialect, turn, resp, conv, sent, phase)
  <2>1. Brings(dialect, turn, resp, conv, sent, phase)
    BY <1>2, InStepBrings
  <2> QED BY Zenon, <1>1, <2>1, BringsAll
<1> QED BY <1>1, <1>3 DEF Agrees, Complete

\* The types of the client, the reader and the events; every block the reader
\* knows is one content, and every content is some block's.
THEOREM StreamTypeCorrect == StreamSpec => []TypeOK
BY StreamInvariant, IInvTyped, PTL

\* Whatever the provider sends and whenever the stream is cut short, the chat
\* events follow the protocol of chat.proto: the streamed turn implements the
\* abstract stream of events.
THEOREM StreamFollowsProtocol == StreamSpec => FollowsProtocol
<1>1. StreamInit => Init
  BY DEF StreamInit
<1> QED BY <1>1, StreamInvariant, NextIInv, PTL DEF StreamSpec, FollowsProtocol, Spec

\* Once the events are delivered, the reader has every content of the provider,
\* in its place and with every fragment once.
THEOREM StreamKeepsMessage == StreamSpec => []MessageIntact
BY StreamInvariant, IInvIntact, PTL

\* The usage that is recorded of a whole turn is the provider's last report,
\* if Google's responses all have a content.
THEOREM StreamAccountsUsage ==
  ASSUME "bare_stop" \notin Quirks
  PROVE  StreamSpec => []UsageAccounted
<1>1. IInv => UsageAccounted
  <2> SUFFICES ASSUME IInv, phase = "ended", Complete PROVE recorded = <<sent.usage>>
    BY DEF UsageAccounted
  <2> QED BY IInvEnded
<1> QED BY <1>1, StreamInvariant, PTL

\* A turn is reported completed only when all of it arrived, if Google does not
\* finish with "stop" in a response after the one with the function call.
THEOREM StreamCompletesWhole ==
  ASSUME "late_stop" \notin Quirks
  PROVE  StreamSpec => []CompletedMeansComplete
<1>1. IInv => Whole(resp, sent)
  <2> SUFFICES ASSUME IInv PROVE Whole(resp, sent)
    OBVIOUS
  <2>1. CASE InStep(dialect, turn, resp, conv, sent, phase) /\ JudgedAtEnd(turn, resp)
    <3>1. SentOK(sent)
      BY DEF IInv, StreamTyped
    <3> QED BY Zenon, <2>1, <3>1, InStepBrings, WholeReply
  <2>2. CASE Abandoned
    BY <2>2 DEF Abandoned
  <2> QED BY <2>1, <2>2 DEF IInv
<1>2. IInv => CompletedMeansComplete
  BY <1>1 DEF Whole, Completed, CompletedMeansComplete
<1> QED BY <1>2, StreamInvariant, PTL

\* The OpenAI clients terminate a turn that was cut short, and do not report
\* it completed.
THEOREM StreamReportsTruncation == StreamSpec => []TruncationReported
<1>1. IInv => TruncationReported
  BY IInvEnded DEF TruncationReported
<1> QED BY <1>1, StreamInvariant, PTL

\* A response without a content is the only way that a turn is left without
\* its end when the provider ends it.
THEOREM StreamEndsTurn ==
  ASSUME "bare_stop" \notin Quirks, "eof" \notin Quirks
  PROVE  StreamSpec => []EveryTurnEnds
<1>1. IInv => EveryTurnEnds
  BY IInvEnded DEF EveryTurnEnds
<1> QED BY <1>1, StreamInvariant, PTL

=============================================================================
