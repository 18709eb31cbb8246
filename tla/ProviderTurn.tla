---------------------------- MODULE ProviderTurn ----------------------------
(***************************************************************************)
(* A model provider writing a turn (external): what it may send next, and  *)
(* what it means by it.  The converters are checked against the meaning.   *)
(*                                                                         *)
(* A provider numbers the fragments it writes, so no two are alike.        *)
(***************************************************************************)
EXTENDS ChatEvents

CONSTANTS
  Quirks,        \* the irregularities a provider may show
  Reasons,       \* why turns finish
  MaxFragments,  \* the fragments of a turn
  MaxContents    \* the contents of a turn

\* eof:       the response may end, without an error, before the turn does
\* overlap:   Responses output items may be written at the same time
\* late_stop: Google may finish a turn in a response after the function call
\* bare_stop: Google may finish a turn in a response without a content
AllQuirks == {"eof", "overlap", "late_stop", "bare_stop"}

ASSUME ProviderAssumption ==
  /\ Quirks \subseteq AllQuirks
  /\ Reasons \subseteq {"stop", "calls", "length", "filter", "other"}
  /\ MaxFragments \in Nat /\ MaxContents \in Nat

\* contents: the message; written: its fragments; items: the Responses output
\* items; block: Anthropic's open block, if any; reason: why it finished
NewProvider == [began |-> FALSE, contents |-> <<>>, written |-> 0, items |-> <<>>,
                block |-> <<>>, reason |-> "", usage |-> NoUsage]

CanWrite(s) == s.written < MaxFragments
CanAdd(s)   == Len(s.contents) < MaxContents
Fragment(s) == <<s.written + 1>>
Texts(s)    == {<<>>} \union IF CanWrite(s) THEN {Fragment(s)} ELSE {}

Calls(s)    == {k \in DOMAIN s.contents : s.contents[k].kind = "tool"}
NextCall(s) == Cardinality(Calls(s)) + 1

Adds(s, content) ==
  [s EXCEPT !.contents = Append(@, content), !.written = @ + Len(content.text)]

Writes(s, k, text) ==
  [s EXCEPT !.contents[k].text = @ \o text, !.written = @ + Len(text)]

Signs(s, k, text) ==
  [s EXCEPT !.contents[k].signature = @ \o text, !.written = @ + Len(text)]

\* A text goes on with the last content if that is of its kind.
Continues(s, kind) == s.contents # <<>> /\ Last(s.contents).kind = kind
Says(s, kind, text) ==
  IF text = <<>> THEN s
  ELSE IF Continues(s, kind) THEN Writes(s, Len(s.contents), text)
  ELSE Adds(s, Content(kind, NoItem, 0, text))
MaySay(s, kind, text) == text = <<>> \/ Continues(s, kind) \/ CanAdd(s)

\* A turn that calls a tool does not just stop, and calls are no reason
\* without one.
ReasonsOf(s) == Reasons \ IF Calls(s) = {} THEN {"calls"} ELSE {"stop"}

Usage(s) == [in |-> 1, out |-> s.written]

\* The counters of a turn only grow, and a report need not have them all.
Reports(s, u) ==
  [s EXCEPT !.usage = [in  |-> Max({u.in, s.usage.in}),
                       out |-> Max({u.out, s.usage.out})]]

Finishes(s, reason) == [s EXCEPT !.reason = reason]

-----------------------------------------------------------------------------
\* The deltas of tool calls a chunk may carry: a new call, or more of the last.
ToolDeltas(s) ==
  (IF CanAdd(s)
   THEN {[delta |-> [call |-> NextCall(s), id |-> NextCall(s), text |-> x],
          sent  |-> Adds(s, Content("tool", NoItem, NextCall(s), x))] : x \in Texts(s)}
   ELSE {})
  \union
  (IF Continues(s, "tool") /\ CanWrite(s)
   THEN {[delta |-> [call |-> NextCall(s) - 1, id |-> 0, text |-> Fragment(s)],
          sent  |-> Writes(s, Len(s.contents), Fragment(s))]}
   ELSE {})

ToolLists(s) ==
  LET one == {[tools |-> <<d.delta>>, sent |-> d.sent] : d \in ToolDeltas(s)} IN
    {[tools |-> <<>>, sent |-> s]} \union one \union
    UNION {{[tools |-> Append(l.tools, d.delta), sent |-> d.sent]
              : d \in ToolDeltas(l.sent)} : l \in one}

-----------------------------------------------------------------------------
Part(kind, id, text, signature) ==
  [kind |-> kind, id |-> id, text |-> text, signature |-> signature]

\* The parts a response may have: texts and thoughts, and whole calls, each
\* signed or not.
Signed(s, k, part) ==
  {[part |-> [part EXCEPT !.signature = x], sent |-> Signs(s, k, x)] : x \in Texts(s)}

TextParts(s, kind) ==
  IF CanWrite(s) /\ MaySay(s, kind, Fragment(s))
  THEN LET s1 == Says(s, kind, Fragment(s)) IN
         Signed(s1, Len(s1.contents), Part(kind, 0, Fragment(s), <<>>))
  ELSE {}

CallParts(s) ==
  IF CanWrite(s) /\ CanAdd(s)
  THEN LET s1 == Adds(s, Content("tool", NoItem, NextCall(s), Fragment(s))) IN
         Signed(s1, Len(s1.contents), Part("tool", NextCall(s), Fragment(s), <<>>))
  ELSE {}

Parts(s) == TextParts(s, "text") \union TextParts(s, "reasoning") \union CallParts(s)

PartLists(s) ==
  LET one == {[parts |-> <<p.part>>, sent |-> p.sent] : p \in Parts(s)} IN
    {[parts |-> <<>>, sent |-> s]} \union one \union
    UNION {{[parts |-> Append(l.parts, p.part), sent |-> p.sent]
              : p \in Parts(l.sent)} : l \in one}

\* Google finishes with "stop" after calls too.
GoogleReasons(s, parts) ==
  (Reasons \ {"stop", "calls"}) \union
  IF \/ Calls(s) = {} \/ "late_stop" \in Quirks
     \/ \E k \in DOMAIN parts : parts[k].kind = "tool"
  THEN {"stop"} ELSE {}

=============================================================================
