----------------------------- MODULE EventStream -----------------------------
(***************************************************************************)
(* What a stream of chat events promises to whoever reads it               *)
(* (api/neurouter/v1/chat.proto, message ChatEvent): a turn is opened once *)
(* and terminated at most once, contents come in index order, a delta      *)
(* belongs to an open block of its kind, and a terminated turn leaves no   *)
(* block open.  Several blocks may be open at a time.                      *)
(***************************************************************************)
EXTENDS ChatEvents

\* A turn as its events so far describe it.
\* next: no content below this index may come any more; blocks: those open
NewTurn == [turn |-> "new", next |-> 0, blocks |-> {}]

Turns == [turn : {"new", "open", "stopped"}, next : Nat,
          blocks : SUBSET [index : Nat, kind : TextKinds \union {"tool"}]]

\* A text delta belongs to a text, a tool input to a tool call; any block may
\* be signed.
FitsKind(delta, kind) ==
  \/ delta = "signature"
  \/ delta = "text" /\ kind \in TextKinds
  \/ delta = "tool" /\ kind = "tool"

Begins(t, e) == t.turn = "new" /\ e.type = "message_start"

OpensContent(t, e) ==
  /\ e.type \in {"content_start", "content_snapshot"}
  /\ e.index >= t.next

ExtendsBlock(t, e) ==
  /\ e.type = "content_delta"
  /\ \E b \in t.blocks : b.index = e.index /\ FitsKind(e.kind, b.kind)

ClosesBlock(t, e) ==
  /\ e.type = "content_stop"
  /\ \E b \in t.blocks : b.index = e.index

Ends(t, e) == e.type = "message_stop" /\ t.blocks = {}

\* Whether the protocol lets e come next.
Legal(t, e) ==
  \/ Begins(t, e)
  \/ /\ t.turn = "open"
     /\ \/ OpensContent(t, e) \/ ExtendsBlock(t, e) \/ ClosesBlock(t, e)
        \/ Ends(t, e) \/ e.type = "usage_only"

\* The turn after e, legal or not.
After(t, e) ==
  CASE e.type = "message_start"    -> [t EXCEPT !.turn = "open"]
    [] e.type = "message_stop"     -> [t EXCEPT !.turn = "stopped"]
    [] e.type = "content_snapshot" -> [t EXCEPT !.next = e.index + 1]
    [] e.type = "content_start"    ->
         [t EXCEPT !.next = e.index + 1,
                   !.blocks = @ \union {[index |-> e.index, kind |-> e.kind]}]
    [] e.type = "content_stop"     ->
         [t EXCEPT !.blocks = {b \in @ : b.index # e.index}]
    [] OTHER -> t

-----------------------------------------------------------------------------
VARIABLES
  turn,    \* the turn as described so far
  event,   \* the event that came last
  count    \* the number of events

Init == turn = NewTurn /\ event = Blank /\ count = 0

Next ==
  /\ Legal(turn, event')
  /\ turn' = After(turn, event')
  /\ count' = count + 1

Spec == Init /\ [][Next]_<<turn, event, count>>

=============================================================================
