---------------------------- MODULE IdealBucket ----------------------------
(***************************************************************************)
(* What a token bucket promises, as its users think of it: a level that    *)
(* rises by one on every tick up to the burst, is charged once when a      *)
(* reservation is made, and corrected once when it is settled.  There is   *)
(* no last update and no fill; TokenBucket is shown to implement this.     *)
(***************************************************************************)
EXTENDS Integers

CONSTANTS Requests, Burst, Costs, Actuals

VARIABLES
  level,     \* the tokens in the bucket; negative when reserved ahead
  open,      \* the reservations made and not settled
  settled,   \* the reservations settled
  price      \* what each reservation was charged

vars == <<level, open, settled, price>>

Init ==
  /\ level = Burst
  /\ open = {}
  /\ settled = {}
  /\ price = [r \in Requests |-> 0]

Refill ==
  /\ level' = IF level < Burst THEN level + 1 ELSE level
  /\ UNCHANGED <<open, settled, price>>

Reserve(r) ==
  /\ r \notin open \union settled
  /\ \E c \in Costs :
       /\ c <= Burst
       /\ level' = level - c
       /\ price' = [price EXCEPT ![r] = c]
  /\ open' = open \union {r}
  /\ UNCHANGED settled

\* A reservation is settled at what it used: its price, an actual count, or 0.
Settle(r) ==
  /\ r \in open
  /\ \E actual \in Actuals \union {0, price[r]} :
       LET corrected == level + price[r] - actual
       IN  level' = IF corrected < Burst THEN corrected ELSE Burst
  /\ open' = open \ {r}
  /\ settled' = settled \union {r}
  /\ UNCHANGED price

Next == Refill \/ \E r \in Requests : Reserve(r) \/ Settle(r)

Spec == Init /\ [][Next]_vars

=============================================================================
