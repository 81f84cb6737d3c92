------------------------------ MODULE DealBook ------------------------------
(* What the order workflow promises, without requests, locks or quotations:   *)
(* a deal is absent, open or won, and its page in the order book holds no     *)
(* order or one.  Winning a deal and having its order is one step.            *)
EXTENDS Integers

CONSTANT Deals

VARIABLES deal,    \* each deal: "absent", "open" or "won"
          booked   \* the number of orders on each deal's page

bookVars == <<deal, booked>>

BookInit ==
  /\ deal \in [Deals -> {"absent", "open", "won"}]
  /\ booked = [d \in Deals |-> 0]

(* A deal enters the book open, or already won with its order still to come.  *)
Enter(d) ==
  /\ deal[d] = "absent"
  /\ \E s \in {"open", "won"} : deal' = [deal EXCEPT ![d] = s]
  /\ UNCHANGED booked

(* The order is made by the win, or was there before.                         *)
Win(d) ==
  /\ deal[d] = "open"
  /\ deal' = [deal EXCEPT ![d] = "won"]
  /\ booked' = [booked EXCEPT ![d] = 1]

Reopen(d) ==
  /\ deal[d] = "won"
  /\ deal' = [deal EXCEPT ![d] = "open"]
  /\ UNCHANGED booked

(* Orders entered by hand (one), or made for past wins (any number at once).  *)
Book(S) ==
  /\ S # {} /\ \A d \in S : deal[d] # "absent" /\ booked[d] = 0
  /\ booked' = [d \in Deals |-> IF d \in S THEN 1 ELSE booked[d]]
  /\ UNCHANGED deal

Remove(d) ==
  /\ deal[d] # "absent"
  /\ deal' = [deal EXCEPT ![d] = "absent"]
  /\ booked' = [booked EXCEPT ![d] = 0]

BookNext ==
  \/ \E d \in Deals : Enter(d) \/ Win(d) \/ Reopen(d) \/ Remove(d)
  \/ \E S \in SUBSET Deals : Book(S)

BookSpec == BookInit /\ [][BookNext]_bookVars
=============================================================================
