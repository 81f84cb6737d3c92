------------------------ MODULE DealOrdersRefinement ------------------------
(* DealOrders implements DealBook while no order is deleted.                  *)
EXTENDS DealOrders

DealOf(o) == IF ~ LiveOpp(o) THEN "absent" ELSE IF IsWon(stageOf[o]) THEN "won" ELSE "open"

Ledger == INSTANCE DealBook WITH
  Deals <- Opps,
  deal <- [o \in Opps |-> DealOf(o)],
  booked <- [o \in Opps |-> Cardinality({x \in orders : x.opp = o})]

(* Seen from the order book, every committed transaction is one of its steps  *)
(* or none: no deal is won without an order, none ever has two or gets        *)
(* another one, and a transaction that fails at any statement leaves no mark. *)
ImplementsDealBook == Ledger!BookSpec
=============================================================================
