---------------------------- MODULE MCDealOrders ----------------------------
(* Instances of DealOrders for TLC.                                           *)
EXTENDS DealOrdersRefinement, TLC

NoAsk == [deal |-> Absent, sales |-> Absent, stage |-> Absent]
AskDeal(d) == [NoAsk EXCEPT !.deal = d]
AskSales(s) == [NoAsk EXCEPT !.sales = s]
AskLegacy(l) == [NoAsk EXCEPT !.stage = l]

(* Payloads for the runs about orders: win a deal, or win it and take it back.*)
WinOnly == {AskDeal("Won")}
WinOrReopen == {AskDeal("Won"), AskDeal("Quoted")}

(* The same through the sales column and the legacy one, which losing uses.   *)
WinReopenOrLose == {AskDeal("Won"), AskSales("RequirementConfirmed"), AskLegacy("Lost")}

(* Payloads for the runs about stages: each of the three fields, the two sales*)
(* stages that share a deal stage, and both sides of Quoted.                  *)
AcrossThePipeline ==
  {AskDeal("Contacted"), AskSales("RequirementConfirmed"), AskDeal("Negotiating"),
   AskDeal("Won"), AskLegacy("Lost")}

(* In the run with two deals people enter orders by hand when there is only   *)
(* one quotation, and take its number; wins and backfills use both.           *)
HandOrdersOnOneQuotation ==
  \A r \in Requests : job[r].kind = "order" => \A q \in Quotes \ {job[r].no} : quoteState[q] = "unborn"

Symmetry == Permutations(Requests) \cup Permutations(Opps) \cup Permutations(Quotes)
=============================================================================
