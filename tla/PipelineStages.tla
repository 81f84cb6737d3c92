--------------------------- MODULE PipelineStages ---------------------------
(* The three persisted representations of an opportunity's place in the sales *)
(* pipeline: the V3 enum `stage`, the V7 column `sales_stage` and the V9      *)
(* column `deal_stage`, and the maps opportunity_service.py uses to fill the  *)
(* other two from whichever one a request names.  Stage names are the enum    *)
(* members' names without their blanks.                                       *)
EXTENDS Integers

LegacyStages == {"Lead", "Qualified", "Proposal", "Negotiation", "Won", "Lost"}

SalesStages == {"NewLead", "Contacted", "RequirementConfirmed",
                "QuotationSent", "Negotiation", "Won", "Lost"}

DealStages == {"NewInquiry", "Contacted", "Quoted", "Negotiating", "Won", "Lost"}

SalesToLegacy ==
  [NewLead |-> "Lead", Contacted |-> "Qualified",
   RequirementConfirmed |-> "Qualified", QuotationSent |-> "Proposal",
   Negotiation |-> "Negotiation", Won |-> "Won", Lost |-> "Lost"]

LegacyToSales ==
  [Lead |-> "NewLead", Qualified |-> "RequirementConfirmed",
   Proposal |-> "QuotationSent", Negotiation |-> "Negotiation",
   Won |-> "Won", Lost |-> "Lost"]

DealToSales ==
  [NewInquiry |-> "NewLead", Contacted |-> "Contacted",
   Quoted |-> "QuotationSent", Negotiating |-> "Negotiation",
   Won |-> "Won", Lost |-> "Lost"]

SalesToDeal ==
  [NewLead |-> "NewInquiry", Contacted |-> "Contacted",
   RequirementConfirmed |-> "Contacted", QuotationSent |-> "Quoted",
   Negotiation |-> "Negotiating", Won |-> "Won", Lost |-> "Lost"]

(* The three columns of one opportunities row.                                *)
Triples == [stage : LegacyStages, sales : SalesStages, deal : DealStages]

(* The triple the code writes for a sales stage: the other two columns follow *)
(* from it by the maps.  A triple is coherent when it is one of these.        *)
OfSales(s) == [stage |-> SalesToLegacy[s], sales |-> s, deal |-> SalesToDeal[s]]

Coherent(t) == t = OfSales(t.sales)

(* What a request may ask for: any of the three fields, each possibly absent  *)
(* (unset or null, which the code treats alike).                              *)
Absent == "Absent"

Asks == [deal  : DealStages \cup {Absent},
         sales : SalesStages \cup {Absent},
         stage : LegacyStages \cup {Absent}]

NamesAStage(ask) == ask.deal # Absent \/ ask.sales # Absent \/ ask.stage # Absent

(* The newest field a request names decides; a create that names none starts  *)
(* at New Lead.  _prepare_create_data and update_opportunity share the rule.  *)
Resolve(ask) ==
  OfSales(IF ask.deal # Absent THEN DealToSales[ask.deal]
          ELSE IF ask.sales # Absent THEN ask.sales
          ELSE IF ask.stage # Absent THEN LegacyToSales[ask.stage]
          ELSE "NewLead")

(* Any of the three columns makes an opportunity Won, or closed.              *)
IsWon(t) == t.stage = "Won" \/ t.sales = "Won" \/ t.deal = "Won"

IsClosed(t) == \/ t.stage \in {"Won", "Lost"}
               \/ t.sales \in {"Won", "Lost"}
               \/ t.deal \in {"Won", "Lost"}

(* update_opportunity creates an order exactly on this transition.            *)
EntersWon(read, target) == ~IsWon(read) /\ target.deal = "Won"

(* The order of the pipeline that _advance_reused_opportunity_to_quoted uses.  *)
DealRank ==
  [NewInquiry |-> 0, Contacted |-> 1, Quoted |-> 2, Negotiating |-> 3,
   Won |-> 4, Lost |-> 4]

(* What linking a quotation makes of the triple it read: early stages advance *)
(* to Quoted, later ones stay.  (Quoted alone would take those back.)         *)
Quoted(read) == OfSales("QuotationSent")

Advanced(read) == IF DealRank[read.deal] >= DealRank["Quoted"] THEN read ELSE Quoted(read)

(* The ORM's UPDATE names only the columns whose new value differs from the   *)
(* value the request loaded; the others keep whatever the row holds by then.  *)
LaterColumns(row, read, target) ==
  [stage |-> row.stage,
   sales |-> IF target.sales # read.sales THEN target.sales ELSE row.sales,
   deal  |-> IF target.deal  # read.deal  THEN target.deal  ELSE row.deal]

Written(row, read, target) ==
  [LaterColumns(row, read, target) EXCEPT
     !.stage = IF target.stage # read.stage THEN target.stage ELSE @]

(* The legacy and the deal column carry the same information: this is the     *)
(* legacy value that goes with a deal value.                                  *)
LegacyOfDeal ==
  [NewInquiry |-> "Lead", Contacted |-> "Qualified", Quoted |-> "Proposal",
   Negotiating |-> "Negotiation", Won |-> "Won", Lost |-> "Lost"]

Matched(t) == t.stage = LegacyOfDeal[t.deal]
=============================================================================
