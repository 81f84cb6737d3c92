SPECIFICATION Spec
CONSTANTS
  None = None
  Opps = {o1}
  Quotes = {q1, q2}
  Requests = {r1, r2}
  Numbers = {q1, q2}
  Kinds = {"link", "createOpportunity", "update", "order", "backfill", "deleteOpportunity", "deleteOrder", "createQuotation", "deleteQuotation"}
  Asked <- WinReopenOrLose
SYMMETRY Symmetry
INVARIANTS TypeOK OneOrderPerOpportunity OneOrderPerQuotation NoDanglingLinks LegacyFollowsDeal
