SPECIFICATION Spec
CONSTANTS
  None = None
  Opps = {o1, o2}
  Quotes = {q1, q2}
  Requests = {r1, r2}
  Numbers = {q1, q2}
  Kinds = {"update", "order", "backfill", "createOpportunity", "deleteOpportunity", "link"}
  Asked <- WinOrReopen
SYMMETRY Symmetry
INVARIANTS ReservationInv
PROPERTIES WinningLeavesAnOrder ImplementsDealBook
CONSTRAINT HandOrdersOnOneQuotation
