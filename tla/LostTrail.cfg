SPECIFICATION Spec
CONSTANTS
  None = None
  Opps = {o1}
  Quotes = {q1}
  Requests = {r1, r2}
  Numbers = {q1}
  Kinds = {"createOpportunity", "update", "createQuotation", "deleteOpportunity", "backfill"}
  Asked <- WinOnly
SYMMETRY Symmetry
PROPERTIES DeletionKeepsTheTrail
