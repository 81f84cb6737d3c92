SPECIFICATION Spec
CONSTANTS
  None = None
  Opps = {o1, o2}
  Quotes = {q1, q2}
  Requests = {r1}
  Numbers = {q1, q2}
  Kinds = {"createOpportunity", "update", "order", "backfill", "deleteOpportunity", "link", "deleteQuotation", "renumber", "deleteOrder"}
  Asked <- AcrossThePipeline
INVARIANTS StagesAgree
PROPERTIES DeletionKeepsTheTrail LinkingNeverMovesBack
