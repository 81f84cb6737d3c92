SPECIFICATION Spec
CONSTANTS
  None = None
  Opps = {o1, o2}
  Quotes = {q1}
  Requests = {r1}
  Numbers = {q1}
  Kinds = {"order", "link"}
  Asked <- WinOnly
SYMMETRY Symmetry
INVARIANTS OrderAgreesWithQuotation
