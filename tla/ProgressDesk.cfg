SPECIFICATION DeskSpec
CONSTANTS
  None = None
  Opps = {o1, o2}
  Quotes = {q1, q2}
  Requests = {r1, r2}
  Numbers = {q1, q2}
  Kinds = {"update", "backfill", "link"}
  Asked <- WinOnly
  Desks = {"deals", "mail", "browser"}
CHECK_DEADLOCK FALSE
PROPERTIES RequestsEnd MailHasItsTurn CallsEnd
