SPECIFICATION DeskSpec
CONSTANTS
  None = None
  Null = Null
  Mails = {m1, m2, m3}
  NoId = {m3}
  Tracked = {m3}
  Senders = {"cron"}
  Boxes <- InboxAndSent
  Runners = {r1, r2}
  Window = 1
  Sending = TRUE
  MaxUid = 3
  MaxGen = 2
  MaxFaults = 1
  Clients = {c1, c2, c3}
  Received = {"letter"}
  Calls = {"call"}
  Addressed = {"ann"}
  Users = {"boss", "sam"}
  Sales = {"sam"}
  Folders = {1, 2}
  Desks = {"two boxes", "one box", "sent", "outbox", "outbox in order", "views", "store", "store in order", "store lies"}
SYMMETRY DeskSymmetry
CHECK_DEADLOCK FALSE
INVARIANTS FiledOnce CursorIsHonest SentCopyIsNotFiled OutboxIsTrue ViewsAgree AttachmentsKept
PROPERTIES ImplementsArchive SentForGood
