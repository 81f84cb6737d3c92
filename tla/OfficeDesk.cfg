SPECIFICATION DeskSpec
CONSTANTS
  None = None
  Tabs = {"t1", "t2"}
  Requests = {"r1", "r2"}
  TabOf <- TabOfRequest
  AccessLife = 1
  RefreshLife = 3
  Seconds = 8
  MaxLogins = 2
  MaxLost = 1
  SoleTab = "t1"
  SoleRequest = "r1"
  FewSeconds = 3
  FirstYear = 2023
  LastYear = 2025
  FirstWeekday = 6
  Edges = {1, 31, 59, 60, 242, 365, 366, 425, 426, 456, 517, 731, 732}
  Books <- SmallBooks
  RuleStart = 1
  SavedRules <- ShortRules
  Watched = {"c1"}
  WatchedDays = 17
  WatchedRecords = 2
  WatchedFrom = {0, 1}
  WatchedStages = {"new", "talking", "unknown", None}
  Queued = {"c1", "c2"}
  QueuedDays = 5
  QueuedRecords = 1
  QueuedFrom = {1}
  QueuedStages = {"new", "talking"}
  Products = {"p1", "p2"}
  Skus = {"s1", "s2"}
  ScriptUrl = "script"
  UserUrls = {"u"}
  CatalogueSkus = {"s1"}
  ImageSkus = {"s1"}
  MaxImages = 2
  Deals = {"d1"}
  Categories = {"k1", "k2"}
  LineSkus = {"s2"}
  Words = {"pink", "brown", "tower"}
  Titles <- TowerTitles
  CatalogueIds = {1, 2, 3}
  MaxTerms = 2
  MaxWidth = 2
  PageRows = 2
  MaxQuery = 3
  Emails = {"ann", "bob"}
  Phones = {"p"}
  Names = {"n"}
  AcquiredDates = {0, 1}
  FirstSheets <- ThreeRows
  SameSheets <- TwoRows
  GrowingSheets <- TwoOrThree
  KnownCustomers <- SmallCrm
  MaxImports = 2
  Desks = {"two tabs", "one tab", "periods", "ledger", "sales", "wins", "quoted", "joined", "cadence", "queue", "images", "lines", "search", "first import", "import again", "appended"}
CHECK_DEADLOCK FALSE
INVARIANTS StoredIsLive SearchAnswers
PROPERTIES SessionsLast ReportsCountOnce FiguresAgree RemindersHold CatalogueHolds OnePersonPerCustomer
