SPECIFICATION DeskSpec
CONSTANTS
  None = None
  Quotes = {q1, q2, q3}
  Sessions = {s1, s2}
  Only = q1
  Alone = s1
  Kinds = {"create", "update", "createVersion", "generatePdf", "markSent", "delete"}
  MaxVersion = 3
  Deals = {d1, d2}
  FewDeals = {d1}
  Days = {1, 2}
  Scores = {49, 50, 80}
  FewScores = {49, 80}
  Stages = {"Lead", "Quotation", "Won"}
  FewStages = {"Lead", "Won"}
  Plain = {"acme", "ACME", "bolt"}
  PlainLower <- CompanyLower
  MaxEnquirers = 2
  Names = {"vip", "VIP", "oem"}
  LowerCase <- TagLower
  MaxTags = 3
  Tagged = {"c1"}
  MaxSave = 3
  Desks = {"numbers", "versions", "one by one", "visits", "visits together", "profiles", "shared", "inquiries", "inquiries together", "tags", "tags together", "categories"}
SYMMETRY DeskSymmetry
CHECK_DEADLOCK FALSE
INVARIANTS NumberAboveAll VersionsContiguous SummaryOfRecords NamesDiffer
PROPERTIES QuotesOneByOne CustomersOnRecord DeletionsTakeNoMore NoTwinIntake
