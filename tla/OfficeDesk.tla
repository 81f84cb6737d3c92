----------------------------- MODULE OfficeDesk -----------------------------
(* The rest of the office for TLC: sign-in sessions, reminders, the product   *)
(* catalogue and its search, the periods and figures of the reports, and the  *)
(* customer archive import.  As on the other desks, the parts share no        *)
(* variable: Init chooses one, in one of its settings.                        *)
EXTENDS Sessions, TLC

CONSTANTS
  Desks,                      \* the parts and settings to check
  SoleTab, SoleRequest,       \* one of the tabs, one of its requests
  FewSeconds,                 \* a shorter clock, for tabs together
  FirstYear, LastYear, FirstWeekday, Edges,       \* ReportPeriods: its calendar
  Books,                      \* ReportFigures: its records, by setting
  RuleStart, SavedRules,      \* ReminderCadence: its rules, in both settings
  Watched, WatchedDays, WatchedRecords, WatchedFrom, WatchedStages, \* one customer, for long
  Queued, QueuedDays, QueuedRecords, QueuedFrom, QueuedStages,      \* several in one queue
  Products, Skus, ScriptUrl,  \* ProductCatalog, in both settings
  UserUrls, CatalogueSkus, ImageSkus, MaxImages,  \* pictures and scripts
  Deals, Categories, LineSkus,                    \* opportunity lines and categories
  Words, Titles, CatalogueIds, \* CatalogueSearch: words, product names, products
  MaxTerms, MaxWidth, PageRows, MaxQuery,         \* its limits
  Emails, Phones, Names, AcquiredDates,           \* ArchiveImport: what cells may hold
  FirstSheets, SameSheets, GrowingSheets,         \* its workbooks, by setting
  KnownCustomers, MaxImports                      \* customers the CRM has, imports

VARIABLES
  desk,                                            \* the part and setting at work
  date, report,                                    \* ReportPeriods
  day, owner, stage, wins, quote, order, notes, lastNote, next, \* ReportFigures
  today, rules, cadence, history,                  \* ReminderCadence
  sku, image, nextImage, line, parent, edits, answer, \* ProductCatalog
  catalogue, query, found,                         \* CatalogueSearch
  sheet, groups, customers, contacts, work, imports   \* ArchiveImport

periodVars == <<date, report>>
figureVars == <<day, owner, stage, wins, quote, order, notes, lastNote, next>>
reminderVars == <<today, rules, cadence, history>>
productVars == <<sku, image, nextImage, line, parent, edits, answer>>
searchVars == <<catalogue, query, found>>
importVars == <<sheet, groups, customers, contacts, work, imports>>
deskVars == <<vars, periodVars, figureVars, reminderVars, productVars, searchVars, importVars, desk>>
-----------------------------------------------------------------------------
(* Values for the cfg.                                                        *)
TabOfRequest == "r1" :> "t1" @@ "r2" :> "t2"
TowerTitles == {<<"pink", "tower">>, <<"brown", "tower">>, <<"pink">>}
Nothing == [customers |-> {"c1"}, deals |-> {}, quotes |-> {}, goods |-> {}, orders |-> {}, of |-> <<>>,
            versions |-> 1, days |-> 2, amounts |-> {}, money |-> {}, currencies |-> {"USD", "EUR"}, sellers |-> {}]
TwoOfOne == "d1" :> "c1" @@ "d2" :> "c1"
SmallBooks == [
  ledger |-> [Nothing EXCEPT !.customers = {"c1", "c2"}, !.orders = {1, 2}, !.amounts = {2}, !.money = {0, 2},
                             !.currencies = {"USD"}],
  sales |-> [Nothing EXCEPT !.customers = {"c1", "c2"}, !.deals = {"d1", "d2"}, !.of = TwoOfOne,
                            !.orders = {1, 2}, !.amounts = {3}],
  wins |-> [Nothing EXCEPT !.deals = {"d1", "d2"}, !.of = TwoOfOne, !.days = 3, !.sellers = {"s1", "s2"}],
  quoted |-> [Nothing EXCEPT !.quotes = {"q1", "q2"}, !.of = "q1" :> "c1" @@ "q2" :> "c1", !.goods = {"g1", "g2"},
                             !.versions = 2, !.days = 1],
  joined |-> [Nothing EXCEPT !.customers = {"c1", "c2"}, !.deals = {"d1", "d2"}, !.quotes = {"q1", "q2"},
                             !.of = TwoOfOne @@ "q1" :> "c1" @@ "q2" :> "c2", !.goods = {"g1"}, !.orders = {1},
                             !.amounts = {2}, !.money = {2}, !.days = 1, !.currencies = {"USD"}]]
ShortRules ==
  {[start |-> 1, first |-> 1, unanswered |-> 2, talking |-> 1, quoted |-> 2, coldAfter |-> 4, coldEvery |-> 3]}

(* Workbooks of two or three rows over few addresses, and a CRM with up to    *)
(* two customers who may share a phone.                                       *)
Row(e, p, n, a, b) == [email |-> e, phone |-> p, name |-> n, acquired |-> a, bad |-> b]
Plain == {Row(e, p, n, a, FALSE) : e \in Emails \cup {None}, p \in Phones \cup {None}, n \in Names \cup {None}, a \in AcquiredDates}
Refusable == {Row(e, None, n, 0, TRUE) : e \in Emails \cup {None}, n \in Names \cup {None}}
Unnamed == {r \in Plain : r.name = None}
ThreeRows == [1..3 -> {r \in Plain : r.acquired = 0 \/ r.phone = None} \cup Refusable]
TwoRows == [1..2 -> Plain]
TwoOrThree == [1..2 -> Unnamed] \cup [1..3 -> Unnamed]
Known(e) == [email |-> e, phone |-> "p", name |-> "n"]
SmallCrm == {<<>>} \cup {<<a, b>> : a, b \in {Known("ann"), Known("bob"), Known(None)}}
-----------------------------------------------------------------------------
(* Tabs of one browser, each with its requests; one tab alone, for longer.    *)
TwoTabs == INSTANCE Sessions WITH Seconds <- FewSeconds
OneTab == INSTANCE Sessions WITH Tabs <- {SoleTab}, Requests <- {SoleRequest}, MaxLogins <- 1

(* The reports' calendar: for TLC three years with a leap year between, and    *)
(* custom ranges between beginnings and ends of months.                       *)
Periods == INSTANCE ReportPeriods WITH today <- date

(* The figures of orders and profit, of sales, of won deals, of quotations,   *)
(* and of a customer with two opportunities.                                  *)
Figures(setting) == INSTANCE ReportFigures WITH
  Customers <- Books[setting].customers, Deals <- Books[setting].deals, Quotes <- Books[setting].quotes,
  CustomerOf <- Books[setting].of, Goods <- Books[setting].goods, Orders <- Books[setting].orders, MaxNotes <- 0,
  MaxVersions <- Books[setting].versions, Days <- Books[setting].days, Amounts <- Books[setting].amounts,
  Money <- Books[setting].money, Currencies <- Books[setting].currencies, Sellers <- Books[setting].sellers
FigureSettings == {"ledger", "sales", "wins", "quoted", "joined"}

(* The reminder of a customer over a long time, or a queue of several.        *)
Reminders(setting) == INSTANCE ReminderCadence WITH
  Customers <- IF setting = "queue" THEN Queued ELSE Watched,
  LastDay <- IF setting = "queue" THEN QueuedDays ELSE WatchedDays,
  MaxRecords <- IF setting = "queue" THEN QueuedRecords ELSE WatchedRecords,
  AcquiredDays <- IF setting = "queue" THEN QueuedFrom ELSE WatchedFrom,
  Stages <- IF setting = "queue" THEN QueuedStages ELSE WatchedStages,
  row <- rules, customer <- cadence, records <- history

(* Images under users and scripts, or opportunity lines and categories.       *)
Gone == "gone"
Shelves(setting) == INSTANCE ProductCatalog WITH
  UserUrls <- IF setting = "images" THEN UserUrls ELSE {},
  CatalogueSkus <- IF setting = "images" THEN CatalogueSkus ELSE {},
  LateSkus <- IF setting = "images" THEN ImageSkus ELSE LineSkus,
  Deals <- IF setting = "images" THEN {} ELSE Deals,
  Categories <- IF setting = "images" THEN {} ELSE Categories,
  MaxImages <- IF setting = "images" THEN MaxImages ELSE 0,
  req <- edits

Search == INSTANCE CatalogueSearch WITH Names <- Titles, Ids <- CatalogueIds, Limit <- PageRows

(* A first import; imports of one workbook into a CRM that may have customers *)
(* already; imports of a workbook that grows.                                 *)
Workbooks(setting) ==
  CASE setting = "first import" -> FirstSheets
    [] setting = "import again" -> SameSheets
    [] OTHER -> GrowingSheets
InCrm(setting) == IF setting = "import again" THEN KnownCustomers ELSE {<<>>}
EditsIn(setting) == IF setting = "appended" THEN "append" ELSE "none"
ImportsIn(setting) == IF setting = "first import" THEN 1 ELSE MaxImports
Imports(setting) == INSTANCE ArchiveImport WITH
  Sheets <- Workbooks(setting), CrmCustomers <- InCrm(setting), Edits <- EditsIn(setting),
  MaxImports <- ImportsIn(setting)
ImportSettings == {"first import", "import again", "appended"}
-----------------------------------------------------------------------------
(* The chosen tab and request are among them, and the base has room for what  *)
(* the settings use of it.                                                    *)
ASSUME BrowserAssumption ==
  /\ SoleTab \in Tabs /\ SoleRequest \in Requests /\ TabOf[SoleRequest] = SoleTab
  /\ MaxLogins >= 1 /\ FewSeconds \in 0..Seconds

ASSUME RemindersAssumption == \A setting \in {"cadence", "queue"} : Reminders(setting)!CadenceAssumption
ASSUME ShelvesAssumption == \A setting \in {"images", "lines"} : Shelves(setting)!CatalogAssumption

ASSUME LookupAssumption == Search!SearchAssumption

ASSUME ReportAssumption == Periods!PeriodAssumption
ASSUME BooksAssumption == \A setting \in FigureSettings : Figures(setting)!FiguresAssumption
ASSUME WorkbookAssumption == \A setting \in ImportSettings : Imports(setting)!ImportAssumption

DeskInit ==
  /\ desk \in Desks
  /\ Init
  /\ Periods!Init
  /\ CASE desk = "sales" -> Figures("sales")!Init
       [] desk = "wins" -> Figures("wins")!Init
       [] desk = "quoted" -> Figures("quoted")!Init
       [] desk = "joined" -> Figures("joined")!Init
       [] OTHER -> Figures("ledger")!Init
  /\ CASE desk = "cadence" -> Reminders("cadence")!Init
       [] desk = "queue" -> Reminders("queue")!Init
       [] OTHER -> today = 0 /\ rules = None /\ cadence = <<>> /\ history = <<>>
  /\ IF desk = "lines" THEN Shelves("lines")!Init ELSE Shelves("images")!Init
  /\ IF desk = "search" THEN Search!Init ELSE catalogue = <<>> /\ query = <<>> /\ found = <<>>
  /\ CASE desk = "first import" -> Imports("first import")!Init
       [] desk = "import again" -> Imports("import again")!Init
       [] desk = "appended" -> Imports("appended")!Init
       [] OTHER -> sheet = <<>> /\ groups = <<>> /\ customers = <<>> /\ contacts = {} /\ work = <<>> /\ imports = 0

SessionStep ==
  /\ \/ desk = "two tabs" /\ TwoTabs!Next
     \/ desk = "one tab" /\ OneTab!Next
  /\ UNCHANGED <<periodVars, figureVars, reminderVars, productVars, searchVars, importVars, desk>>
PeriodStep ==
  /\ desk = "periods" /\ Periods!Next
  /\ UNCHANGED <<vars, figureVars, reminderVars, productVars, searchVars, importVars, desk>>
FigureStep ==
  /\ \/ desk = "ledger" /\ Figures("ledger")!Next
     \/ desk = "sales" /\ Figures("sales")!Next
     \/ desk = "wins" /\ Figures("wins")!Next
     \/ desk = "quoted" /\ Figures("quoted")!Next
     \/ desk = "joined" /\ Figures("joined")!Next
  /\ UNCHANGED <<vars, periodVars, reminderVars, productVars, searchVars, importVars, desk>>
ReminderStep ==
  /\ \/ desk = "cadence" /\ Reminders("cadence")!Next
     \/ desk = "queue" /\ Reminders("queue")!Next
  /\ UNCHANGED <<vars, periodVars, figureVars, productVars, searchVars, importVars, desk>>
ProductStep ==
  /\ \/ desk = "images" /\ Shelves("images")!Next
     \/ desk = "lines" /\ Shelves("lines")!Next
  /\ UNCHANGED <<vars, periodVars, figureVars, reminderVars, searchVars, importVars, desk>>
SearchStep ==
  /\ desk = "search" /\ Search!Next
  /\ UNCHANGED <<vars, periodVars, figureVars, reminderVars, productVars, importVars, desk>>
ImportStep ==
  /\ \/ desk = "first import" /\ Imports("first import")!Next
     \/ desk = "import again" /\ Imports("import again")!Next
     \/ desk = "appended" /\ Imports("appended")!Next
  /\ UNCHANGED <<vars, periodVars, figureVars, reminderVars, productVars, searchVars, desk>>

DeskNext ==
  SessionStep \/ PeriodStep \/ FigureStep \/ ReminderStep \/ ProductStep \/ SearchStep \/ ImportStep

DeskSpec == DeskInit /\ [][DeskNext]_deskVars
-----------------------------------------------------------------------------
(* StoredIsLive of Sessions is checked as it stands, with two tabs at work.   *)

(* Alone, a tab stays signed in until its user leaves, its refresh token      *)
(* expires or is rotated by an answer that is lost, or an error meets its     *)
(* refresh; a token found valid is rotated, but for the hash of a lost pair.  *)
SessionsLast ==
  [](TypeOK) /\ [][desk = "one tab" => OneTab!SignedOutForAReason /\ OneTab!Rotates]_deskVars

(* A tab beside another is not signed out for any other reason either.        *)
SecondTabStays == [][desk = "two tabs" => TwoTabs!SignedOutForAReason]_deskVars

(* No day of a report is lost or counted twice, by buckets, cards or trends,  *)
(* and windows move only forward as days pass.                                *)
ReportsCountOnce ==
  /\ [](desk = "periods" => /\ Periods!TypeOK
                            /\ Periods!BucketsPartition
                            /\ Periods!CardsNested
                            /\ Periods!TwelveMonths
                            /\ Periods!MonthsAddUp)
  /\ [][desk = "periods" => Periods!SlidesOn]_deskVars

(* Pages that compute the same figure agree while no customer in it has two   *)
(* opportunities, parts add up to totals, and the won figures of past days    *)
(* are settled.                                                               *)
FiguresAgree ==
  /\ [](\A setting \in FigureSettings :
         desk = setting => /\ Figures(setting)!TypeOK
                           /\ Figures(setting)!SingleDealPagesAgree
                           /\ Figures(setting)!ProfitSplits
                           /\ Figures(setting)!SalesAreWon
                           /\ Figures(setting)!WinsAddUp
                           /\ Figures(setting)!QuotedProductsAddUp)
  /\ [][\A setting \in FigureSettings : desk = setting => Figures(setting)!WinsStay]_deskVars

(* The analysis page and the profit page agree on every range.                *)
PagesAgree == desk = "joined" => Figures("joined")!ProfitPagesAgree

(* Quoted amounts take each quotation once.                                   *)
AmountsOnce == desk = "joined" => Figures("joined")!QuotedOnce

(* Who is due stays due until followed up, a follow-up silences the reminder, *)
(* and the queue is in order, for saved and for imported customers.           *)
RemindersHold ==
  /\ [](/\ desk = "cadence" => Reminders("cadence")!TypeOK
        /\ desk = "queue" => Reminders("queue")!TypeOK /\ Reminders("queue")!QueueByDate)
  /\ [][desk = "cadence" => Reminders("cadence")!StaysDue /\ Reminders("cadence")!Silences]_deskVars

(* The stored cold flag is refreshed by whatever changes a customer.          *)
FlagFollowsWrites == [][desk = "cadence" => Reminders("cadence")!FlagRefreshed]_deskVars

(* One primary image, the script's picture once, no line without its product, *)
(* and imports that keep what exists, however requests and scripts overlap.   *)
CatalogueHolds ==
  /\ [](/\ desk = "images" => Shelves("images")!TypeOK /\ Shelves("images")!OnePrimary /\ Shelves("images")!ScriptImageOnce
        /\ desk = "lines" => Shelves("lines")!TypeOK /\ Shelves("lines")!LinesExist)
  /\ [][desk = "images" => Shelves("images")!KeepsProducts]_deskVars

(* Pasted SKUs lead, then whole names, and no match is lost.                  *)
SearchAnswers ==
  desk = "search" => Search!TypeOK /\ Search!PastedSkusFirst /\ Search!FullNameFirst /\ Search!TotalIsComplete

(* One customer per person: groups of rows are exact, a first import makes no *)
(* twins, importing again changes nothing, and a row overwrites only the      *)
(* person it shares an identifier with.                                       *)
OnePersonPerCustomer ==
  /\ [](\A setting \in ImportSettings : desk = setting => Imports(setting)!TypeOK /\ Imports(setting)!GroupsAreExact)
  /\ [](desk = "first import" => Imports("first import")!NoTwins)
  /\ [][/\ desk = "import again" => Imports("import again")!NothingNew
        /\ desk = "appended" => Imports("appended")!KeepsPerson]_deskVars
=============================================================================
