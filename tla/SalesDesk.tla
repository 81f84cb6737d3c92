----------------------------- MODULE SalesDesk ------------------------------
(* The sales side of the CRM for TLC: quotations, follow-up records, customer *)
(* records, Alibaba inquiries and tags.  As on the mail desk, the parts share *)
(* no variable: Init chooses one, in one of its settings, and the others stay *)
(* as they start.                                                             *)
EXTENDS QuotationLifecycle, TLC

CONSTANTS
  Desks,                       \* the parts and settings to check
  Only, Alone,                 \* one of the quotations, one of the sessions
  Deals, FewDeals, Days,       \* FollowupActivity, alone and together
  Scores, FewScores, Stages, FewStages,  \* CustomerRecords, alone and together
  Plain, PlainLower, MaxEnquirers,       \* AlibabaIntake
  Names, LowerCase, MaxTags, Tagged      \* TagCatalogue

VARIABLES
  desk,                                      \* the part and setting at work
  followup, summary, activity, clock, calls, \* FollowupActivity
  customer, scores, moves, contacts, imported, edits, \* CustomerRecords
  enquirer, reached, lastId, inquiries,      \* AlibabaIntake
  tag, links, namings                        \* TagCatalogue

followupVars == <<followup, summary, activity, clock, calls>>
customerVars == <<customer, scores, moves, contacts, imported, edits>>
intakeVars == <<enquirer, reached, lastId, inquiries>>
tagVars == <<tag, links, namings>>
deskVars == <<vars, followupVars, customerVars, intakeVars, tagVars, desk>>

(* The same model values serve one part as quotations and another as requests.*)
Clients == Quotes
Pair == Sessions

(* Values for the cfg: texts that differ in case.                             *)
CompanyLower == [s \in Plain |-> IF s = "ACME" THEN "acme" ELSE s]
TagLower == [s \in Names |-> IF s = "VIP" THEN "vip" ELSE s]
-----------------------------------------------------------------------------
(* Overlapping creations and deletions; overlapping edits of one quotation;   *)
(* everything on two quotations, one request after another.                   *)
Numbers == INSTANCE QuotationLifecycle WITH Kinds <- {"create", "delete"}, MaxSave <- 2
Versions == INSTANCE QuotationLifecycle WITH Quotes <- {Only}, MaxSave <- 1
OneByOne == INSTANCE QuotationLifecycle WITH Quotes <- Quotes \ {Only}, Sessions <- {Alone}, MaxVersion <- 2

(* Requests together, or one after another.                                   *)
Visits(setting) == INSTANCE FollowupActivity WITH
  FollowUps <- Pair, Opps <- IF setting = "together" THEN FewDeals ELSE Deals, Requests <- Clients,
  OneAtATime <- setting # "together",
  customer <- summary, opportunity <- activity, req <- calls

Profiles(setting) == INSTANCE CustomerRecords WITH
  Customers <- Pair, Requests <- Clients,
  Scores <- IF setting = "together" THEN FewScores ELSE Scores,
  Stages <- IF setting = "together" THEN Stages ELSE FewStages,
  OneAtATime <- setting # "together", MayCrash <- setting = "together", req <- edits

Inquiries(setting) == INSTANCE AlibabaIntake WITH
  Requests <- Pair, Spellings <- Plain, SqlLower <- PlainLower, CaseFold <- PlainLower,
  MaxCustomers <- MaxEnquirers, OneAtATime <- setting # "together",
  customer <- enquirer, contacts <- reached, last <- lastId, req <- inquiries

Tags(setting) == INSTANCE TagCatalogue WITH
  Requests <- Clients, Customers <- Tagged, Spellings <- Names, Lower <- LowerCase,
  Categories <- setting = "categories", OneAtATime <- setting # "together", req <- namings
-----------------------------------------------------------------------------
(* The chosen quotation and session are among them, and the base has room for *)
(* what the settings use of it.                                               *)
ASSUME QuotationAssumption ==
  /\ Only \in Quotes /\ Alone \in Sessions
  /\ MaxVersion >= 2 /\ MaxSave >= 2 /\ {"create", "delete"} \subseteq Kinds

ASSUME DeskAssumption ==
  \A setting \in {"together", "in order", "categories"} :
    /\ Visits(setting)!ActivityAssumption
    /\ Profiles(setting)!RecordsAssumption
    /\ Inquiries(setting)!IntakeAssumption
    /\ Tags(setting)!TagAssumption

DeskInit ==
  /\ desk \in Desks
  /\ Init
  /\ IF desk = "visits together" THEN Visits("together")!Init ELSE Visits("in order")!Init
  /\ (desk \notin {"visits", "visits together"} => summary.latest = 0)
  /\ Profiles("in order")!Init
  /\ Inquiries("in order")!Init
  /\ Tags("in order")!Init

QuotationStep ==
  /\ \/ desk = "numbers" /\ Numbers!Next
     \/ desk = "versions" /\ Versions!Next
     \/ desk = "one by one" /\ OneByOne!Next
  /\ UNCHANGED <<followupVars, customerVars, intakeVars, tagVars, desk>>
FollowupStep ==
  /\ \/ desk = "visits" /\ Visits("in order")!Next
     \/ desk = "visits together" /\ Visits("together")!Next
  /\ UNCHANGED <<vars, customerVars, intakeVars, tagVars, desk>>
CustomerStep ==
  /\ \/ desk = "profiles" /\ Profiles("in order")!Next
     \/ desk = "shared" /\ Profiles("together")!Next
  /\ UNCHANGED <<vars, followupVars, intakeVars, tagVars, desk>>
IntakeStep ==
  /\ \/ desk = "inquiries" /\ Inquiries("in order")!Next
     \/ desk = "inquiries together" /\ Inquiries("together")!Next
  /\ UNCHANGED <<vars, followupVars, customerVars, tagVars, desk>>
TagStep ==
  /\ \/ desk = "tags" /\ Tags("in order")!Next
     \/ desk = "tags together" /\ Tags("together")!Next
     \/ desk = "categories" /\ Tags("categories")!Next
  /\ UNCHANGED <<vars, followupVars, customerVars, intakeVars, desk>>

DeskNext == QuotationStep \/ FollowupStep \/ CustomerStep \/ IntakeStep \/ TagStep

DeskSpec == DeskInit /\ [][DeskNext]_deskVars

DeskSymmetry == Permutations(Quotes) \cup Permutations(Sessions)
-----------------------------------------------------------------------------
(* NumberAboveAll and VersionsContiguous of QuotationLifecycle are checked as *)
(* they stand, while requests overlap.                                        *)

(* Requests that do not overlap: what was sent or superseded never changes,   *)
(* no save moves a quotation to another opportunity, totals belong to the     *)
(* lines, and a sent quotation has its PDF and its follow-up task.            *)
QuotesOneByOne ==
  /\ [](TypeOK /\ (desk = "one by one" => TotalsAddUp /\ SentIsDelivered))
  /\ [][desk = "one by one" => SentStays /\ LinkStays]_deskVars

(* After every follow-up request the customer's and the opportunities' columns*)
(* are those of the records that are left, whatever was moved or deleted.     *)
SummaryOfRecords ==
  /\ desk = "visits" => /\ Visits("in order")!TypeOK
                        /\ Visits("in order")!ReminderOfLatest
                        /\ Visits("in order")!ActivityOfLast
                        /\ Visits("in order")!QuoteTaskDone
                        /\ Visits("in order")!LatestCoversHistory
  /\ desk = "visits together" => Visits("together")!TypeOK

(* A score brings its level and the score history ends at the score, whatever *)
(* level clients choose in between; the two stage columns and the stage       *)
(* history agree even when requests and imports overlap and instances end.    *)
CustomersOnRecord ==
  /\ [](/\ Profiles("together")!TypeOK \/ Profiles("in order")!TypeOK
        /\ desk = "profiles" => Profiles("in order")!ScoresOnRecord
        /\ Profiles("together")!StagesInSync
        /\ Profiles("together")!StagesOnRecord)
  /\ [][desk = "profiles" => Profiles("in order")!ScoreMapsLevel]_deskVars

(* The same of scores that are saved while another request is at work.        *)
SavedScoreMaps == [][desk = "shared" => Profiles("together")!ScoreMapsLevel]_deskVars

(* What a deletion may take while others work: no customer with contacts or   *)
(* histories, no customer an inquiry made, not the archive date of a customer *)
(* whose record goes, and no link of a tag that is switched off.              *)
DeletionsTakeNoMore ==
  [][/\ Profiles("together")!DeletionIsSafe
     /\ Inquiries("together")!IntakeStays
     /\ Visits("together")!DeletionKeepsDate
     /\ Tags("together")!LinksRemain]_deskVars

(* Inquiries one after another make no customer that matches another.         *)
NoTwinIntake == [][desk = "inquiries" => Inquiries("in order")!OneOfAKind]_deskVars

(* Tags, and categories, requested one after another differ by more than their*)
(* case; those requested together by their spelling at least.                 *)
NamesDiffer ==
  /\ Tags("together")!TypeOK
  /\ desk \in {"tags", "categories"} => Tags("in order")!NamesDistinct
  /\ Tags("together")!SpellingsDistinct

=============================================================================
