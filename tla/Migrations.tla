----------------------------- MODULE Migrations -----------------------------
(* `alembic upgrade head` and `alembic downgrade` on a database found at some *)
(* revision: the schema objects of SchemaVersions, the width of the version   *)
(* table, and one customer with a follow-up history, a deal, an order and an  *)
(* inquiry, whose values the data steps of the revisions rewrite.  A run is   *)
(* one transaction; it reads the stamp when it begins, and every step moves   *)
(* the stamp with a compare-and-set, so a run whose reading is stale fails.   *)
(* Data steps that only give a new column a default or copy a text (0013's    *)
(* updated_at, 0014's probability, 0015's source_platform) are left out, and  *)
(* no installation has a table of its own that refers to leads, the case in   *)
(* which 0021 refuses.                                                        *)
EXTENDS SchemaVersions, PipelineStages, SequencesExt

CONSTANTS Runners,    \* processes that run Alembic
          Starts,     \* revisions the database may be found at
          Targets,    \* revisions a downgrade may be asked for
          Topics,     \* parts of the row that vary in the initial states
          Drifted,    \* TRUE: stamped columns may be missing when found
          Prepares,   \* TRUE: ensure_alembic_version.py runs before an upgrade
          MaxRuns     \* bound: runs that end

Gone == "Gone"        \* the column or the row does not exist (Never for dates)
Never == -2
Null == -1

CustomerStages == {"Lead", "Contacted", "Quotation", "Negotiation", "Won", "Lost"}

(* The revisions there are, and what else the bounds may be.                  *)
MigrationAssumption ==
  /\ Starts \subseteq 0..Latest /\ Targets \subseteq Nat /\ MaxRuns \in Nat
  /\ Drifted \in BOOLEAN /\ Prepares \in BOOLEAN

VARIABLES db,         \* [rev, width, schema, marked, cascade, row]
          run,        \* per runner: None, or [from, to] of the run under way
          report,     \* how the last run ended: [up, why, at]
          ended,      \* runs that ended
          found       \* what was found: [rev, whole]

vars == <<db, run, report, ended, found>>

None == [from |-> -1, to |-> -1]

(* The follow-up whose plan is the customer's reminder: visits are kept in    *)
(* the order they were recorded.                                              *)
Day(v) == IF v.on = Never THEN v.made ELSE v.on

Newest(visits) ==
  CHOOSE i \in DOMAIN visits : \A j \in DOMAIN visits :
    \/ Day(visits[j]) < Day(visits[i])
    \/ Day(visits[j]) = Day(visits[i]) /\ j <= i

LevelForScore(s) == IF s >= 80 THEN "A" ELSE IF s >= 50 THEN "B" ELSE "C"

--------------------------------------------------------------------------------
(* Data steps: what an upgrade or downgrade makes of the row.                 *)
Fill03(r) == [r EXCEPT !.custom = r.status]

Fill05(r, had) == IF had THEN r ELSE Fill03(r)

Renamed07 == [Lead |-> "Lead", Contacted |-> "Qualified", Quotation |-> "Proposal",
              Negotiation |-> "Negotiation", Won |-> "Won", Lost |-> "Lost"]

Fill07(r) ==
  IF r.deal.stage = Gone THEN r
  ELSE LET s == Renamed07[r.deal.stage]
       IN [r EXCEPT !.deal.stage = s, !.trail.stage = <<s>>]

Back07(r) ==
  IF r.deal.stage = Gone THEN r
  ELSE LET old == CHOOSE s \in CustomerStages : Renamed07[s] = r.deal.stage
       IN [r EXCEPT !.deal.stage = old, !.trail.stage = <<>>]

Back06(r) == [r EXCEPT !.deal.stage = Gone]

Fill11(r) ==
  [r EXCEPT !.score = IF r.level = "A" THEN 80 ELSE IF r.level = "B" THEN 60 ELSE 30]

Back11(r) == [r EXCEPT !.score = Never]

Fill13(r) ==
  [r EXCEPT !.visits = [i \in DOMAIN r.visits |-> [r.visits[i] EXCEPT !.on = r.visits[i].made]]]

Back13(r) ==
  [r EXCEPT !.visits = [i \in DOMAIN r.visits |-> [r.visits[i] EXCEPT !.on = Never]]]

Sales14 == [Lead |-> "NewLead", Qualified |-> "RequirementConfirmed",
            Proposal |-> "QuotationSent", Negotiation |-> "Negotiation",
            Won |-> "Won", Lost |-> "Lost"]

Fill14(r) ==
  IF r.deal.stage = Gone THEN r
  ELSE LET s == Sales14[r.deal.stage]
       IN [r EXCEPT !.deal.sales = s, !.trail.sales = <<s>>]

Back14(r) == [r EXCEPT !.deal.sales = Gone, !.trail.sales = <<>>]

Deal16 == [NewLead |-> "NewInquiry", Contacted |-> "Contacted",
           RequirementConfirmed |-> "Contacted", QuotationSent |-> "Quoted",
           Negotiation |-> "Negotiating", Won |-> "Won", Lost |-> "Lost"]

Fill16(r) ==
  IF r.deal.stage = Gone THEN r
  ELSE LET s == Deal16[r.deal.sales]
       IN [r EXCEPT !.deal.deal = s, !.trail.deal = <<s>>]

Back16(r) == [r EXCEPT !.deal.deal = Gone, !.trail.deal = <<>>]

(* The reminder summary; a customer without follow-ups keeps empty columns.   *)
Fill17(r) ==
  IF r.visits = <<>> THEN [r EXCEPT !.plan = Null, !.seen = Null]
  ELSE LET v == r.visits[Newest(r.visits)]
       IN [r EXCEPT !.plan = v.next, !.seen = v.made]

Back17(r) == [r EXCEPT !.plan = Never, !.seen = Never]

(* The repair adds the columns, empty, where they are missing.                *)
Fill18(r) == [r EXCEPT !.plan = IF @ = Never THEN Null ELSE @,
                       !.seen = IF @ = Never THEN Null ELSE @]

Label19 == [Lead |-> "xin kaifa wei huifu", Contacted |-> "xin kaifa yi huifu",
            Quotation |-> "yi baojia", Negotiation |-> "tanpan zhong",
            Won |-> "yi chengjiao", Lost |-> "yi shudan"]

Fill19(r) == [r EXCEPT !.label = Label19[r.custom],
                       !.latest = IF r.seen = Null THEN Null ELSE r.seen]

STAGE_RENAMES == [l \in {"xin kaifa wei huifu", "xin kaifa yi huifu"} |->
                    IF l = "xin kaifa wei huifu" THEN "xin kehu wei huifu"
                    ELSE "goutong zhong"]

Fill20(r) ==
  [r EXCEPT !.label = IF @ \in DOMAIN STAGE_RENAMES THEN STAGE_RENAMES[@] ELSE @]

(* (The customer's owner first.)                                              *)
Fill22CustomerFirst(r) ==
  [r EXCEPT !.inquiry.own =
     IF @ \notin {Gone, "nobody"} THEN @
     ELSE IF r.inquiry.cust # "nobody" THEN r.inquiry.cust ELSE r.inquiry.deal]

(* An inquiry without an owner takes its deal's, else its customer's.         *)
Fill22(r) ==
  [r EXCEPT !.inquiry.own =
     IF @ \notin {Gone, "nobody"} THEN @
     ELSE IF r.inquiry.deal # "nobody" THEN r.inquiry.deal ELSE r.inquiry.cust]

Back15(r) == [r EXCEPT !.inquiry.own = Gone]

Back23(r) == [r EXCEPT !.rmb = Never]

(* The row after upgrade k of the database d, and after downgrade k.          *)
Filled(k, d) ==
  LET r == d.row IN
    CASE k = 3  -> Fill03(r)
      [] k = 5  -> Fill05(r, "customers.sales_stage" \in d.schema)
      [] k = 7  -> Fill07(r)
      [] k = 11 -> Fill11(r)
      [] k = 13 -> Fill13(r)
      [] k = 14 -> Fill14(r)
      [] k = 16 -> Fill16(r)
      [] k = 17 -> Fill17(r)
      [] k = 18 -> Fill18(r)
      [] k = 19 -> Fill19(r)
      [] k = 20 -> Fill20(r)
      [] k = 22 -> Fill22(r)
      [] OTHER  -> r

Emptied(k, d) ==
  LET r == d.row IN
    CASE k = 3  -> [r EXCEPT !.custom = Gone]
      [] k = 5  -> IF "customers.sales_stage" \in d.marked
                     THEN [r EXCEPT !.custom = Gone] ELSE r
      [] k = 6  -> Back06(r)
      [] k = 7  -> Back07(r)
      [] k = 11 -> Back11(r)
      [] k = 13 -> Back13(r)
      [] k = 14 -> Back14(r)
      [] k = 15 -> Back15(r)
      [] k = 16 -> Back16(r)
      [] k = 17 -> Back17(r)
      [] k = 23 -> Back23(r)
      [] OTHER  -> r

--------------------------------------------------------------------------------
(* The steps.  Each step first changes the schema, then moves the stamp, and  *)
(* any error rolls the whole run back.                                        *)
Fits(k, width) == k \in LongNames => width >= 100

UpWidth(k, d) == IF k = 12 THEN 100 ELSE d.width

UpFault(k, d) ==
  IF Chain[k].adds \cap d.schema # {} THEN "exists"
  ELSE IF ~Fits(k, UpWidth(k, d)) THEN "width"
  ELSE "none"

Up(k, d) ==
  [rev     |-> k,
   width   |-> UpWidth(k, d),
   schema  |-> (d.schema \ Chain[k].takes) \cup Chain[k].adds \cup Chain[k].fills,
   marked  |-> IF k = 5 THEN d.marked \cup (Chain[k].fills \ d.schema) ELSE d.marked,
   cascade |-> d.cascade /\ k # 22,
   row     |-> Filled(k, d)]

(* 0010 refuses while a follow-up uses Alibaba, 0022 always, and 0024 while an *)
(* order waits for its amounts.  0012 refuses while the stamp is long, which   *)
(* it never is when 0012 itself is being taken back.                           *)
Refuses(k, d) ==
  \/ k = 10 /\ d.row.alibaba
  \/ k = 12 /\ d.rev \in LongNames
  \/ k = 22
  \/ k = 24 /\ d.row.rmb = Null

DownWidth(k, d) == IF k = 12 THEN 32 ELSE d.width

(* The type lead_status is created by name and once more with the table that  *)
(* uses it, which does not ask whether it is there.                            *)
CreatedTwice == {21}

DownFault(k, d) ==
  IF Refuses(k, d) THEN "refused"
  ELSE IF ~(Chain[k].drops \subseteq d.schema) THEN "missing"
  ELSE IF k \in CreatedTwice \/ Chain[k].gives \cap d.schema # {} THEN "exists"
  ELSE IF ~Fits(k - 1, DownWidth(k, d)) THEN "width"
  ELSE "none"

Down(k, d) ==
  LET repaired == IF k = 5 THEN d.marked ELSE {}
  IN [d EXCEPT !.rev = k - 1,
               !.width = DownWidth(k, d),
               !.schema = (@ \ (Chain[k].drops \cup Chain[k].eases \cup repaired))
                            \cup Chain[k].gives,
               !.marked = IF k = 5 THEN {} ELSE @,
               !.row = Emptied(k, d)]

(* One step of a run: after a fault nothing more happens.                     *)
Climb(k, c) ==
  IF c.why # "none" THEN c
  ELSE IF UpFault(k, c.db) # "none" THEN [c EXCEPT !.why = UpFault(k, c.db), !.at = k]
  ELSE [c EXCEPT !.db = Up(k, c.db)]

Descend(k, c) ==
  IF c.why # "none" THEN c
  ELSE IF DownFault(k, c.db) # "none" THEN [c EXCEPT !.why = DownFault(k, c.db), !.at = k]
  ELSE [c EXCEPT !.db = Down(k, c.db)]

(* A run: its steps in order until one fails.                                 *)
Outcome(d, r) ==
  LET steps == IF r.to > r.from THEN r.to - r.from ELSE r.from - r.to
      after[i \in 0..steps] ==
        IF i = 0 THEN [db |-> d, why |-> "none", at |-> 0]
        ELSE IF r.to > r.from THEN Climb(r.from + i, after[i - 1])
        ELSE Descend(r.from + 1 - i, after[i - 1])
  IN after[steps]

--------------------------------------------------------------------------------
(* Rows an installation of revision r may hold, the topics varying.           *)
Vary(topics, topic, all, one) == IF topic \in topics THEN all ELSE {one}

DealsAt(topics, r) ==
  IF r < 6 THEN {[stage |-> Gone, sales |-> Gone, deal |-> Gone]}
  ELSE IF r = 6 THEN [stage : Vary(topics, "stages", CustomerStages, "Quotation"),
                      sales : {Gone}, deal : {Gone}]
  ELSE IF r < 14 THEN [stage : Vary(topics, "stages", LegacyStages, "Qualified"),
                       sales : {Gone}, deal : {Gone}]
  ELSE {[OfSales(s) EXCEPT !.deal = IF r < 16 THEN Gone ELSE @] :
          s \in Vary(topics, "stages", SalesStages, "QuotationSent")}

TrailOf(r, t) == [stage |-> IF r < 7 \/ t.stage = Gone THEN <<>> ELSE <<t.stage>>,
                  sales |-> IF t.sales = Gone THEN <<>> ELSE <<t.sales>>,
                  deal  |-> IF t.deal = Gone THEN <<>> ELSE <<t.deal>>]

VisitsAt(topics, r) ==
  LET one == [made : {1, 2}, on : IF r < 13 THEN {Never} ELSE {1, 2}, next : {Null, 3, 4}]
  IN Vary(topics, "reminders",
          {<<>>} \cup {<<v>> : v \in one}
                 \cup {s \in one \X one : s[1].made <= s[2].made}, <<>>)

ScoresAt(topics, r) ==
  IF r < 11 THEN {Never} ELSE Vary(topics, "scores", {0, 49, 50, 79, 80, 100}, 60)

(* A level may also be entered without a score, so it need not be the one of  *)
(* the score that is there.                                                   *)
LevelsAt(topics) == Vary(topics, "scores", {"A", "B", "C"}, "B")

AmountsAt(topics, r) == IF r < 23 THEN {Never}
                        ELSE IF r < 24 THEN Vary(topics, "orders", {0, 5}, 5)
                        ELSE Vary(topics, "orders", {Null, 0, 5}, 5)

InquiriesAt(topics, r) ==
  LET who == {"nobody", "ann", "bob"}
  IN [own  : IF r < 15 THEN {Gone} ELSE IF r < 22 THEN {"nobody"}
             ELSE Vary(topics, "inquiries", who, "nobody"),
      deal : Vary(topics, "inquiries", who, "ann"),
      cust : Vary(topics, "inquiries", who, "bob")]

Summary(r, visits) ==
  IF r < 17 THEN [plan |-> Never, seen |-> Never]
  ELSE IF visits = <<>> THEN [plan |-> Null, seen |-> Null]
  ELSE LET v == visits[Newest(visits)] IN [plan |-> v.next, seen |-> v.made]

RowsAt(topics, r) ==
  {[status |-> c, custom |-> IF r < 3 THEN Gone ELSE c,
    level |-> l[1], score |-> l[2], visits |-> v, alibaba |-> a,
    plan |-> Summary(r, v).plan, seen |-> Summary(r, v).seen,
    label |-> IF r < 19 THEN Gone
              ELSE IF r < 20 THEN Label19[c] ELSE Fill20([label |-> Label19[c]]).label,
    latest |-> IF r < 19 THEN Never ELSE Summary(r, v).seen,
    deal |-> t, trail |-> TrailOf(r, t), rmb |-> m, inquiry |-> q] :
     c \in Vary(topics, "stages", CustomerStages, "Contacted"),
     l \in LevelsAt(topics) \X ScoresAt(topics, r),
     v \in VisitsAt(topics, r), a \in IF r < 10 THEN {FALSE} ELSE BOOLEAN,
     t \in DealsAt(topics, r), m \in AmountsAt(topics, r), q \in InquiriesAt(topics, r)}

(* Columns a stale stamp may claim: the V3 columns of 0003 at 0003 and 0004,  *)
(* the reminder columns of 0017 at 0017.                                      *)
Claimed(r) == IF ~Drifted THEN {}
              ELSE IF r \in {3, 4} THEN V05.fills
              ELSE IF r = 17 THEN ReminderColumns
              ELSE {}

(* A missing column has no value.                                             *)
Found(r, row, lost) ==
  [rev |-> r,
   width |-> IF r < 11 THEN 32 ELSE 100,
   schema |-> SchemaOf[r] \ lost,
   marked |-> {},
   cascade |-> r < 22,
   row |-> [row EXCEPT
     !.custom = IF "customers.sales_stage" \in lost THEN Gone ELSE @,
     !.plan = IF "customers.next_followup_date" \in lost THEN Never ELSE @,
     !.seen = IF "customers.last_followup_at" \in lost THEN Never ELSE @]]

FoundAmong(starts, topics) ==
  /\ \E r \in starts : \E row \in RowsAt(topics, r), lost \in SUBSET Claimed(r) :
       /\ db = Found(r, row, lost)
       /\ found = [rev |-> r, whole |-> lost = {}]
  /\ run = [p \in Runners |-> None]
  /\ report = [up |-> TRUE, why |-> "none", at |-> 0]
  /\ ended = 0

Init == FoundAmong(Starts, Topics)

--------------------------------------------------------------------------------
(* scripts/ensure_alembic_version.py.                                         *)
Prepare == /\ Prepares
           /\ db.width < 100
           /\ db' = [db EXCEPT !.width = 100]
           /\ UNCHANGED <<run, report, ended, found>>

Begin(p, to) ==
  /\ run[p] = None
  /\ ended < MaxRuns
  /\ run' = [run EXCEPT ![p] = [from |-> db.rev, to |-> to]]
  /\ UNCHANGED <<db, report, ended, found>>

BeginUpgrade(p) == /\ db.rev < Latest
                   /\ Prepares => db.width >= 100
                   /\ Begin(p, Latest)

BeginDowngrade(p) == \E to \in Targets : to < db.rev /\ Begin(p, to)

(* (The stamp moved without comparing.)                                       *)
NeverStale(r) == FALSE

(* UPDATE alembic_version ... WHERE version_num = the revision the run began  *)
(* from must match the row.                                                   *)
Stale(r) == r.from # db.rev

Finish(p) ==
  LET r == run[p] IN
    /\ r # None
    /\ LET o == Outcome(db, r) IN
         /\ db' = IF ~Stale(r) /\ o.why = "none" THEN o.db ELSE db
         /\ report' = IF Stale(r) THEN [up |-> r.to > r.from, why |-> "stale", at |-> 0]
                      ELSE [up |-> r.to > r.from, why |-> o.why, at |-> o.at]
    /\ run' = [run EXCEPT ![p] = None]
    /\ ended' = ended + 1
    /\ UNCHANGED found

(* The process dies: its transaction is rolled back.                          *)
Crash(p) == /\ run[p] # None
            /\ run' = [run EXCEPT ![p] = None]
            /\ ended' = ended + 1
            /\ UNCHANGED <<db, report, found>>

Next == Prepare \/ \E p \in Runners : \/ BeginUpgrade(p)
                                      \/ BeginDowngrade(p)
                                      \/ Finish(p)
                                      \/ Crash(p)

Spec == Init /\ [][Next]_vars
--------------------------------------------------------------------------------
TypeOK == /\ db.rev \in 0..Latest /\ db.width \in {32, 100}
          /\ db.schema \subseteq UNION {Chain[k].adds \cup Chain[k].fills : k \in 1..Latest}
          /\ db.marked \subseteq V05.fills /\ db.cascade \in BOOLEAN
          /\ report.at \in 0..Latest /\ ended \in Nat

(* At the head every table and column the ORM maps exists, also where a stale *)
(* stamp had hidden that some were missing (0005 and 0018 repair them).        *)
HeadServesOrm == db.rev = Latest => OrmNeeds \subseteq db.schema

(* The stamp tells what the schema holds: nothing is missing once the repair  *)
(* of what was found missing is passed, and nothing is left over except the   *)
(* archive columns that 0019 keeps on purpose.                                 *)
Repaired == \/ found.whole
            \/ found.rev < 5 /\ db.rev >= 5
            \/ db.rev >= 18

StampIsTrue == /\ Repaired => SchemaOf[db.rev] \subseteq db.schema
               /\ db.schema \subseteq SchemaOf[db.rev] \cup V19.adds

(* A run fails for one of these reasons only: it was overtaken; it upgrades   *)
(* over archive columns that an earlier downgrade kept; it takes back columns *)
(* of 0003 that were never there or that 0005 repaired; it takes back 0012,   *)
(* whose predecessor's name is too long, or 0021, which creates a type twice; *)
(* or a downgrade refuses.                                                    *)
FaultsKnown ==
  CASE report.why = "exists"  -> report.at = IF report.up THEN 19 ELSE 21
    [] report.why = "missing" -> ~report.up /\ report.at = 3 /\ ~found.whole
    [] report.why = "width"   -> ~report.up /\ report.at = 12
    [] report.why = "refused" -> ~report.up /\ report.at \in {10, 22, 24}
    [] OTHER -> TRUE

(* The three stages a migrated deal ends up with are a triple the program     *)
(* itself would write: the SQL of 0014 and 0016 agrees with the maps of       *)
(* opportunity_service.                                                       *)
MigratedAsKept ==
  LET t == db.row.deal IN
    /\ t.deal # Gone => Coherent(t)
    /\ t.sales # Gone => t.stage = SalesToLegacy[t.sales]

(* Each stage column comes with a trail whose newest entry is the column.     *)
EndsAt(trail, value) == IF value = Gone THEN trail = <<>>
                        ELSE trail # <<>> /\ Last(trail) = value

TrailEndsAtStage ==
  /\ EndsAt(db.row.trail.sales, db.row.deal.sales)
  /\ EndsAt(db.row.trail.deal, db.row.deal.deal)
  /\ db.rev >= 7 => EndsAt(db.row.trail.stage, db.row.deal.stage)

(* The starting score 0011 gives a grade is one the program grades the same.  *)
LevelMatches ==
  found.rev < 11 /\ db.row.score # Never => db.row.level = LevelForScore(db.row.score)

(* A customer's reminder columns show its newest follow-up, as                *)
(* _refresh_customer_reminder would leave them.                               *)
ShowsNewest(r) ==
  IF r.visits = <<>> THEN r.plan = Null /\ r.seen = Null
  ELSE LET v == r.visits[Newest(r.visits)] IN r.plan = v.next /\ r.seen = v.made

ReminderIsLatest == found.whole /\ db.rev >= 17 => ShowsNewest(db.row)

(* 0018's docstring: "Ensure all ORM-required V10 reminder fields are present *)
(* and populated."  Columns it adds to a customer with follow-ups stay empty.  *)
RepairPopulates == db.rev >= 18 => ShowsNewest(db.row)

(* The archive stage 0019 and 0020 give a customer is one the archive import  *)
(* reads back as the customer's own sales stage.                              *)
legacy_status_for ==
  [l \in {Label19[c] : c \in CustomerStages} \cup {"xin kehu wei huifu", "goutong zhong"} |->
     IF l \in {"xin kehu wei huifu", "xin kaifa wei huifu"} THEN "Lead"
     ELSE IF l \in {"goutong zhong", "xin kaifa yi huifu"} THEN "Contacted"
     ELSE CHOOSE c \in CustomerStages : Label19[c] = l]

LabelRoundTrip ==
  db.row.label # Gone /\ db.row.custom # Gone => legacy_status_for[db.row.label] = db.row.custom

(* After 0022 an inquiry that existed before it stays without an owner only   *)
(* when neither its deal nor its customer has one, and the deal decides.      *)
OwnersSettled ==
  LET q == db.row.inquiry IN
    found.rev < 22 /\ db.rev >= 22 =>
      /\ q.own = "nobody" => q.deal = "nobody" /\ q.cust = "nobody"
      /\ q.deal # "nobody" => q.own = q.deal

(* No run, upgrade or rollback, turns a pending amount into a recorded one.   *)
KeepsPending == db.row.rmb = Null => db'.row.rmb = Null
PendingStaysPending == [][KeepsPending]_vars

(* Once the history tables are guarded against a customer's deletion they     *)
(* stay guarded: no run takes the database back behind 0022.                  *)
KeepsGuard == db.rev >= 22 => db'.rev >= 22 /\ ~db'.cascade
HistoryGuarded == [][KeepsGuard]_vars

(* A run rewrites no stage that was there before and after it: 0005 leaves a  *)
(* correct schema unchanged, and 0014 and 0016 leave the older columns alone. *)
KeepsStages ==
  LET r == db.row  n == db'.row IN
    /\ r.custom # Gone /\ n.custom # Gone => n.custom = r.custom
    /\ db.rev >= 7 /\ db'.rev >= 7 => n.deal.stage = r.deal.stage
    /\ r.deal.sales # Gone /\ n.deal.sales # Gone => n.deal.sales = r.deal.sales
    /\ r.deal.deal # Gone /\ n.deal.deal # Gone => n.deal.deal = r.deal.deal
StagesKept == [][KeepsStages]_vars

(* README: "apply all pending schema migrations" with `alembic upgrade head`.  *)
(* Without ensure_alembic_version.py the upgrade to 0011 cannot be stamped.    *)
PlainUpgradeWorks == report.why # "width"
=============================================================================
