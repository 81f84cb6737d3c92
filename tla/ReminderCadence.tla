--------------------------- MODULE ReminderCadence --------------------------
(* The live reminder of a customer: computed on every read from the archive's *)
(* acquisition date, the manual stage, the follow-up history, the rules the   *)
(* Admin saved and the Shanghai business day.  Days are numbers; day          *)
(* RuleStart is 2026-08-12.                                                   *)
EXTENDS Integers, FiniteSets

CONSTANTS
  Customers,
  None,
  RuleStart,     \* the default rule_start_date
  LastDay,       \* bound on the calendar
  MaxRecords,    \* bound on the follow-ups of a customer
  AcquiredDays,  \* acquisition dates that occur
  Stages,        \* manual stages that occur: names of Intervals, "unknown" or None
  SavedRules     \* rules the Admin may save

Defaults == [start |-> RuleStart, first |-> 3, unanswered |-> 3, talking |-> 3,
             quoted |-> 1, coldAfter |-> 15, coldEvery |-> 30]

CadenceAssumption ==
  /\ RuleStart \in Nat /\ LastDay \in Nat /\ MaxRecords \in Nat /\ AcquiredDays \subseteq 0..LastDay
  /\ None \notin Nat /\ None \notin SavedRules /\ None \notin {"new", "talking", "quoted", "sample", "won", "repeat"}
  /\ SavedRules \subseteq [DOMAIN Defaults -> Nat]
  /\ \A r \in SavedRules : \A k \in DOMAIN Defaults \ {"start"} : r[k] > 0

VARIABLES
  today,     \* the business day
  row,       \* the saved rules, or None
  customer,  \* per customer: acquired, stage, archive date and the stored cold flag
  records    \* the dates of a customer's follow-ups

vars == <<today, row, customer, records>>

Days == 0..LastDay
OptDays == Days \cup {None}
DueStates == {"overdue", "today"}

TypeOK ==
  /\ today \in Days
  /\ row \in SavedRules \cup {None}
  /\ customer \in [Customers -> [acquired : OptDays, stage : Stages \cup {None}, archive : OptDays, cold : BOOLEAN]]
  /\ records \in [Customers -> SUBSET Days]
-----------------------------------------------------------------------------
Rules == IF row = None THEN Defaults ELSE row

Intervals(rules) == [new |-> rules.unanswered, talking |-> rules.talking, quoted |-> rules.quoted,
                     sample |-> 3, won |-> 7, repeat |-> 30]

(* The cold clock runs from the acquisition only.                             *)
IsCold(acquired, stage, rules, day) ==
  acquired # None /\ stage = "new" /\ day >= acquired + rules.coldAfter

Notice(status, due, priority) == [status |-> status, due |-> due, priority |-> priority]

(* A confusion of signs: lateness forgotten after three days.                 *)
AbsNotice(due, day, offset) ==
  LET delta == IF due < day THEN day - due ELSE due - day IN
  IF delta > 3 THEN Notice("not_needed", due, offset + 8) ELSE Notice("overdue", due, offset)

DueNotice(due, day, offset) ==
  LET delta == due - day IN
  CASE delta < 0 -> Notice("overdue", due, offset)
    [] delta = 0 -> Notice("today", due, offset + 1)
    [] delta \in 1..3 -> Notice("upcoming", due, offset + 1 + delta)
    [] OTHER -> Notice("not_needed", due, offset + 8)

(* The date a cadence counts from.                                            *)
Base(latest, otherwise) == IF latest # None THEN latest ELSE otherwise

Reminder(acquired, latest, stage, rules, day) ==
  IF acquired = None THEN Notice("not_applicable", None, 99)
  ELSE IF IsCold(acquired, stage, rules, day)
    THEN DueNotice(Base(latest, acquired + rules.coldAfter) + rules.coldEvery, day, 30)
  ELSE IF latest = None /\ stage = None
    THEN Notice("unfollowed", acquired + rules.first, 25)
  ELSE IF stage \notin DOMAIN Intervals(rules) THEN Notice("stage_unset", None, 90)
  ELSE DueNotice(Base(latest, acquired) + Intervals(rules)[stage], day, 0)

(* A real follow-up counts before the archive's date.                         *)
LatestIn(c, history) ==
  IF history = {} THEN customer[c].archive ELSE CHOOSE d \in history : \A e \in history : e <= d
Latest(c) == LatestIn(c, records[c])

Applicable(c) ==
  customer[c].acquired # None /\ (customer[c].acquired >= Rules.start \/ \E d \in records[c] : d >= Rules.start)

(* The customer's page: the default rules, whatever was saved, and no start.  *)
PageCold(c) == IsCold(customer[c].acquired, customer[c].stage, Defaults, today)
PageReminder(c) == Reminder(customer[c].acquired, Latest(c), customer[c].stage, Defaults, today)

(* The queue: the saved rules, and customers of before their start only after *)
(* a later follow-up.                                                         *)
QueueCold(c) == Applicable(c) /\ IsCold(customer[c].acquired, customer[c].stage, Rules, today)
QueueReminder(c) ==
  IF Applicable(c) THEN Reminder(customer[c].acquired, Latest(c), customer[c].stage, Rules, today)
  ELSE Notice("not_applicable", None, 99)

(* list_customers?cold_customer=true: the saved rules, no start.              *)
ColdFilter(c) == IsCold(customer[c].acquired, customer[c].stage, Rules, today)

Band(c) ==
  IF QueueCold(c) THEN 30
  ELSE CASE customer[c].stage = "quoted" -> 0 [] customer[c].stage = "talking" -> 10
         [] customer[c].stage = "new" -> 20 [] OTHER -> 40

(* The second part of the sort key: most overdue first, then soonest due.     *)
Secondary(c) == LET r == QueueReminder(c) IN IF r.due = None THEN 0 ELSE r.due - today
SortKey(c) == <<Band(c), QueueReminder(c).priority, Secondary(c)>>
Listed == {c \in Customers : customer[c].acquired # None}
Before(k, l) == \E i \in 1..3 : k[i] < l[i] /\ \A j \in 1..(i - 1) : k[j] = l[j]
-----------------------------------------------------------------------------
Init ==
  /\ today \in AcquiredDays /\ row = None
  /\ customer = [c \in Customers |-> [acquired |-> None, stage |-> None, archive |-> None, cold |-> FALSE]]
  /\ records = [c \in Customers |-> {}]

NextDay == today < LastDay /\ today' = today + 1 /\ UNCHANGED <<row, customer, records>>

SaveRules == row' \in SavedRules \ {row} /\ UNCHANGED <<today, customer, records>>

(* Every write of the application refreshes the stored flag.                  *)
Synced(fields) == [fields EXCEPT !.cold = IsCold(fields.acquired, fields.stage, Rules, today)]

(* Creating or editing the customer: its archive fields, then the flag.       *)
SaveCustomer(c) ==
  \E a \in {d \in AcquiredDays : d <= today} \cup {None}, s \in Stages, l \in {customer[c].archive, None, today} :
    /\ customer' = [customer EXCEPT ![c] = Synced([@ EXCEPT !.acquired = a, !.stage = s, !.archive = l])]
    /\ UNCHANGED <<today, row, records>>

(* A row of the archive overwrites the same fields and leaves the flag.       *)
ImportCustomer(c) ==
  \E a \in {d \in AcquiredDays : d <= today} \cup {None}, s \in Stages, l \in {customer[c].archive, None, today} :
    /\ customer' = [customer EXCEPT ![c] = [@ EXCEPT !.acquired = a, !.stage = s, !.archive = l]]
    /\ UNCHANGED <<today, row, records>>

(* A follow-up recorded on its day, or the day before's recorded late.        *)
RecordFollowup(c) ==
  /\ Cardinality(records[c]) < MaxRecords
  /\ \E d \in {today, today - 1} \cap Days :
       LET history == records[c] \cup {d} IN
       /\ records' = [records EXCEPT ![c] = history]
       /\ customer' = [customer EXCEPT ![c] = Synced([@ EXCEPT !.archive = LatestIn(c, history)])]
  /\ UNCHANGED <<today, row>>

(* Deleting one keeps the archive date.                                       *)
DeleteFollowup(c) ==
  /\ \E d \in records[c] : records' = [records EXCEPT ![c] = @ \ {d}]
  /\ customer' = [customer EXCEPT ![c] = Synced(@)]
  /\ UNCHANGED <<today, row>>

Finished == today = LastDay /\ UNCHANGED vars

Next ==
  \/ NextDay \/ SaveRules \/ Finished
  \/ \E c \in Customers : SaveCustomer(c) \/ ImportCustomer(c) \/ RecordFollowup(c) \/ DeleteFollowup(c)

Spec == Init /\ [][Next]_vars
-----------------------------------------------------------------------------
(* Inside one commercial band the queue is in the order of the due dates:     *)
(* whatever the statuses, the longest overdue customer comes first and no     *)
(* later one is listed before it.                                             *)
QueueByDate ==
  \A c, d \in Listed :
    LET r == QueueReminder(c)  s == QueueReminder(d) IN
    customer[c].stage = customer[d].stage /\ QueueCold(c) = QueueCold(d) /\ r.due # None /\ s.due # None /\ r.due < s.due
      => Before(SortKey(c), SortKey(d))

(* A customer who was due stays due as days pass, with only one exception     *)
(* that the rules provide: on the day it turns cold.                          *)
StaysDue ==
  today' # today =>
    \A c \in Customers : QueueReminder(c).status \in DueStates =>
                           QueueReminder(c).status' = "overdue" \/ (~QueueCold(c) /\ QueueCold(c)')

(* Recording a follow-up of today takes the customer off the list of those    *)
(* due today, under every legal set of rules.                                 *)
Silences == \A c \in Customers : today \in records[c]' \ records[c] => QueueReminder(c).status' \notin DueStates

(* "The database flag is refreshed whenever a customer or follow-up changes": *)
(* whatever writes a customer or its follow-ups leaves the stored cold flag   *)
(* as the rules of the moment have it.                                        *)
FlagRefreshed ==
  \A c \in Customers :
    customer[c]' # customer[c] \/ records[c]' # records[c]
      => customer[c].cold' = IsCold(customer[c].acquired, customer[c].stage, Rules, today)'

(* What the README says: customers acquired before the start have no          *)
(* reminder; no follow-up date, never cold; 1 day after a talk.               *)
EarlierExcluded ==
  \A c \in Customers : customer[c].acquired # None /\ customer[c].acquired < RuleStart => PageReminder(c).due = None
NoDateNeverCold == \A c \in Customers : Latest(c) = None => ~QueueCold(c)
TalkingDaily ==
  \A c \in Customers : row = None /\ customer[c].stage = "talking" /\ Applicable(c) /\ Latest(c) # None
                         => QueueReminder(c).due = Latest(c) + 1

(* What the model's is_cold_customer says of itself: one live state for every *)
(* read path.                                                                 *)
OneColdState == \A c \in Customers : ColdFilter(c) = PageCold(c)
=============================================================================
