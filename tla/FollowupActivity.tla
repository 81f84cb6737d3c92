-------------------------- MODULE FollowupActivity --------------------------
(* Follow-up records and the summaries kept of them: the reminder columns of  *)
(* their customer and the activity columns of their opportunities.  Create,   *)
(* update and delete recompute the summaries from what they can see and write *)
(* the columns that differ from what they read.                               *)
EXTENDS Naturals, FiniteSets

CONSTANTS
  FollowUps,  \* record ids, all of one customer
  Opps,       \* opportunities of that customer
  Days,       \* business dates of records
  Requests,
  None,
  OneAtATime

Times == 0..Cardinality(Requests)
Records == [day : Days, next : Days \cup {0}, opp : Opps \cup {None}, created : Times, updated : Times]

ActivityAssumption ==
  /\ Days \subseteq Nat \ {0} /\ Days # {} /\ IsFiniteSet(FollowUps) /\ IsFiniteSet(Requests)
  /\ None \notin FollowUps \cup Opps \cup Records /\ OneAtATime \in BOOLEAN

VARIABLES
  followup,     \* committed records, or None
  customer,     \* next_followup_date, last_followup_at, latest_followup_date (0: NULL)
  opportunity,  \* last_followup_at, quotation_sent_at, whether a quote task is due
  clock,        \* one tick per request
  req

vars == <<followup, customer, opportunity, clock, req>>

Summaries == [next : Days \cup {0}, last : Times, latest : Days \cup {0}]
Activities == [last : Times, sent : Times, due : BOOLEAN]

Jobs == {"idle", "create", "update", "delete", "commit", "done"}
Tasks == [job : Jobs, kind : Jobs, id : FollowUps \cup {None}, now : Times,
          old : Records \cup {None}, record : Records \cup {None}, read : Summaries,
          readOpp : [Opps -> Activities], write : Summaries, writeOpp : [Opps -> Activities]]

TypeOK ==
  /\ followup \in [FollowUps -> Records \cup {None}]
  /\ customer \in Summaries
  /\ opportunity \in [Opps -> Activities]
  /\ clock \in Times
  /\ req \in [Requests -> Tasks]

NoActivity == [o \in Opps |-> [last |-> 0, sent |-> 0, due |-> FALSE]]
NoSummary == [next |-> 0, last |-> 0, latest |-> 0]

Idle == [job |-> "idle", kind |-> "idle", id |-> None, now |-> 0, old |-> None, record |-> None,
         read |-> NoSummary, readOpp |-> NoActivity, write |-> NoSummary, writeOpp |-> NoActivity]
EndOf(r) == req' = [req EXCEPT ![r] = [Idle EXCEPT !.job = "done"]]

(* A customer imported with its archive may come with a date of its own.      *)
Init ==
  /\ followup = [f \in FollowUps |-> None]
  /\ \E d \in Days \cup {0} : customer = [NoSummary EXCEPT !.latest = d]
  /\ opportunity = NoActivity
  /\ clock = 0
  /\ req = [r \in Requests |-> Idle]
-----------------------------------------------------------------------------
Active == {r \in Requests : req[r].job \notin {"idle", "done"}}
MayStart(r) == req[r].job = "idle" /\ (OneAtATime => Active = {})

(* The transaction begins, which fixes now(); the handler's checks load the   *)
(* customer, and the record that is to be changed.                            *)
Begin(r, kind, f, record) ==
  /\ MayStart(r)
  /\ clock' = clock + 1
  /\ req' = [req EXCEPT ![r] = [@ EXCEPT !.job = kind, !.kind = kind, !.id = f, !.now = clock + 1, !.old = followup[f], !.record = record,
                                         !.read = customer, !.readOpp = opportunity]]
  /\ UNCHANGED <<followup, customer, opportunity>>

StartCreate(r) ==
  \E f \in FollowUps, d \in Days, n \in Days \cup {0}, o \in Opps \cup {None} :
    /\ followup[f] = None /\ \A s \in Requests : req[s].id # f
    /\ Begin(r, "create", f, [day |-> d, next |-> n, opp |-> o, created |-> clock + 1, updated |-> clock + 1])

(* An update that changes nothing writes no row and keeps its updated_at.     *)
StartUpdate(r) ==
  \E f \in FollowUps, d \in Days, n \in Days \cup {0}, o \in Opps \cup {None} :
    /\ followup[f] # None
    /\ LET new == [followup[f] EXCEPT !.day = d, !.next = n, !.opp = o]
       IN Begin(r, "update", f, IF new = followup[f] THEN new ELSE [new EXCEPT !.updated = clock + 1])

StartDelete(r) ==
  \E f \in FollowUps : followup[f] # None /\ Begin(r, "delete", f, None)

(* What the transaction sees after its flush: what is committed, and its own  *)
(* change; of a row only the columns that differ from what was read change.   *)
Column(now, read, new) == IF new = read THEN now ELSE new

Changed(r) ==
  LET q == req[r] IN
  IF q.kind = "update"
  THEN [c \in DOMAIN q.record |-> Column(followup[q.id][c], q.old[c], q.record[c])]
  ELSE q.record

View(r) == [followup EXCEPT ![req[r].id] = Changed(r)]

Newer(x, y) == x.day > y.day \/ (x.day = y.day /\ x.created > y.created)
LatestOf(rows) == CHOOSE x \in rows : \A y \in rows : y # x => Newer(x, y)
Rows(view) == {view[f] : f \in FollowUps} \ {None}

(* _refresh_customer_reminder                                                 *)
Reminder(rows, old, sync) ==
  IF rows = {} THEN [old EXCEPT !.next = 0, !.last = 0]
  ELSE LET x == LatestOf(rows)
       IN [next |-> x.next, last |-> x.updated, latest |-> IF sync THEN x.day ELSE old.latest]

(* _sync_opportunity_followup_activity                                        *)
LastOf(rows, o) == LET times == {x.updated : x \in {y \in rows : y.opp = o}} \cup {0}
                   IN CHOOSE t \in times : \A s \in times : s <= t
Done(a) == a.sent # 0 /\ a.last # 0 /\ a.last >= a.sent
Activity(rows, o, old) ==
  LET new == [old EXCEPT !.last = LastOf(rows, o)]
  IN [new EXCEPT !.due = @ /\ ~ Done(new)]

OppOf(record) == IF record = None THEN {} ELSE {record.opp}
NewOnly(r) == OppOf(req[r].record)
Touched(r) == OppOf(req[r].old) \cup OppOf(req[r].record)

(* The record is flushed, after another transaction that holds it has ended;  *)
(* a record deleted meanwhile can be deleted again, but not updated.          *)
Flush(r) ==
  LET rows == Rows(View(r)) IN
  /\ req[r].job \in {"create", "update", "delete"}
  /\ \A s \in Requests : req[s].job = "commit" => req[s].id # req[r].id
  /\ req[r].kind = "update" => followup[req[r].id] # None
  /\ req' = [req EXCEPT ![r].job = "commit",
       ![r].write = Reminder(rows, req[r].read, req[r].kind # "delete"),
       ![r].writeOpp = [o \in Opps |-> IF o \in Touched(r) THEN Activity(rows, o, req[r].readOpp[o])
                                                          ELSE req[r].readOpp[o]]]
  /\ UNCHANGED <<followup, customer, opportunity, clock>>

TooLate(r) ==
  /\ req[r].job = "update" /\ followup[req[r].id] = None
  /\ EndOf(r)
  /\ UNCHANGED <<followup, customer, opportunity, clock>>

Commit(r) ==
  LET q == req[r] IN
  /\ q.job = "commit"
  /\ followup' = View(r)
  /\ customer' = [c \in {"next", "last", "latest"} |-> Column(customer[c], q.read[c], q.write[c])]
  /\ opportunity' = [o \in Opps |->
       [c \in {"last", "sent", "due"} |-> Column(opportunity[o][c], q.readOpp[o][c], q.writeOpp[o][c])]]
  /\ EndOf(r)
  /\ UNCHANGED clock

(* mark_sent of a quotation of the opportunity: a quote task falls due.       *)
MarkSent(r, o) ==
  /\ MayStart(r)
  /\ clock' = clock + 1
  /\ opportunity' = [opportunity EXCEPT ![o].sent = clock + 1, ![o].due = TRUE]
  /\ EndOf(r)
  /\ UNCHANGED <<followup, customer>>

Finished == Active = {} /\ (\A r \in Requests : req[r].job = "done") /\ UNCHANGED vars

Next ==
  \/ \E r \in Requests :
       \/ StartCreate(r) \/ StartUpdate(r) \/ StartDelete(r) \/ Flush(r) \/ TooLate(r) \/ Commit(r)
       \/ \E o \in Opps : MarkSent(r, o)
  \/ Finished

Spec == Init /\ [][Next]_vars
-----------------------------------------------------------------------------
Quiet == Active = {}

(* "the latest follow-up for each customer defines its current reminder": the *)
(* columns of the customer are those of its latest record.                    *)
ReminderOfLatest ==
  Quiet => LET rows == Rows(followup) IN
    IF rows = {} THEN customer.next = 0 /\ customer.last = 0
    ELSE customer.next = LatestOf(rows).next /\ customer.last = LatestOf(rows).updated

(* An opportunity knows its last follow-up, also when a record moves from one *)
(* opportunity to another or is deleted.                                      *)
ActivityOfLast == Quiet => \A o \in Opps : opportunity[o].last = LastOf(Rows(followup), o)

(* "A follow-up recorded after sending a quote completes that quote task."    *)
QuoteTaskDone == Quiet => \A o \in Opps : opportunity[o].due => ~ Done(opportunity[o])

(* The archive date is not before the customer's latest record, since the     *)
(* cadence starts from it.                                                    *)
LatestCoversHistory ==
  Quiet => \A x \in Rows(followup) : customer.latest >= x.day

(* "Deletion does not overwrite an imported archive date": no deletion moves  *)
(* latest_followup_date.                                                      *)
DeletionKeepsDate ==
  (\E f \in FollowUps : followup[f] # None /\ followup'[f] = None) => customer'.latest = customer.latest

(* "Creating or editing a follow-up record updates latest_followup_date to    *)
(* the record's follow-up date": even when it is not the latest record.       *)
RecordedDateIsLatest ==
  [][\A r \in Requests : req[r].job = "commit" /\ req'[r].job = "done" /\ req[r].record # None
                           => customer'.latest = req[r].record.day]_vars
=============================================================================
