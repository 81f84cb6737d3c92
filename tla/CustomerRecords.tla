--------------------------- MODULE CustomerRecords --------------------------
(* customer_service: score, level and sales stage of a customer, with their   *)
(* histories, the contact rows under it and its guarded deletion, and what    *)
(* the archive import writes of them.  Requests read the row, then write the  *)
(* columns they found changed; the score history of a created or edited       *)
(* profile is a second transaction.                                           *)
EXTENDS Naturals, Sequences, FiniteSets

CONSTANTS
  Customers, Requests,
  None,
  Scores,      \* scores that are entered, of 0..100
  Stages,      \* sales stages that are chosen; "Lead" is the default
  OneAtATime,  \* requests are served one after another
  MayCrash     \* an instance may end between the two transactions

(* The defaults of the columns.                                               *)
Fresh == [score |-> 0, level |-> "C", status |-> "Lead", stage |-> "Lead"]
Levels == {"A", "B", "C"}
RowType == [score : Scores \cup {0}, level : Levels, status : Stages, stage : Stages]

RecordsAssumption ==
  /\ Scores \subseteq 0..100 /\ "Lead" \in Stages
  /\ None \notin Scores /\ None \notin Stages /\ None \notin Levels /\ None \notin RowType
  /\ OneAtATime \in BOOLEAN /\ MayCrash \in BOOLEAN

VARIABLES
  customer,   \* the rows: score, level, status and sales stage, or None
  scores,     \* the score history of each customer in the order it was committed
  moves,      \* the stage history of each, likewise
  contacts,   \* the customers contact rows belong to, one row each at most
  imported,   \* history: the customers whose stage an import changed after the last entry
  req         \* what each request does next, and the row it read

vars == <<customer, scores, moves, contacts, imported, req>>

LevelForScore(score) == IF score >= 80 THEN "A" ELSE IF score >= 50 THEN "B" ELSE "C"

Jobs == {"idle", "write", "history", "delete", "import", "done"}
NoJob == [job |-> "idle", on |-> None, seen |-> Fresh, entry |-> None]

(* A history entry.                                                           *)
Entry(old, new) == [old |-> old, new |-> new]
ScoreEntries == [old : Scores \cup {0, None}, new : Scores]
StageEntries == [old : Stages, new : Stages]

TypeOK ==
  /\ customer \in [Customers -> RowType \cup {None}]
  /\ scores \in [Customers -> Seq(ScoreEntries)]
  /\ moves \in [Customers -> Seq(StageEntries)]
  /\ contacts \subseteq Customers /\ imported \subseteq Customers
  /\ \A r \in Requests : req[r].job \in Jobs

Init ==
  /\ customer = [c \in Customers |-> None]
  /\ scores = [c \in Customers |-> <<>>] /\ moves = [c \in Customers |-> <<>>]
  /\ contacts = {} /\ imported = {}
  /\ req = [r \in Requests |-> NoJob]
-----------------------------------------------------------------------------
Exists(c) == customer[c] # None
Busy == {r \in Requests : req[r].job \notin {"idle", "done"}}
MayStart(r) == req[r].job = "idle" /\ (OneAtATime => Busy = {})
Goto(r, job) == req' = [req EXCEPT ![r].job = job]
Free(c) == c \notin contacts /\ scores[c] = <<>> /\ moves[c] = <<>>

(* An UPDATE names the columns that differ from what the request read         *)
(* (FirstWins: it would leave those another request changed).                 *)
FirstWins(now, seen, new) == IF now # seen THEN now ELSE new
Column(now, seen, new) == IF new = seen THEN now ELSE new
Saved(c, seen, new) == [k \in DOMAIN new |-> Column(customer[c][k], seen[k], new[k])]

(* The form's status and stage, kept equal, its level, and its score with the *)
(* level that wins over the form's; None leaves them alone.                   *)
Staged(row, s) == IF s = None THEN row ELSE [row EXCEPT !.status = s, !.stage = s]
Graded(row, l) == IF l = None THEN row ELSE [row EXCEPT !.level = l]
Scored(row, n) == IF n = None THEN row ELSE [row EXCEPT !.score = n, !.level = LevelForScore(n)]

CreateCustomer(r) ==
  /\ MayStart(r)
  /\ \E c \in Customers, n \in Scores \cup {None}, s \in Stages, l \in Levels :
       /\ ~Exists(c) /\ scores[c] = <<>> /\ c \notin contacts
       /\ customer' = [customer EXCEPT ![c] = Scored(Graded(Staged(Fresh, s), l), n)]
       /\ req' = [req EXCEPT ![r] = IF n = None THEN [NoJob EXCEPT !.job = "done"]
                                    ELSE [NoJob EXCEPT !.job = "history", !.on = c, !.entry = Entry(None, n)]]
  /\ UNCHANGED <<scores, moves, contacts, imported>>

ReadCustomer(r) ==
  /\ MayStart(r)
  /\ \E c \in Customers, job \in {"write", "delete", "import"} :
       /\ Exists(c)
       /\ job = "delete" => Free(c)
       /\ req' = [req EXCEPT ![r] = [job |-> job, on |-> c, seen |-> customer[c], entry |-> None]]
  /\ UNCHANGED <<customer, scores, moves, contacts, imported>>

(* update_customer: the profile and the stage history in one transaction; a   *)
(* changed score leaves its entry for the second.                             *)
UpdateProfile(r) ==
  /\ req[r].job = "write" /\ Exists(req[r].on)
  /\ \E n \in Scores \cup {None}, s \in Stages \cup {None}, l \in Levels \cup {None} :
       LET c == req[r].on  seen == req[r].seen  new == Scored(Graded(Staged(seen, s), l), n) IN
       /\ customer' = [customer EXCEPT ![c] = Saved(c, seen, new)]
       /\ moves' = IF new.stage # seen.stage THEN [moves EXCEPT ![c] = Append(@, Entry(seen.stage, new.stage))] ELSE moves
       /\ imported' = IF new.stage # seen.stage THEN imported \ {c} ELSE imported
       /\ req' = [req EXCEPT ![r] = IF new.score = seen.score THEN [NoJob EXCEPT !.job = "done"]
                                    ELSE [@ EXCEPT !.job = "history", !.entry = Entry(seen.score, n)]]
  /\ UNCHANGED <<scores, contacts>>

(* update_customer_score: score, level and history in one transaction.        *)
UpdateScore(r) ==
  /\ req[r].job = "write" /\ Exists(req[r].on)
  /\ \E n \in Scores :
       LET c == req[r].on  seen == req[r].seen IN
       /\ customer' = [customer EXCEPT ![c] = Saved(c, seen, Scored(seen, n))]
       /\ scores' = [scores EXCEPT ![c] = Append(@, Entry(seen.score, n))]
  /\ Goto(r, "done") /\ UNCHANGED <<moves, contacts, imported>>

(* The second transaction; none when the customer has gone meanwhile.         *)
WriteHistory(r) ==
  /\ req[r].job = "history"
  /\ scores' = IF Exists(req[r].on) THEN [scores EXCEPT ![req[r].on] = Append(@, req[r].entry)] ELSE scores
  /\ Goto(r, "done") /\ UNCHANGED <<customer, moves, contacts, imported>>

Crash(r) ==
  /\ MayCrash /\ req[r].job \in {"write", "history", "delete", "import"} /\ Goto(r, "done")
  /\ UNCHANGED <<customer, scores, moves, contacts, imported>>

(* import_customer_archive: a row of the workbook makes a customer or, in one *)
(* it matches, overwrites the stage and the status if its stage has an        *)
(* equivalent, with no entry in the history; it makes the missing contact.    *)
ImportNew(r) ==
  /\ MayStart(r)
  /\ \E c \in Customers, s \in Stages \cup {None} :
       /\ ~Exists(c) /\ scores[c] = <<>> /\ c \notin contacts
       /\ customer' = [customer EXCEPT ![c] = Staged(Fresh, s)]
       /\ contacts' \in {contacts, contacts \cup {c}}
  /\ Goto(r, "done") /\ UNCHANGED <<scores, moves, imported>>

ImportRow(r) ==
  /\ req[r].job = "import" /\ Exists(req[r].on)
  /\ \E s \in Stages \cup {None} :
       LET c == req[r].on  seen == req[r].seen  row == Saved(c, seen, Staged(seen, s)) IN
       /\ customer' = [customer EXCEPT ![c] = row]
       /\ imported' = IF row.stage # customer[c].stage THEN imported \cup {c} ELSE imported
       /\ contacts' \in {contacts, contacts \cup {c}}
  /\ Goto(r, "done") /\ UNCHANGED <<scores, moves>>

CreateContact(r) ==
  /\ MayStart(r)
  /\ \E c \in Customers : Exists(c) /\ c \notin contacts /\ contacts' = contacts \cup {c}
  /\ Goto(r, "done") /\ UNCHANGED <<customer, scores, moves, imported>>

(* The dependencies were counted when the row was read; the foreign keys are  *)
(* checked again when the deletion commits (CountOnly: they are not).         *)
CountOnly(c) == TRUE
ForeignKeys(c) == Free(c)

Delete(r) ==
  /\ req[r].job = "delete"
  /\ customer' = IF ForeignKeys(req[r].on) THEN [customer EXCEPT ![req[r].on] = None] ELSE customer
  /\ Goto(r, "done") /\ UNCHANGED <<scores, moves, contacts, imported>>

(* An update of a row that is gone changes nothing.                           *)
TooLate(r) ==
  /\ req[r].job \in {"write", "import"} /\ ~Exists(req[r].on) /\ Goto(r, "done")
  /\ UNCHANGED <<customer, scores, moves, contacts, imported>>

Finished == Busy = {} /\ UNCHANGED vars

Next ==
  \/ \E r \in Requests :
       \/ CreateCustomer(r) \/ ReadCustomer(r) \/ UpdateProfile(r) \/ UpdateScore(r) \/ WriteHistory(r)
       \/ Crash(r) \/ ImportNew(r) \/ ImportRow(r) \/ CreateContact(r) \/ Delete(r) \/ TooLate(r)
  \/ Finished

Spec == Init /\ [][Next]_vars
-----------------------------------------------------------------------------
(* The legacy status and the sales stage never come apart, although every     *)
(* request writes only the columns it found changed.                          *)
StagesInSync == \A c \in Customers : Exists(c) => customer[c].status = customer[c].stage

(* "Saving a score automatically maps" it to its level: whatever level a      *)
(* client chose before, a score that changes brings its level with it.        *)
ScoreMapsLevel ==
  \A c \in Customers :
    Exists(c) /\ Exists(c)' /\ customer[c].score' # customer[c].score
      => customer[c].level' = LevelForScore(customer[c].score')

(* The score history tells the whole story: each entry starts where the one   *)
(* before ended, and the last is the score.                                   *)
Tells(h, start, now) ==
  /\ \A i \in 2..Len(h) : h[i].old = h[i - 1].new
  /\ IF h = <<>> THEN now = start ELSE h[Len(h)].new = now
ScoresOnRecord ==
  Busy = {} => \A c \in Customers : Exists(c) => Tells(scores[c], 0, customer[c].score)

(* So does the stage history, whatever stage the customer was created in; in  *)
(* any order of overlapping edits and imports its last entry is the stage     *)
(* shown, unless an import has changed the stage since.                       *)
StagesOnRecord ==
  \A c \in Customers \ imported : Exists(c) /\ moves[c] # <<>> => moves[c][Len(moves[c])].new = customer[c].stage

(* A deletion takes no customer that has contacts or histories by the time it *)
(* commits, whatever was added since the dependencies were counted.           *)
DeletionIsSafe == \A c \in Customers : Exists(c) /\ ~Exists(c)' => Free(c)
=============================================================================
