------------------------- MODULE QuotationLifecycle -------------------------
(* The life of quotations: drafts, their saved lines, versions, sending, and  *)
(* the daily number.  Requests run as in DealOrders: READ COMMITTED, each in  *)
(* a session that keeps what it loaded, so that an UPDATE names the columns   *)
(* changed against the loading and a replaced collection deletes the rows it  *)
(* had loaded.  One save writes one batch of lines, known here by the save's  *)
(* serial number; an opportunity made for a quotation carries the serial of   *)
(* the save that made it, and 0 is one that was made by hand.                 *)
EXTENDS Integers, FiniteSets

CONSTANTS
  Quotes,     \* ids the quotations table may ever hand out
  Sessions,   \* the requests that may be in flight together
  None,       \* NULL, and "nobody"
  Kinds,      \* the operations clients call in this instance
  MaxVersion, \* bound: versions of one quotation
  MaxSave     \* bound: saves of lines in a behaviour

AllKinds == {"create", "update", "createVersion", "generatePdf", "markSent", "delete"}

ASSUME BoundsAssumption ==
  /\ MaxVersion \in Nat \ {0} /\ MaxSave \in Nat
  /\ Kinds \subseteq AllKinds /\ IsFiniteSet(Quotes)
  /\ None \notin Sessions \cup Quotes \cup Nat

VARIABLES
  rowState,  \* quotations: "unborn", "live" or "deleted"
  number,    \* quotations.quotation_number: N of SLQ-YYYYMMDD-N, for one day
  status,    \* quotations.status
  current,   \* quotations.current_version
  link,      \* quotations.opportunity_id
  versions,  \* quotation_versions with their items, by quotation and number
  opps,      \* the customer's opportunities
  oppLines,  \* opportunity_products, by opportunity
  due,       \* opportunities with a quote_followup_due_date
  saves,     \* how many batches of lines have been sent in by clients
  dayLock,   \* who holds the advisory lock of the day's numbers
  linkLock,  \* who holds the customer's advisory lock for linking
  pc, job, snap

rows == <<rowState, number, status, current, link, versions>>
deals == <<opps, oppLines, due>>
locks == <<dayLock, linkLock>>
sessions == <<pc, job, snap>>
vars == <<rows, deals, saves, locks, sessions>>

Serials == 1..MaxSave
Lines == SUBSET Serials

(* A version: the rows of quotation_items, the batch its subtotal was added   *)
(* up from (0 when it has no lines), and whether pdf_url is set.              *)
VersionRows == [lines : Lines, total : 0..MaxSave, pdf : BOOLEAN]
ASSUME NoneAssumption == None \notin VersionRows

NoVersion == [lines |-> {}, total |-> 0, pdf |-> FALSE]

Jobs == [kind : AllKinds \cup {"none"}, quote : Quotes \cup {None},
         serial : 0..MaxSave, opp : 0..MaxSave \cup {None}, no : Nat]
Snapshots == [current : 1..MaxVersion, link : 0..MaxSave \cup {None},
              version : VersionRows, oppLines : Lines]

NoJob == [kind |-> "none", quote |-> None, serial |-> 0, opp |-> None, no |-> 0]
NoSnap == [current |-> 1, link |-> None, version |-> NoVersion, oppLines |-> {}]

TypeOK ==
  /\ rowState \in [Quotes -> {"unborn", "live", "deleted"}]
  /\ number \in [Quotes -> Nat]
  /\ status \in [Quotes -> {"Draft", "Sent"}]
  /\ current \in [Quotes -> 1..MaxVersion]
  /\ link \in [Quotes -> 0..MaxSave \cup {None}]
  /\ versions \in [Quotes -> [1..MaxVersion -> VersionRows \cup {None}]]
  /\ opps \subseteq 0..MaxSave /\ due \subseteq opps
  /\ oppLines \in [0..MaxSave -> Lines]
  /\ saves \in 0..MaxSave
  /\ dayLock \in Sessions \cup {None} /\ linkLock \in Sessions \cup {None}
  /\ pc \in [Sessions -> {"idle", "link", "number", "insert", "commit"}]
  /\ job \in [Sessions -> Jobs]
  /\ snap \in [Sessions -> Snapshots]

Init ==
  /\ rowState = [q \in Quotes |-> "unborn"]
  /\ number = [q \in Quotes |-> 0]
  /\ status = [q \in Quotes |-> "Draft"]
  /\ current = [q \in Quotes |-> 1]
  /\ link = [q \in Quotes |-> None]
  /\ versions = [q \in Quotes |-> [n \in 1..MaxVersion |-> None]]
  /\ opps = {0} /\ due = {}
  /\ oppLines = [o \in 0..MaxSave |-> {}]
  /\ saves = 0
  /\ dayLock = None /\ linkLock = None
  /\ pc = [s \in Sessions |-> "idle"]
  /\ job = [s \in Sessions |-> NoJob]
  /\ snap = [s \in Sessions |-> NoSnap]
-----------------------------------------------------------------------------
Live(q) == rowState[q] = "live"
Committed == {q \in Quotes : Live(q)}

(* The end of a session's transaction: the transaction-level locks go.        *)
Release(s) ==
  /\ dayLock' = IF dayLock = s THEN None ELSE dayLock
  /\ linkLock' = IF linkLock = s THEN None ELSE linkLock
  /\ pc' = [pc EXCEPT ![s] = "idle"]
  /\ job' = [job EXCEPT ![s] = NoJob]
  /\ snap' = [snap EXCEPT ![s] = NoSnap]

Rollback(s) == Release(s) /\ UNCHANGED <<rows, deals, saves>>

(* What replacing a loaded collection leaves: the rows that had been loaded   *)
(* are deleted (a row already gone is only warned about) and new ones added.  *)
Replaced(stored, loaded, new) == (stored \ loaded) \cup new

(* A payload with lines starts a new batch, one without leaves serial 0.      *)
NextSerial(withItems) == IF withItems THEN saves + 1 ELSE 0
-----------------------------------------------------------------------------
(* create_quotation for an opportunity o, or for the customer when o = None;  *)
(* customer-first creation may start as an empty draft.  The row is inserted  *)
(* under a temporary number before the daily one is taken.                    *)
StartCreate(s, q, o, withItems) ==
  /\ pc[s] = "idle" /\ "create" \in Kinds
  /\ rowState[q] = "unborn" /\ \A r \in Sessions : job[r].quote # q
  /\ o # None => o \in opps /\ withItems
  /\ withItems => saves < MaxSave
  /\ saves' = saves + (IF withItems THEN 1 ELSE 0)
  /\ job' = [job EXCEPT ![s] = [kind |-> "create", quote |-> q, opp |-> o, no |-> 0,
                                serial |-> NextSerial(withItems)]]
  /\ pc' = [pc EXCEPT ![s] = IF withItems /\ o = None THEN "link" ELSE "number"]
  /\ UNCHANGED <<rows, deals, locks, snap>>

(* create_or_link_quotation_opportunity under the customer's lock: reuse the  *)
(* one open opportunity with the same products and currency (which opportunity*)
(* that is, if any, is left open), or make a new one.                         *)
Link(s) ==
  /\ pc[s] = "link" /\ linkLock = None
  /\ linkLock' = s
  /\ \E o \in opps \cup {job[s].serial} :
       /\ job' = [job EXCEPT ![s].opp = o]
       /\ snap' = [snap EXCEPT ![s].oppLines = oppLines[o]]
  /\ pc' = [pc EXCEPT ![s] = IF job[s].kind = "create" THEN "number" ELSE "commit"]
  /\ UNCHANGED <<rows, deals, saves, dayLock>>

(* _next_quotation_number: the day's lock, then the highest committed suffix  *)
(* plus one; by counting the rows it would run into numbers already given.    *)
NumberByCount(s) == Cardinality(Committed) + 1
HighestNumber == CHOOSE n \in {0} \cup {number[q] : q \in Committed} :
                   \A q \in Committed : number[q] <= n
NextNumber(s) == HighestNumber + 1

TakeNumber(s) ==
  /\ pc[s] = "number" /\ dayLock = None
  /\ dayLock' = s
  /\ job' = [job EXCEPT ![s].no = NextNumber(s)]
  /\ pc' = [pc EXCEPT ![s] = "insert"]
  /\ UNCHANGED <<rows, deals, saves, linkLock, snap>>

(* The opportunity as the session writes it: the batch just saved replaces    *)
(* the product lines it had loaded, whether it was made, reused or synced.    *)
SyncDeal(s, o, lines) ==
  IF o = None \/ lines = {} THEN UNCHANGED <<opps, oppLines>>
  ELSE /\ opps' = opps \cup {o}
       /\ oppLines' = [oppLines EXCEPT ![o] = Replaced(@, snap[s].oppLines, lines)]

(* The commit of a creation.  An opportunity the client named stays as it is. *)
OfBatch(serial) == IF serial = 0 THEN {} ELSE {serial}

CommitCreate(s) ==
  LET j == job[s] IN
  /\ pc[s] = "insert"
  /\ IF \E q \in Committed : number[q] = j.no THEN Rollback(s)
     ELSE /\ rowState' = [rowState EXCEPT ![j.quote] = "live"]
          /\ number' = [number EXCEPT ![j.quote] = j.no]
          /\ status' = [status EXCEPT ![j.quote] = "Draft"]
          /\ current' = [current EXCEPT ![j.quote] = 1]
          /\ link' = [link EXCEPT ![j.quote] = j.opp]
          /\ versions' = [versions EXCEPT ![j.quote][1] =
               [lines |-> OfBatch(j.serial), total |-> j.serial, pdf |-> FALSE]]
          /\ IF linkLock = s THEN SyncDeal(s, j.opp, OfBatch(j.serial))
                             ELSE UNCHANGED <<opps, oppLines>>
          /\ Release(s)
          /\ UNCHANGED <<due, saves>>
-----------------------------------------------------------------------------
(* _load_quotation: the row, its current version with items, its opportunity. *)
Loaded(q) ==
  [current |-> current[q], link |-> link[q], version |-> versions[q][current[q]],
   oppLines |-> IF link[q] = None THEN {} ELSE oppLines[link[q]]]

(* update_quotation: refused unless Draft; lines given without an opportunity *)
(* take the linking path, otherwise the linked opportunity is synchronized.   *)
LinesToSave(serial, loaded) == IF serial = 0 THEN loaded.lines ELSE {serial}

HasLines(q, serial) == LinesToSave(serial, Loaded(q).version) # {}
NeedsDeal(q, serial) == link[q] = None /\ HasLines(q, serial)

EditAnything(s, q, withItems) ==
  /\ pc[s] = "idle" /\ "update" \in Kinds /\ Live(q)
  /\ withItems => saves < MaxSave
  /\ saves' = saves + (IF withItems THEN 1 ELSE 0)
  /\ job' = [job EXCEPT ![s] = [kind |-> "update", quote |-> q, opp |-> link[q], no |-> 0,
                                serial |-> NextSerial(withItems)]]
  /\ snap' = [snap EXCEPT ![s] = Loaded(q)]
  /\ pc' = [pc EXCEPT ![s] = IF NeedsDeal(q, NextSerial(withItems)) THEN "link" ELSE "commit"]
  /\ UNCHANGED <<rows, deals, locks>>

StartUpdate(s, q, withItems) == status[q] = "Draft" /\ EditAnything(s, q, withItems)

(* The edit lands on the version that was current when it was loaded; pdf_url *)
(* is cleared if it was loaded set; the totals are those of the session.      *)
Edited(stored, loaded, serial) ==
  [lines |-> IF serial = 0 THEN stored.lines ELSE Replaced(stored.lines, loaded.lines, {serial}),
   total |-> IF serial = 0 THEN loaded.total ELSE serial,
   pdf   |-> stored.pdf /\ ~ loaded.pdf]

CommitUpdate(s) ==
  LET q == job[s].quote
      loaded == snap[s].version
  IN /\ pc[s] = "commit" /\ job[s].kind = "update"
     /\ IF ~ Live(q) THEN Rollback(s)
        ELSE /\ versions' = [versions EXCEPT ![q][snap[s].current] =
                               Edited(@, loaded, job[s].serial)]
             /\ link' = IF linkLock = s THEN [link EXCEPT ![q] = job[s].opp] ELSE link
             /\ SyncDeal(s, job[s].opp, LinesToSave(job[s].serial, loaded))
             /\ Release(s)
             /\ UNCHANGED <<rowState, number, status, current, due, saves>>
-----------------------------------------------------------------------------
(* create_version copies the current version of a quotation that is no longer *)
(* a Draft into a new row and makes it the current Draft.                     *)
LoadFor(kind, s, q) ==
  /\ pc[s] = "idle" /\ kind \in Kinds /\ Live(q)
  /\ job' = [job EXCEPT ![s] = [NoJob EXCEPT !.kind = kind, !.quote = q]]
  /\ snap' = [snap EXCEPT ![s] = Loaded(q)]
  /\ pc' = [pc EXCEPT ![s] = "commit"]
  /\ UNCHANGED <<rows, deals, saves, locks>>

StartVersion(s, q) == status[q] # "Draft" /\ current[q] < MaxVersion /\ LoadFor("createVersion", s, q)

(* uq_quotation_version_no decides between two that chose the same number.    *)
NeverTaken(q, n) == TRUE
VersionFree(q, n) == versions[q][n] = None

CommitVersion(s) ==
  LET q == job[s].quote
      n == snap[s].current + 1
  IN /\ pc[s] = "commit" /\ job[s].kind = "createVersion"
     /\ IF ~ Live(q) \/ ~ VersionFree(q, n) THEN Rollback(s)
        ELSE /\ versions' = [versions EXCEPT ![q][n] = [snap[s].version EXCEPT !.pdf = FALSE]]
             /\ current' = [current EXCEPT ![q] = n]
             /\ status' = [status EXCEPT ![q] = "Draft"]
             /\ Release(s)
             /\ UNCHANGED <<rowState, number, link, deals, saves>>

(* generate_pdf marks a version of any number; the document itself is         *)
(* rendered again at every download.                                          *)
GeneratePdf(q, n) ==
  /\ "generatePdf" \in Kinds /\ Live(q) /\ versions[q][n] # None
  /\ versions' = [versions EXCEPT ![q][n].pdf = TRUE]
  /\ UNCHANGED <<rowState, number, status, current, link, deals, saves, locks, sessions>>

(* mark_sent: only a Draft; sets pdf_url if it was loaded unset, and the      *)
(* three-day follow-up task of the opportunity.                               *)
StartSend(s, q) == status[q] = "Draft" /\ LoadFor("markSent", s, q)

TaskOf(o) == IF o = None THEN {} ELSE {o}

CommitSend(s) ==
  LET q == job[s].quote IN
  /\ pc[s] = "commit" /\ job[s].kind = "markSent"
  /\ IF ~ Live(q) THEN Rollback(s)
     ELSE /\ versions' = [versions EXCEPT ![q][snap[s].current].pdf = @ \/ ~ snap[s].version.pdf]
          /\ status' = [status EXCEPT ![q] = "Sent"]
          /\ due' = due \cup TaskOf(snap[s].link)
          /\ Release(s)
          /\ UNCHANGED <<rowState, number, current, link, opps, oppLines, saves>>

(* delete_quotation cascades to versions and items and keeps the opportunity. *)
DeleteQuotation(q) ==
  /\ "delete" \in Kinds /\ Live(q)
  /\ rowState' = [rowState EXCEPT ![q] = "deleted"]
  /\ number' = [number EXCEPT ![q] = 0]
  /\ link' = [link EXCEPT ![q] = None]
  /\ status' = [status EXCEPT ![q] = "Draft"]
  /\ current' = [current EXCEPT ![q] = 1]
  /\ versions' = [versions EXCEPT ![q] = [n \in DOMAIN versions[q] |-> None]]
  /\ UNCHANGED <<deals, saves, locks, sessions>>

(* A request can end at any point: a lost connection, a killed instance.      *)
Fail(s) == pc[s] # "idle" /\ Rollback(s)

Start(s) ==
  \/ \E q \in Quotes, o \in opps \cup {None}, b \in BOOLEAN : StartCreate(s, q, o, b)
  \/ \E q \in Quotes, b \in BOOLEAN : StartUpdate(s, q, b)
  \/ \E q \in Quotes : StartVersion(s, q) \/ StartSend(s, q)

Step(s) ==
  \/ Link(s) \/ TakeNumber(s) \/ CommitCreate(s)
  \/ CommitUpdate(s) \/ CommitVersion(s) \/ CommitSend(s)

Next ==
  \/ \E s \in Sessions : Start(s) \/ Step(s) \/ Fail(s)
  \/ \E q \in Quotes, n \in 1..MaxVersion : GeneratePdf(q, n)
  \/ \E q \in Quotes : DeleteQuotation(q)

Spec == Init /\ [][Next]_vars
-----------------------------------------------------------------------------
(* A number is allocated above every number in use that day and stays so      *)
(* until its quotation is inserted, whatever is created or deleted meanwhile: *)
(* "gaps are never reused by count", and two creations never clash.           *)
NumberAboveAll ==
  \A s \in Sessions : pc[s] = "insert" =>
    /\ dayLock = s
    /\ \A q \in Committed : number[q] < job[s].no

(* Overlapping create_version calls never skip or double a version: a live    *)
(* quotation has exactly the versions 1 to current_version, so the current    *)
(* one is always there to be shown, sent and ordered (_version would raise    *)
(* NotFoundError).                                                            *)
VersionsContiguous ==
  \A q \in Committed, n \in 1..MaxVersion : versions[q][n] # None <=> n <= current[q]

(* No session has loaded a version number the quotation has not reached, and  *)
(* only live quotations keep rows: what VersionsContiguous rests on.          *)
LoadedBehind ==
  \A s \in Sessions :
    job[s].kind \in {"update", "createVersion", "markSent"} /\ Live(job[s].quote)
      => snap[s].current <= current[job[s].quote]

Locked(q, n) == Live(q) /\ (n < current[q] \/ (n = current[q] /\ status[q] = "Sent"))

(* "Sent quotation versions are immutable" (update_quotation): lines and      *)
(* totals of a version that was sent, or superseded, never change again.      *)
SentStays ==
  \A q \in Quotes, n \in 1..MaxVersion :
    Locked(q, n) /\ rowState'[q] = "live" =>
      /\ versions'[q][n].lines = versions[q][n].lines
      /\ versions'[q][n].total = versions[q][n].total
SentStaysAsSent == [][SentStays]_vars

(* The lines of every version are one saved batch, and its subtotal was added *)
(* up from just these lines: no save is mixed with another.                   *)
TotalsAddUp ==
  \A q \in Committed, n \in 1..MaxVersion : versions[q][n] # None =>
    versions[q][n].lines = OfBatch(versions[q][n].total)

(* "Each product may only appear once in a quotation version" (_build_items): *)
(* a batch is checked for it, so a version must not hold lines of two batches.*)
ProductsAppearOnce ==
  \A q \in Committed, n \in 1..MaxVersion :
    versions[q][n] # None => Cardinality(versions[q][n].lines) <= 1

(* A quotation keeps the opportunity it was linked to: a save never leaves    *)
(* one opportunity for another (the deserted one would keep an amount and     *)
(* product lines nobody maintains).                                           *)
LinkStays ==
  \A q \in Quotes : Live(q) /\ link[q] # None /\ rowState'[q] = "live" => link'[q] = link[q]
LinkIsKept == [][LinkStays]_vars

(* A quotation that counts as Sent has a PDF to download (get_pdf_bytes would *)
(* answer "Generate this quotation version PDF first") and, when it belongs   *)
(* to an opportunity, has set that opportunity's follow-up task.              *)
SentIsDelivered ==
  \A q \in Committed : status[q] = "Sent" =>
    /\ versions[q][current[q]].pdf
    /\ link[q] # None => link[q] \in due

=============================================================================
