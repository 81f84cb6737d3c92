----------------------------- MODULE DealOrders -----------------------------
(* Opportunities, the quotations linked to them and the order ledger, under   *)
(* concurrent HTTP requests.  Every request runs in a database transaction of *)
(* its own (READ COMMITTED) on its own thread or serverless instance, so each *)
(* statement sees what has been committed by then, plus what the request has  *)
(* flushed itself, while the objects it loaded stay as they were loaded.      *)
(* One action is one statement (or a run of statements nothing can usefully   *)
(* come between) of opportunity_service, order_service or quotation_service.  *)
EXTENDS PipelineStages, FiniteSets

CONSTANTS
  Opps,       \* ids the opportunities table may ever hand out
  Quotes,     \* ids the quotations table may ever hand out
  Requests,   \* the requests that may be in flight together
  Numbers,    \* order numbers; quotation q carries the number q
  None,       \* NULL, and "nobody"
  Kinds,      \* the operations clients call in this instance
  Asked       \* the stage fields they put in their payloads

AllKinds == {"createOpportunity", "update", "deleteOpportunity", "order",
             "backfill", "renumber", "deleteOrder", "createQuotation",
             "deleteQuotation", "link"}

ASSUME ConstantsAssumption ==
  /\ None \notin Opps \cup Quotes \cup Requests \cup Numbers
  /\ Quotes \subseteq Numbers
  /\ Kinds \subseteq AllKinds
  /\ Asked \subseteq Asks

VARIABLES
  oppState,   \* opportunities: "unborn", "live" or "deleted"
  stageOf,    \* opportunities: the three stage columns
  quoteState, \* quotations: "unborn", "live" or "deleted"
  quoteOpp,   \* quotations.opportunity_id
  orders,     \* the rows of the orders table
  lock,       \* who holds the row lock of an opportunity across statements
  linkLock,   \* who holds the customer's advisory lock for quotation linking
  pc,         \* the statement a request executes next
  job,        \* what a request was asked to do, with what it has chosen so far
  snap,       \* what a request has loaded
  ins,        \* order rows a request has flushed and not committed
  todo        \* Won opportunities a backfill has still to visit

tables == <<oppState, stageOf, quoteState, quoteOpp, orders>>
vars == <<oppState, stageOf, quoteState, quoteOpp, orders, lock, linkLock,
          pc, job, snap, ins, todo>>

RowStates == {"unborn", "live", "deleted"}

OrderRows == [no : Numbers, opp : Opps \cup {None}, quote : Quotes \cup {None}]

ControlPoints == {"idle", "findOrder", "findQuoteOrder", "validate", "lock",
                  "recheck", "insert", "commit", "scan", "delete", "match", "link"}

Jobs == [kind   : Kinds \cup {"none"},
         opp    : Opps \cup {None},
         quote  : Quotes \cup {None},
         no     : Numbers \cup {None},
         target : Triples]

Snapshots == [stage : Triples, links : [Quotes -> Opps \cup {None}]]

TypeOK ==
  /\ oppState \in [Opps -> RowStates]
  /\ stageOf \in [Opps -> Triples]
  /\ quoteState \in [Quotes -> RowStates]
  /\ quoteOpp \in [Quotes -> Opps \cup {None}]
  /\ orders \subseteq OrderRows
  /\ lock \in [Opps -> Requests \cup {None}]
  /\ linkLock \in Requests \cup {None}
  /\ pc \in [Requests -> ControlPoints]
  /\ job \in [Requests -> Jobs]
  /\ snap \in [Requests -> Snapshots]
  /\ ins \in [Requests -> SUBSET OrderRows]
  /\ todo \in [Requests -> SUBSET Opps]

NewLead == OfSales("NewLead")

NoJob == [kind |-> "none", opp |-> None, quote |-> None, no |-> None, target |-> NewLead]

NoSnap == [stage |-> NewLead, links |-> [q \in Quotes |-> None]]

(* A database as the migrations and earlier sequential use leave it: stage    *)
(* triples are coherent, quotations hang on a live opportunity or on none,    *)
(* and the ledger may still be empty although opportunities are Won.          *)
Init ==
  /\ oppState \in [Opps -> {"unborn", "live"}]
  /\ stageOf \in [Opps -> {Resolve(ask) : ask \in Asked} \cup {NewLead}]
  /\ \A o \in Opps : oppState[o] = "unborn" => stageOf[o] = NewLead
  /\ quoteState \in [Quotes -> {"unborn", "live"}]
  /\ quoteOpp \in [Quotes -> Opps \cup {None}]
  /\ \A q \in Quotes : /\ quoteState[q] = "unborn" => quoteOpp[q] = None
                       /\ quoteOpp[q] # None => oppState[quoteOpp[q]] = "live"
  /\ orders = {}
  /\ lock = [o \in Opps |-> None]
  /\ linkLock = None
  /\ pc = [r \in Requests |-> "idle"]
  /\ job = [r \in Requests |-> NoJob]
  /\ snap = [r \in Requests |-> NoSnap]
  /\ ins = [r \in Requests |-> {}]
  /\ todo = [r \in Requests |-> {}]
-----------------------------------------------------------------------------
LiveOpp(o) == oppState[o] = "live"
LiveQuote(q) == quoteState[q] = "live"

(* The order rows a statement of r sees.                                      *)
Visible(r) == orders \cup ins[r]

OpportunityHasOrder(r, o) == \E x \in Visible(r) : x.opp = o
QuotationHasOrder(r, q) == \E x \in Visible(r) : x.quote = q

(* Opportunity.quotations as a selectin load returns it, for a set of them.   *)
LinksTo(S) == [q \in Quotes |-> IF LiveQuote(q) /\ quoteOpp[q] \in S THEN quoteOpp[q] ELSE None]

(* Nobody writes Accepted, Rejected or Expired, so every linked quotation is  *)
(* active and the choice is unambiguous exactly when there is one.            *)
Unambiguous(r, o, q) == {p \in Quotes : snap[r].links[p] = o} = {q}

(* The advisory lock when r's transaction ends: it is a transaction-level one *)
(* (pg_advisory_xact_lock); a session-level one would be kept.                *)
KeepLinkLock(r) == linkLock
FreeLinkLock(r) == IF linkLock = r THEN None ELSE linkLock

(* The end of a request's transaction: its locks go, its session is closed.   *)
Release(r) ==
  /\ lock' = [o \in Opps |-> IF lock[o] = r THEN None ELSE lock[o]]
  /\ linkLock' = FreeLinkLock(r)
  /\ pc' = [pc EXCEPT ![r] = "idle"]
  /\ job' = [job EXCEPT ![r] = NoJob]
  /\ snap' = [snap EXCEPT ![r] = NoSnap]
  /\ ins' = [ins EXCEPT ![r] = {}]
  /\ todo' = [todo EXCEPT ![r] = {}]

Rollback(r) == Release(r) /\ UNCHANGED tables

(* A step that only moves control, after a read.                              *)
Goto(r, point) ==
  /\ pc' = [pc EXCEPT ![r] = point]
  /\ UNCHANGED <<tables, lock, linkLock, job, snap, ins, todo>>
-----------------------------------------------------------------------------
(* update_opportunity.  The row and its quotations are loaded, the payload is *)
(* resolved against what was loaded, and only a request that enters Won goes  *)
(* on to the order workflow before it commits.                                *)
LoadOpportunity(r, o, ask) ==
  /\ pc[r] = "idle" /\ "update" \in Kinds
  /\ LiveOpp(o) /\ NamesAStage(ask)
  /\ job' = [job EXCEPT ![r] = [NoJob EXCEPT !.kind = "update", !.opp = o, !.target = Resolve(ask)]]
  /\ snap' = [snap EXCEPT ![r] = [stage |-> stageOf[o], links |-> LinksTo({o})]]
  /\ pc' = [pc EXCEPT ![r] = IF EntersWon(stageOf[o], Resolve(ask)) THEN "findOrder" ELSE "commit"]
  /\ UNCHANGED <<tables, lock, linkLock, ins, todo>>

ChooseQuotation(r, o, q) ==
  /\ job' = [job EXCEPT ![r] = [@ EXCEPT !.opp = o, !.quote = q, !.no = q]]
  /\ pc' = [pc EXCEPT ![r] = "findQuoteOrder"]

(* An order the opportunity already has is reused; otherwise its only         *)
(* quotation becomes the source, and without exactly one the request fails.   *)
FindOrder(r) ==
  LET o == job[r].opp IN
  /\ pc[r] = "findOrder"
  /\ \/ OpportunityHasOrder(r, o) /\ Goto(r, "commit")
     \/ /\ ~ OpportunityHasOrder(r, o)
        /\ \E q \in Quotes : Unambiguous(r, o, q) /\ ChooseQuotation(r, o, q)
        /\ UNCHANGED <<tables, lock, linkLock, snap, ins, todo>>
     \/ /\ ~ OpportunityHasOrder(r, o)
        /\ \A q \in Quotes : ~ Unambiguous(r, o, q)
        /\ Rollback(r)

AfterOrder(r) == IF job[r].kind = "backfill" THEN "scan" ELSE "commit"

(* An order of the chosen quotation is reused when it is this opportunity's.  *)
SourceUsed(r) == QuotationHasOrder(r, job[r].quote)

SourceUsedHere(r) == \E x \in Visible(r) : x.quote = job[r].quote /\ x.opp = job[r].opp

FindQuoteOrder(r) ==
  /\ pc[r] = "findQuoteOrder"
  /\ \/ ~ SourceUsed(r) /\ Goto(r, "validate")
     \/ SourceUsed(r) /\ SourceUsedHere(r) /\ Goto(r, AfterOrder(r))
     \/ SourceUsed(r) /\ ~ SourceUsedHere(r) /\ Rollback(r)
-----------------------------------------------------------------------------
(* create_order: a client names the number and, optionally, the opportunity   *)
(* and the quotation.                                                         *)
StartOrder(r, o, q, n) ==
  /\ pc[r] = "idle" /\ "order" \in Kinds
  /\ job' = [job EXCEPT ![r] = [NoJob EXCEPT !.kind = "order", !.opp = o, !.quote = q, !.no = n]]
  /\ pc' = [pc EXCEPT ![r] = "validate"]
  /\ UNCHANGED <<tables, lock, linkLock, snap, ins, todo>>

(* _validate_links.  A manual order reads the opportunity and the link now;   *)
(* the automatic one has both in its session already and does not reread.     *)
LinksValid(r) ==
  LET o == job[r].opp
      q == job[r].quote
      manual == job[r].kind = "order"
  IN /\ o # None => (manual => LiveOpp(o)) /\ ~ OpportunityHasOrder(r, o)
     /\ q # None => LiveQuote(q) /\ ~ QuotationHasOrder(r, q)
     /\ o # None /\ q # None /\ manual => quoteOpp[q] \in {None, o}

ValidateLinks(r) ==
  /\ pc[r] = "validate"
  /\ \/ LinksValid(r) /\ Goto(r, IF job[r].opp # None THEN "lock" ELSE "recheck")
     \/ ~ LinksValid(r) /\ Rollback(r)

(* SELECT ... FOR UPDATE: waits for the holder; the row may be gone by then.  *)
(* A plain SELECT would not wait, and keep nobody else out.                   *)
ReadOpportunity(r) ==
  /\ pc[r] = "lock"
  /\ IF LiveOpp(job[r].opp) THEN Goto(r, "recheck") ELSE Rollback(r)

LockOpportunity(r) ==
  LET o == job[r].opp IN
  /\ pc[r] = "lock" /\ lock[o] = None
  /\ \/ /\ LiveOpp(o)
        /\ lock' = [lock EXCEPT ![o] = r]
        /\ pc' = [pc EXCEPT ![r] = "recheck"]
        /\ UNCHANGED <<tables, linkLock, job, snap, ins, todo>>
     \/ ~ LiveOpp(o) /\ Rollback(r)

(* The two checks made under the lock.                                        *)
NumberFree(r) == \A x \in Visible(r) : x.no # job[r].no

ClearToInsert(r) ==
  /\ job[r].opp # None => ~ OpportunityHasOrder(r, job[r].opp)
  /\ NumberFree(r)

Recheck(r) ==
  /\ pc[r] = "recheck"
  /\ \/ ClearToInsert(r) /\ Goto(r, "insert")
     \/ ~ ClearToInsert(r) /\ Rollback(r)

(* The row: an automatic order was given the number of its quotation, which a *)
(* manual one need not have.                                                  *)
RowOfQuotation(r) == [no |-> job[r].quote, opp |-> job[r].opp, quote |-> job[r].quote]
NewRow(r) == [no |-> job[r].no, opp |-> job[r].opp, quote |-> job[r].quote]

(* The unique constraints of the orders table: order_no and quotation_id.     *)
SameNumber(x, y) == x.no = y.no
Clash(x, y) == SameNumber(x, y) \/ (x.quote = y.quote /\ x.quote # None)

(* The flush: the INSERT waits for an uncommitted row with the same key, then *)
(* meets the unique and the foreign key constraints.                          *)
InsertOrder(r) ==
  LET x == NewRow(r)
      accepted == /\ \A y \in Visible(r) : ~ Clash(x, y)
                  /\ x.quote # None => LiveQuote(x.quote)
  IN /\ pc[r] = "insert"
     /\ \A s \in Requests \ {r} : \A y \in ins[s] : ~ Clash(x, y)
     /\ \/ /\ accepted
           /\ ins' = [ins EXCEPT ![r] = @ \cup {x}]
           /\ pc' = [pc EXCEPT ![r] = AfterOrder(r)]
           /\ UNCHANGED <<tables, lock, linkLock, job, snap, todo>>
        \/ ~ accepted /\ Rollback(r)

CommitOrder(r) ==
  /\ pc[r] = "commit" /\ job[r].kind = "order"
  /\ orders' = orders \cup ins[r]
  /\ Release(r)
  /\ UNCHANGED <<oppState, stageOf, quoteState, quoteOpp>>

(* The UPDATE of the opportunity and the order inserted with it become        *)
(* visible together; an UPDATE that finds its row gone undoes both.           *)
CommitUpdate(r) ==
  LET o == job[r].opp IN
  /\ pc[r] = "commit" /\ job[r].kind = "update"
  /\ lock[o] \in {None, r}
  /\ \/ /\ LiveOpp(o)
        /\ stageOf' = [stageOf EXCEPT ![o] = Written(@, snap[r].stage, job[r].target)]
        /\ orders' = orders \cup ins[r]
        /\ Release(r)
        /\ UNCHANGED <<oppState, quoteState, quoteOpp>>
     \/ ~ LiveOpp(o) /\ Rollback(r)
-----------------------------------------------------------------------------
(* backfill_historical_won_orders: one transaction over every Won             *)
(* opportunity, loaded with its quotations at the start and visited in no     *)
(* particular order.  A Won row always has its history on PostgreSQL, so the  *)
(* order date is always known.                                                *)
StartBackfill(r) ==
  LET won == {o \in Opps : LiveOpp(o) /\ IsWon(stageOf[o])} IN
  /\ pc[r] = "idle" /\ "backfill" \in Kinds
  /\ job' = [job EXCEPT ![r] = [NoJob EXCEPT !.kind = "backfill"]]
  /\ snap' = [snap EXCEPT ![r] = [NoSnap EXCEPT !.links = LinksTo(won)]]
  /\ todo' = [todo EXCEPT ![r] = won]
  /\ pc' = [pc EXCEPT ![r] = "scan"]
  /\ UNCHANGED <<tables, lock, linkLock, ins>>

(* An opportunity with an order, or without exactly one quotation, is skipped.*)
BackfillVisit(r, o) ==
  /\ pc[r] = "scan" /\ o \in todo[r]
  /\ todo' = [todo EXCEPT ![r] = @ \ {o}]
  /\ \/ /\ \/ OpportunityHasOrder(r, o)
           \/ \A q \in Quotes : ~ Unambiguous(r, o, q)
        /\ UNCHANGED <<job, pc>>
     \/ /\ ~ OpportunityHasOrder(r, o)
        /\ \E q \in Quotes : Unambiguous(r, o, q) /\ ChooseQuotation(r, o, q)
  /\ UNCHANGED <<tables, lock, linkLock, snap, ins>>

CommitBackfill(r) ==
  /\ pc[r] = "scan" /\ todo[r] = {}
  /\ orders' = orders \cup ins[r]
  /\ Release(r)
  /\ UNCHANGED <<oppState, stageOf, quoteState, quoteOpp>>
-----------------------------------------------------------------------------
(* delete_opportunity: the check for an order, then the DELETE, which waits   *)
(* for the row lock.  The session also clears the links of the quotations it  *)
(* loaded, and the foreign keys clear those of every other row.               *)
LoadToDelete(r, o) ==
  /\ pc[r] = "idle" /\ "deleteOpportunity" \in Kinds
  /\ LiveOpp(o)
  /\ job' = [job EXCEPT ![r] = [NoJob EXCEPT !.kind = "deleteOpportunity", !.opp = o]]
  /\ snap' = [snap EXCEPT ![r] = [NoSnap EXCEPT !.links = LinksTo({o})]]
  /\ pc' = [pc EXCEPT ![r] = "delete"]
  /\ UNCHANGED <<tables, lock, linkLock, ins, todo>>

StartDelete(r, o) == LoadToDelete(r, o) /\ ~ OpportunityHasOrder(r, o)

CommitDelete(r) ==
  LET o == job[r].opp
      loaded == {q \in Quotes : snap[r].links[q] = o}
  IN /\ pc[r] = "delete" /\ lock[o] = None
     /\ \/ /\ \A q \in loaded : LiveQuote(q)
           /\ oppState' = [oppState EXCEPT ![o] = "deleted"]
           /\ stageOf' = [stageOf EXCEPT ![o] = NewLead]
           /\ quoteOpp' = [q \in Quotes |-> IF q \in loaded \/ quoteOpp[q] = o
                                            THEN None ELSE quoteOpp[q]]
           /\ orders' = {[x EXCEPT !.opp = IF @ = o THEN None ELSE @] : x \in orders}
           /\ Release(r)
           /\ UNCHANGED quoteState
        \/ (\E q \in loaded : ~ LiveQuote(q)) /\ Rollback(r)
-----------------------------------------------------------------------------
(* Saving a customer's quotation with items: create_quotation without an      *)
(* opportunity (q = None), or update_quotation of an unlinked draft.  Under the *)
(* customer's advisory lock it reuses an open opportunity or makes a new one. *)
StartLink(r, q) ==
  /\ pc[r] = "idle" /\ "link" \in Kinds
  /\ q # None => LiveQuote(q) /\ quoteOpp[q] = None
  /\ job' = [job EXCEPT ![r] = [NoJob EXCEPT !.kind = "link", !.quote = q]]
  /\ pc' = [pc EXCEPT ![r] = "match"]
  /\ UNCHANGED <<tables, lock, linkLock, snap, ins, todo>>

(* Which open opportunity has the same products and currency, if exactly one  *)
(* has, is left open.                                                         *)
MatchOpportunity(r) ==
  /\ pc[r] = "match" /\ linkLock = None
  /\ linkLock' = r
  /\ pc' = [pc EXCEPT ![r] = "link"]
  /\ \/ \E o \in Opps :
          /\ LiveOpp(o) /\ ~ IsClosed(stageOf[o])
          /\ job' = [job EXCEPT ![r] = [@ EXCEPT !.opp = o, !.target = Advanced(stageOf[o])]]
          /\ snap' = [snap EXCEPT ![r] = [NoSnap EXCEPT !.stage = stageOf[o]]]
     \/ UNCHANGED <<job, snap>>
  /\ UNCHANGED <<tables, lock, ins, todo>>

(* The quotation and its opportunity are committed together.  An opportunity  *)
(* or a quotation deleted since it was loaded makes the UPDATE fail; so does  *)
(* the bound of the instance when no id is left for a new row.                *)
CommitLink(r) ==
  /\ pc[r] = "link"
  /\ job[r].opp # None => lock[job[r].opp] = None
  /\ \/ \E o \in Opps, q \in Quotes :
          /\ IF job[r].opp = None THEN oppState[o] = "unborn" ELSE o = job[r].opp /\ LiveOpp(o)
          /\ IF job[r].quote = None THEN quoteState[q] = "unborn" ELSE q = job[r].quote /\ LiveQuote(q)
          /\ oppState' = [oppState EXCEPT ![o] = "live"]
          /\ stageOf' = [stageOf EXCEPT ![o] =
                           IF job[r].opp = None THEN OfSales("QuotationSent")
                           ELSE Written(@, snap[r].stage, job[r].target)]
          /\ quoteState' = [quoteState EXCEPT ![q] = "live"]
          /\ quoteOpp' = [quoteOpp EXCEPT ![q] = o]
          /\ Release(r)
          /\ UNCHANGED orders
     \/ /\ \/ job[r].opp # None /\ ~ LiveOpp(job[r].opp)
           \/ job[r].opp = None /\ \A o \in Opps : oppState[o] # "unborn"
           \/ job[r].quote # None /\ ~ LiveQuote(job[r].quote)
           \/ job[r].quote = None /\ \A q \in Quotes : quoteState[q] # "unborn"
        /\ Rollback(r)
-----------------------------------------------------------------------------
(* Requests whose reads cannot go stale in a way that matters: each is its    *)
(* final statement and commit.                                                *)
sessions == <<lock, linkLock, pc, job, snap, ins, todo>>

(* create_opportunity takes any stage, Won included, and makes no order.      *)
CreateOpportunity(o, ask) ==
  /\ "createOpportunity" \in Kinds /\ oppState[o] = "unborn"
  /\ oppState' = [oppState EXCEPT ![o] = "live"]
  /\ stageOf' = [stageOf EXCEPT ![o] = Resolve(ask)]
  /\ UNCHANGED <<quoteState, quoteOpp, orders, sessions>>

(* create_quotation for a given opportunity leaves that opportunity as it is; *)
(* its foreign key waits for a FOR UPDATE holder.  Without an opportunity and *)
(* without items (o = None) it makes an unlinked draft.                       *)
CreateQuotation(o, q) ==
  /\ "createQuotation" \in Kinds /\ quoteState[q] = "unborn"
  /\ o # None => LiveOpp(o) /\ lock[o] = None
  /\ quoteState' = [quoteState EXCEPT ![q] = "live"]
  /\ quoteOpp' = [quoteOpp EXCEPT ![q] = o]
  /\ UNCHANGED <<oppState, stageOf, orders, sessions>>

(* delete_quotation waits for inserted rows that refer to the quotation, and  *)
(* leaves the committed ones without it.                                      *)
DeleteQuotation(q) ==
  /\ "deleteQuotation" \in Kinds /\ LiveQuote(q)
  /\ \A r \in Requests : \A x \in ins[r] : x.quote # q
  /\ quoteState' = [quoteState EXCEPT ![q] = "deleted"]
  /\ quoteOpp' = [quoteOpp EXCEPT ![q] = None]
  /\ orders' = {[x EXCEPT !.quote = IF @ = q THEN None ELSE @] : x \in orders}
  /\ UNCHANGED <<oppState, stageOf, sessions>>

(* update_order can change the number, and none of the links.                 *)
Renumber(x, n) ==
  /\ "renumber" \in Kinds
  /\ \A y \in orders \cup UNION {ins[r] : r \in Requests} : y.no # n
  /\ orders' = (orders \ {x}) \cup {[x EXCEPT !.no = n]}
  /\ UNCHANGED <<oppState, stageOf, quoteState, quoteOpp, sessions>>

DeleteOrder(x) ==
  /\ "deleteOrder" \in Kinds
  /\ orders' = orders \ {x}
  /\ UNCHANGED <<oppState, stageOf, quoteState, quoteOpp, sessions>>
-----------------------------------------------------------------------------
(* A request can end at any point: a lost connection, a killed instance.      *)
Fail(r) == pc[r] # "idle" /\ Rollback(r)

(* Whom a request waits for.                                                  *)
Blockers(r) ==
  {s \in Requests \ {r} :
     \/ /\ pc[r] \in {"lock", "commit", "delete", "link"}
        /\ job[r].opp # None /\ lock[job[r].opp] = s
     \/ pc[r] = "insert" /\ \E y \in ins[s] : Clash(NewRow(r), y)
     \/ pc[r] = "match" /\ linkLock = s}

(* PostgreSQL aborts one of a set of transactions that wait for each other.   *)
DeadlockVictim(r) ==
  /\ \E S \in SUBSET Requests : r \in S /\ \A s \in S : Blockers(s) \cap S # {}
  /\ Rollback(r)

(* A request that is already running takes its next step.                     *)
Step(r) ==
  \/ FindOrder(r) \/ FindQuoteOrder(r) \/ ValidateLinks(r)
  \/ LockOpportunity(r) \/ Recheck(r) \/ InsertOrder(r)
  \/ CommitOrder(r) \/ CommitUpdate(r)
  \/ (\E o \in Opps : BackfillVisit(r, o)) \/ CommitBackfill(r)
  \/ CommitDelete(r) \/ MatchOpportunity(r) \/ CommitLink(r)

Start(r) ==
  \/ \E o \in Opps, ask \in Asked : LoadOpportunity(r, o, ask)
  \/ \E o \in Opps \cup {None}, q \in Quotes \cup {None}, n \in Numbers : StartOrder(r, o, q, n)
  \/ StartBackfill(r)
  \/ \E o \in Opps : StartDelete(r, o)
  \/ \E q \in Quotes \cup {None} : StartLink(r, q)

Immediate ==
  \/ \E o \in Opps, ask \in Asked : CreateOpportunity(o, ask)
  \/ \E o \in Opps \cup {None}, q \in Quotes : CreateQuotation(o, q)
  \/ \E q \in Quotes : DeleteQuotation(q)
  \/ \E x \in orders, n \in Numbers : Renumber(x, n)
  \/ \E x \in orders : DeleteOrder(x)

Next ==
  \/ \E r \in Requests : Start(r) \/ Step(r) \/ Fail(r) \/ DeadlockVictim(r)
  \/ Immediate

Spec == Init /\ [][Next]_vars
-----------------------------------------------------------------------------
(* Safety.                                                                    *)

(* However won transitions, manual orders, backfills, deletions and crashes   *)
(* interleave, an opportunity never has two orders, although the table has no *)
(* unique constraint on opportunity_id: the FOR UPDATE lock and the check     *)
(* made under it in create_order_in_transaction have to do it.                *)
OneOrderPerOpportunity ==
  \A x, y \in orders : x.opp = y.opp /\ x.opp # None => x = y

(* "A quotation can be linked to at most one order" (README): two requests    *)
(* that both pass the checks of _validate_links meet at the unique constraint.*)
OneOrderPerQuotation ==
  \A x, y \in orders : x.quote = y.quote /\ x.quote # None => x = y

(* Committed orders and quotations never point at a deleted row, also when    *)
(* the deletion was decided before the row that refers to it was written.     *)
NoDanglingLinks ==
  /\ \A x \in orders : x.opp # None => LiveOpp(x.opp)
  /\ \A x \in orders : x.quote # None => LiveQuote(x.quote)
  /\ \A q \in Quotes : quoteOpp[q] # None => LiveOpp(quoteOpp[q])

(* The V3 and the V9 column of an opportunity never disagree, whatever stale  *)
(* readings update_opportunity and the quotation workflow write from: the     *)
(* columns an UPDATE names are decided alike for both.                        *)
LegacyFollowsDeal == \A o \in Opps : LiveOpp(o) => Matched(stageOf[o])

(* What LegacyFollowsDeal rests on: every reading and every target a request  *)
(* works with is matched too, so it writes both columns or neither.           *)
MatchedEverywhere ==
  /\ \A o \in Opps : Matched(stageOf[o])
  /\ \A r \in Requests : Matched(snap[r].stage) /\ Matched(job[r].target)

(* A request inside the order workflow knows the number its order will carry. *)
NumberChosen ==
  \A r \in Requests :
    pc[r] \in {"findQuoteOrder", "validate", "lock", "recheck", "insert"} => job[r].no # None

(* What OneOrderPerOpportunity rests on.  A request past the FOR UPDATE holds *)
(* the row lock of its opportunity; one about to insert has seen no order of  *)
(* it; an inserted row keeps its opportunity locked and orderless for others. *)
Reserved(r) ==
  LET o == job[r].opp IN
  /\ pc[r] \in {"recheck", "insert"} /\ o # None => lock[o] = r
  /\ pc[r] = "insert" /\ o # None => ~ OpportunityHasOrder(r, o)
  /\ \A x \in {y \in ins[r] : y.opp # None} :
       /\ lock[x.opp] = r
       /\ \A y \in orders : y.opp # x.opp
       /\ \A y \in ins[r] : (y.opp = x.opp => y = x)

ReservationInv == \A r \in Requests : Reserved(r)

(* An opportunity becomes Won through update_opportunity only in a commit     *)
(* that leaves it with an order: "A failed automatic order must not leave an  *)
(* opportunity falsely Won" (test_order_management.py).                       *)
WinningLeavesAnOrder ==
  [][\A o \in Opps : LiveOpp(o) /\ ~ IsWon(stageOf[o]) /\ IsWon(stageOf'[o])
       => \E x \in orders' : x.opp = o]_vars

(* No opportunity that has an order is deleted: the conflict raised by        *)
(* delete_opportunity exists "to keep the order's source traceable".          *)
DeletionKeepsTheTrail ==
  [][\A o \in Opps : LiveOpp(o) /\ oppState'[o] = "deleted"
       => \A x \in orders : x.opp # o]_vars

(* Saving a quotation advances "early pipeline stages to quoted" and never    *)
(* moves "a later stage backwards" (_advance_reused_opportunity_to_quoted).   *)
LinkingNeverMovesBack ==
  [][\A r \in Requests, o \in Opps :
       pc[r] = "link" /\ pc'[r] = "idle" /\ job[r].opp = o
         => DealRank[stageOf'[o].deal] >= DealRank[stageOf[o].deal]]_vars

(* The three columns are "mapped automatically on create and update" (README):*)
(* every live opportunity holds a triple the maps produce.                    *)
StagesAgree == \A o \in Opps : LiveOpp(o) => Coherent(stageOf[o])

(* An order with both links names a quotation of its own opportunity: what    *)
(* _validate_links refuses with "Quotation is linked to another opportunity." *)
OrderAgreesWithQuotation ==
  \A x \in orders : x.opp # None /\ x.quote # None => quoteOpp[x.quote] \in {None, x.opp}
-----------------------------------------------------------------------------
(* Liveness.  A running request is never held up for good: threads keep       *)
(* running, PostgreSQL queues lock waiters fairly (hence the strong fairness, *)
(* since a lock may be taken and freed again and again) and breaks deadlocks. *)
Fairness == \A r \in Requests : SF_vars(Step(r)) /\ SF_vars(DeadlockVictim(r))

FairSpec == Spec /\ Fairness

(* Every request ends, with a commit or a rollback, also when requests        *)
(* wait for each other's locks and uncommitted keys.                          *)
RequestsEnd == \A r \in Requests : pc[r] # "idle" ~> pc[r] = "idle"
=============================================================================
