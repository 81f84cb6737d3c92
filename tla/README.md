# StarLink CRM: TLA+ models and proofs

StarLink CRM is a FastAPI / SQLAlchemy / PostgreSQL application for a foreign-trade
sales team (`backend/app`), with a React client (`frontend/src`), Alembic
migrations (`backend/alembic`) and maintenance scripts (`backend/scripts`). This
directory holds TLA+ models of it, the TLC configurations that check them, and
proofs checked by TLAPS.

Paths below are relative to the repository; services are in `backend/app/services/`.

## The system

Every HTTP request runs one service function with a `Session` of its own
(`db/session.py`: no autocommit, no autoflush), on a thread or a serverless
instance of its own. The database is PostgreSQL in READ COMMITTED:

* each statement sees what is committed when it starts, plus what its own
  transaction has flushed;
* objects a session has loaded stay as loaded, and the UPDATE it finally sends
  names only the columns that differ from the loaded values;
* row locks, advisory locks and uncommitted unique keys block other requests
  until the transaction ends (a session-level advisory lock until it is given
  back).

So the hard behaviour is not in single functions but between them: state read in
one statement and used in a later one, and effects outside the database (SMTP,
IMAP, blobs, browser storage) that no transaction covers.

| Component | State | Operations | Interacts through | Modules |
|---|---|---|---|---|
| Opportunity pipeline (`opportunity_service`) | three stage columns, histories, product lines | create, update, delete, enter Won, backfill, link a quotation | creates orders; linked by quotations; row lock | `PipelineStages`, `DealOrders` |
| Orders (`order_service`) | `orders`, unique `order_no` and `quotation_id` | create, update, delete | the Won workflow; foreign keys `SET NULL` | `DealOrders`, `DealBook` |
| Quotations (`quotation_service`) | quotations, versions, items, daily numbers | create, edit, new version, PDF, mark sent, delete | advisory locks for numbers and for linking | `QuotationLifecycle`, `DealOrders` |
| Mail (`mail_service`) | messages, drafts, folders, cursors, tracking tokens | sync, send, draft, move, flag, count opens | IMAP, SMTP, session advisory lock, attachments | `MailSync`, `MailArchive`, `MailOutbox`, `MailViews` |
| Follow-ups (`followup_service`) | follow-ups, dates kept on customers and opportunities | create, update, delete | customers, opportunities, attachments | `FollowupActivity` |
| Attachments (`storage_service`) | blobs | put, delete, read | rows of mail and follow-ups | `AttachmentStore` |
| Reminders (`followup_reminder_service`, `customer_followup_stage_service`), settings | one row of rules | classify customers by day and stage | customer dates | `ReminderCadence` |
| Customers (`customer_service`, `contact_service`) | customers, contacts, tags, categories, score and stage histories | create, update, score, delete, tag | guarded by references | `CustomerRecords`, `TagCatalogue` |
| Customer archive import (`scripts/import_customer_archive.py`) | none of its own | import a workbook | customers, contacts | `ArchiveImport` |
| Alibaba intake (`alibaba_integration_service`) | none of its own | receive an inquiry | customers, contacts | `AlibabaIntake` |
| Catalog (`product_service`, catalogue scripts) | products, images, categories, lines | create, update, delete, import, search | opportunity lines | `ProductCatalog`, `CatalogueSearch` |
| Analytics, dashboard, profit, sales targets | targets only | read | everything | `ReportPeriods`, `ReportFigures` |
| Authentication (`auth_service`) and the client's session (`services/api.ts`, `store/auth.tsx`) | refresh tokens, browser storage | login, refresh, logout | every call of the client | `Sessions` |
| Migrations (`alembic/versions`, `ensure_alembic_version.py`) | schema, stamp, data | upgrade, downgrade | all tables | `SchemaVersions`, `Migrations` |
| PDF and Excel rendering, pages of the client | - | - | - | not modelled |

### What is hard, and what makes each component correct

* **Opportunities and orders.** An opportunity gets at most one order, though three
  workflows create them and the table has no unique constraint for it; entering Won
  and having the order is one step; a quotation has at most one order; no link
  points at a deleted row; the three stage columns agree; a quotation link never
  moves a stage back; an opportunity with an order stays; every request ends.
* **Quotations.** Numbers are unique and grow within a day although quotations are
  deleted; version numbers have no gap; a sent version never changes and has a PDF.
* **Mail.** No message is filed twice; the cursor never passes a message that was not
  tried; a sent mail has one row, shows what was sent and is sent once; opens are
  counted; badges and lists agree.
* **Follow-ups.** What customers and opportunities show is what their records say.
* **Attachments.** A row has its blob; a blob without a row is temporary.
* **Reminders.** Who is due stays due until followed up; all pages agree.
* **Customers, tags, imports, intake.** Level, stage and histories agree; one row per
  person; a repeated import changes nothing; a deletion takes nothing along.
* **Catalog.** One primary image; lines name products that exist; search ranks as told.
* **Reports.** Every day is counted once, and pages that show one figure agree.
* **Sessions.** The stored refresh token is one the server accepts, unless the answer that
  replaces it was lost; a tab is signed out for a reason; no call waits for ever.
* **Migrations.** The head has all the ORM reads, the stamp says what is there, and the
  data steps write what the program itself would have written.

`PROJECT.json` lists the hazards behind these, line by line.

## Modules

A *part* is one component; a *desk* instantiates several parts for TLC; a module
whose name ends in `Proofs` holds theorems.

| Module | Role |
|---|---|
| `PipelineStages` | The three stage vocabularies, the maps between them, how a payload resolves to a triple, and what an UPDATE writes over a row that has changed since it was read. Pure. |
| `DealOrders` | The core: opportunities, quotation links and the order ledger under concurrent requests. |
| `DealBook`, `DealOrdersRefinement` | What the order workflow promises, with no requests, locks or quotations; `DealOrders` as an implementation of it. |
| `QuotationLifecycle` | Numbers, drafts and their lines, versions, PDF, sending, deletion. |
| `MailSync`, `MailArchive` | `sync_mailbox` against an IMAP server that renumbers, drops connections and loses messages; the abstract archive it implements. |
| `MailOutbox` | Drafts, sending and open tracking. |
| `MailViews` | Folders, badges, flags, bulk moves and who may read what. |
| `AttachmentStore` | Uploads and deletions over two stores. |
| `FollowupActivity` | Follow-up records and the columns computed from them. |
| `CustomerRecords`, `TagCatalogue` | Scores, levels, stages, histories, contacts, deletion; tags and categories. |
| `AlibabaIntake`, `ArchiveImport` | The two ways customers come in from outside. |
| `ReminderCadence` | Reminders, cold customers and their queue over a calendar. |
| `ProductCatalog`, `CatalogueSearch` | Products, images, lines and the category tree next to the scripts; the search of the quotation editor. |
| `ReportPeriods`, `ReportFigures` | Date arithmetic of the reports; their figures while the records change. |
| `Sessions` | Tokens on the server and in the browser. |
| `SchemaVersions`, `Migrations` | What the 32 revisions create and drop; upgrades, downgrades and what they do to data. |
| `MCDealOrders` | Payload sets, symmetry and the constraint of the runs on `DealOrders`. |
| `MailDesk`, `SalesDesk`, `OfficeDesk`, `MigrationDesk`, `ProgressDesk` | The parts in the settings that are checked. |
| `DealOrdersProofs`, `MailSyncProofs`, `MailDeskProofs`, `AttachmentStoreProofs`, `SalesDeskProofs`, `OfficeDeskProofs`, `OfficeRecordsProofs`, `MigrationDeskProofs` | See Proofs. |

The parts on a desk share no variable, and an initial state chooses one part and
one setting (the constant `Desks` lists them); from then on only that part moves.
A desk's property says of each setting what holds in it. This checks many small
instances in one run and claims nothing about their interplay, which is in
`DealOrders` (opportunities, orders, quotations), `FollowupActivity` (records,
customers, opportunities) and `AttachmentStore` (rows and blobs).

In most parts each request has a record of what it does next and what it has
read; an action is one statement, or several nothing can usefully come between.
`OneAtATime` serves requests one after another, so that a promise the code keeps
only then can be told from one that it keeps always.

Some operators stand beside the real ones and differ from them in one condition
(`ReadOpportunity`, `NumberFree`, `VersionFree`, `KeyOnly`, `AnyToken`, `CountOnly`,
`RowFirst`, `ResolveFirst` and others): most are used by the real operator, and each
breaks the property `PROJECT.json` pairs it with.

### How `DealOrders` corresponds to the code

`pc[r]` is the statement request `r` runs next, `job[r]` its payload and choices,
`snap[r]` the columns and links its session has loaded, `ins[r]` the order rows it
has flushed. `lock` holds row locks kept across statements, `linkLock` the
customer's advisory lock. An action is one statement, or several nothing can
usefully come between.

| Code | Actions |
|---|---|
| `update_opportunity` | `LoadOpportunity`, (the order workflow), `CommitUpdate` |
| `_create_or_reuse_won_order` | `FindOrder`, `FindQuoteOrder` |
| `create_order`, `create_order_in_transaction`, `_validate_links` | `StartOrder`, `ValidateLinks`, `LockOpportunity`, `Recheck`, `InsertOrder`, `CommitOrder` |
| `backfill_historical_won_orders` | `StartBackfill`, `BackfillVisit`, (the order workflow), `CommitBackfill` |
| `delete_opportunity` | `StartDelete`, `CommitDelete` |
| `create_quotation` with items and no opportunity; `update_quotation` of an unlinked draft | `StartLink`, `MatchOpportunity`, `CommitLink` |
| `create_quotation` otherwise, `delete_quotation`, `create_opportunity`, `update_order`, `delete_order` | `CreateQuotation`, `DeleteQuotation`, `CreateOpportunity`, `Renumber`, `DeleteOrder` |
| an exception, a lost client, a killed instance | `Fail` |
| PostgreSQL's deadlock detector | `DeadlockVictim` |

Abstractions, all towards more behaviours or towards data no decision reads:

* One customer, and actors who may do what they ask: access rules and the
  customer checks only refuse requests.
* No code writes the quotation states Accepted, Rejected or Expired, so every
  linked quotation is "active" and the choice is unambiguous when there is one.
* Which open opportunity matches a quotation's products is left open, as is
  whether exactly one does.
* Quotation `q` has the number `q`; manual orders may use any of `Numbers`,
  quotation numbers included. How numbers are found is in `QuotationLifecycle`.
* A Won row always has a dated history entry on PostgreSQL, so a backfill never
  asks for a date.
* Between its first flush and its commit a linking request holds the row lock of
  its opportunity; nobody can write the row meanwhile, so the model writes it at
  the commit.
* Saving a linked quotation changes amounts and product lines only; these,
  histories and order statuses are left out.

`Opps` and `Quotes` are the ids ever handed out (an id is not reused), `Requests`
how many requests are in flight at once (each starts again and again), `Numbers`
the order numbers, `Kinds` and `Asked` the operations and payloads of an instance.

### How the other parts correspond to the code

| Module | State | Actions and the code they stand for |
|---|---|---|
| `QuotationLifecycle` | rows of quotations, their versions and lines, `dayLock` and `link`; per request the loaded columns | `StartCreate`/`TakeNumber`/`CommitCreate` (`create_quotation`, `_next_quotation_number` under the daily advisory lock), `StartUpdate`/`CommitUpdate` (`update_quotation`), `StartVersion`/`CommitVersion`, `GeneratePdf`, `StartSend`/`CommitSend` (`mark_sent`), `DeleteQuotation`, `Fail`. Lines are named after the save that wrote them. |
| `MailSync` | the server's mailboxes; `rows`, `state` (one cursor per mailbox), `lock`; per runner `pc`, `task` | `Start`, `Open`, `Search`, `Fetch`, `Look`, `Insert`, `Advance` and `Finish` are the phases of `sync_mailbox` and its helpers; `Fault`s are failed fetches, `Disconnect` a lost connection, `Crash` the end of an instance; `Submit`, `StoreSent` are `send_message` seen from here; `Deliver`, `Expunge`, `Rebuild` belong to the server. |
| `MailOutbox` | `row`, `events`, `mailed` (what SMTP accepted) | `save_draft`, `send_message` and `send_individually` (`Smtp` before `CommitSend`), `record_email_open`, `Fail` anywhere |
| `MailViews` | messages with nullable flags, custom folders, customers' owners, a bulk update under way | `Import`, `WriteDraft`, `Bulk`, `Mark`, `StartFiling`/`CommitFiling`, `SaveFolder`, `DeleteFolder`, `Reassign`; the lists and badges are operators with SQL's three-valued conditions |
| `AttachmentStore` | `parents`, `row`, `blobs`, `answered` | `create_attachment` (`PutBlob`, `CommitRow`, `Undo` in its error path), `delete_attachment`, `delete_followup`; `PutTimesOut`, `CommitReportedFailed`, `Abandon` are the faults |
| `FollowupActivity` | records, the customer's and opportunities' columns, a clock of transactions | `StartCreate`/`StartUpdate`/`StartDelete`, `Flush`, `Commit` with `_refresh_customer_reminder` and `_sync_opportunity_followup_activity`; `MarkSent` |
| `CustomerRecords` | customers, score and stage histories, contacts | `create_customer`, `update_customer` (the score history is its second transaction, `WriteHistory`), `update_customer_score`, `create_contact`, `delete_customer`, `Crash`; `ImportNew`, `ImportRow` are what a row of the archive writes of these columns. A client may choose a level, which counts when the request has no score; `imported` remembers whose stage an import changed without an entry. |
| `TagCatalogue` | tags or categories, `customer_tags` | create, rename, deactivate, assign, remove; the unique index on the spelling |
| `AlibabaIntake` | customers, contacts | `ReceiveInquiry`, `FindByEmail`, `FindByNames`, `CreateFromInquiry`; `StaffCreate`, `StaffDelete` are the people at the same table |
| `ArchiveImport` | the workbook, groups of rows, committed customers, the transaction | `StartImport` (`select_unique_records`, a union-find), `ImportRow`/`SkipRow` (a savepoint each), `Commit`, `Rollback`; `EditSheet` is the person who keeps the workbook |
| `ReminderCadence` | the business day, saved rules, dates and stage of a customer, its records | `NextDay`, `SaveRules`, `SaveCustomer`, `ImportCustomer` (which leaves the stored cold flag), `RecordFollowup`, `DeleteFollowup`; `Reminder`, `IsCold`, `SortKey` translate the service |
| `ProductCatalog` | SKUs, image rows, lines, category parents | `Create`, `StartUpdate`/`CommitUpdate`, `StartDelete`/`CommitDelete`, `StartLines`/`CommitLines`, `MoveCategory`; `StartImport`/`Look`/`CommitImport` and `StartLate`/`CommitLate` are the scripts |
| `CatalogueSearch` | a catalogue, a query, the answer | `Search` is `search_quotation_products`, ranked by `_quotation_product_rank` |
| `ReportPeriods` | the day, the report on the screen | `_period_range`, `_bucket_dates`, `_monthly_trend`, `get_progress` as operators; `Ask`, `Midnight` |
| `ReportFigures` | the records the reports read | the writes are those of the other parts, in brief; `Summary`, `OrderProfit`, `CustomerRank`, `WonIn`, `QuotedProduct`, ... translate the queries. `Copies` is how often a query that joins the opportunities of a customer (SQLAlchemy derives the condition from the table joined last) repeats its rows. |
| `Sessions` | `refresh_tokens`, the browser's storage, per request the token it carries, per tab the shared refresh | `Login`, `Serve`, `Refused`, `Read`/`Commit` (`refresh`, two requests may read before one commits), `Resolve`, `Logout`, `Tick`; `Break` is a connection that breaks or an error of the server, `Reload` a page loaded anew at any moment, and `LooseRead`, `LooseCommit`, `LooseFails` what becomes of a refresh whose answer no page awaits any more. `unheard` remembers the rotations that reached no page. |
| `Migrations` | `db` (stamp, width of the version table, schema, one row of data), runs under way | `Prepare` (`ensure_alembic_version.py`), `BeginUpgrade`, `BeginDowngrade`, `Finish` (the whole chain in one transaction, the stamp moved with a compare-and-set), `Crash` |

`Sessions` takes a login and its answer as one step: a login whose answer is lost changes
nothing in the browser. A request other than a refresh that breaks is one that was not
made.

What these leave out is data no decision reads: names, addresses, texts, amounts in
quotations, MIME (a message is well formed or not), wording and layout. In
`CatalogueSearch` words are compared as a whole and a pasted word after the twelfth
is dropped, as in the code. `AttachmentStore` with `MayLie` covers a commit that
went through and is reported as failed; `Undo` then deletes the blob of a row that
is there, so `RowsHaveBlobs` is promised only without it.

## Runs

| Run | Instance | Checks |
|---|---|---|
| `OneDeal` | 1 opportunity, 2 quotations, 2 requests; every operation but renumbering; wins, reopenings and losses in each stage field | `TypeOK`, `OneOrderPerOpportunity`, `OneOrderPerQuotation`, `NoDanglingLinks`, `LegacyFollowsDeal` |
| `TwoDeals` | 2 opportunities, 2 quotations, 2 requests: creations, wins, orders, backfills, deletions, linking | `ReservationInv`, `WinningLeavesAnOrder`, `ImplementsDealBook` |
| `OneAtATime` | 2 opportunities, 2 quotations, 1 request, payloads across the pipeline | `StagesAgree`, `DeletionKeepsTheTrail`, `LinkingNeverMovesBack` |
| `MailDesk` | see below | `FiledOnce`, `CursorIsHonest`, `SentCopyIsNotFiled`, `OutboxIsTrue`, `ViewsAgree`, `AttachmentsKept`, `ImplementsArchive`, `SentForGood` |
| `SalesDesk` | see below | `NumberAboveAll`, `VersionsContiguous`, `SummaryOfRecords`, `CustomersOnRecord`, `NamesDiffer`, `QuotesOneByOne`, `DeletionsTakeNoMore`, `NoTwinIntake` |
| `OfficeDesk` | see below | `StoredIsLive`, `SearchAnswers`, `SessionsLast`, `ReportsCountOnce`, `FiguresAgree`, `RemindersHold`, `CatalogueHolds`, `OnePersonPerCustomer` |
| `MigrationDesk` | see below | `DataKept`, `SchemaServes` |
| `ProgressDesk` | see below, with fairness | `RequestsEnd`, `MailHasItsTurn`, `CallsEnd` |
| `StageDrift` | 1 opportunity, 2 requests | violates `StagesAgree` |
| `LinkRegression` | 1 opportunity, 1 quotation, 2 requests | violates `LinkingNeverMovesBack` |
| `LostTrail` | 1 opportunity, 1 quotation, 2 requests | violates `DeletionKeepsTheTrail` |
| `QuotationElsewhere` | 2 opportunities, 1 quotation, 1 request | violates `OrderAgreesWithQuotation` |

The three promises of `OneAtATime` hold while requests do not overlap, and each is
broken by two that do. `QuotationElsewhere` needs no overlap at all. What the code
locks for (one order per opportunity, linking) and what the database constrains
(numbers, quotations, foreign keys) holds; what is checked without a lock does not.

`WinningLeavesAnOrder` and `ImplementsDealBook` are checked without `delete_order`:
an Admin can delete a reused order just before the win commits, which leaves what
deleting it just after would. In `TwoDeals` the constraint
`HandOrdersOnOneQuotation` keeps manual orders to states with one quotation.

### Desks

| Desk | Setting | What happens in it |
|---|---|---|
| `MailDesk` | two boxes | two instances import Inbox and Sent, 2 messages, each possibly in both; a window of one message; one fault |
| | one box | one instance, 3 messages, one without a Message-ID, and a mailbox that is rebuilt once (2 generations), so that UIDs mean other messages; one fault |
| | sent | one instance imports and sends, 3 messages, one tracked and stripped of its Message-ID in the provider's copy |
| | outbox, outbox in order | 3 requests save, send and open 2 mails, overlapping with failures, or in order |
| | views | a message, old (its newer columns NULL) or new, a manager and a salesperson, 2 folders, a customer that changes hands |
| | store, store in order, store lies | 3 uploads and deletions, overlapping with failures, in order, or with commits that are reported as failed |
| `SalesDesk` | numbers | 3 quotations are created and deleted by 2 requests |
| | versions | 2 requests on one quotation, up to 3 versions |
| | one by one | 2 quotations, requests in order, up to 3 saves |
| | visits, visits together | 2 records, 2 days; 2 opportunities in order, or one with overlap |
| | profiles, shared | scores on both sides of 50 and 80, chosen levels, stages, imported rows, 2 customers; in order, or overlapping with crashes |
| | inquiries, inquiries together | 2 inquiries and staff entries |
| | tags, tags together, categories | names that differ in case only |
| `OfficeDesk` | two tabs, one tab | one user, lives of 1 and 3 seconds, a clock of 3 or 8, 2 logins or 1, one refresh whose answer is lost |
| | periods | every day of 2024, a leap year, and of 2025, with 2023 behind them; custom ranges with ends at month, quarter and year boundaries |
| | ledger, sales, wins, quoted, joined | two orders with payments and costs; two currencies and 2 deals of one customer; deals that change hands and are reopened; quotations with two versions; one order and quotations of a customer with 2 deals |
| | cadence, queue | 17 days, 2 records, saved and imported fields; or 2 customers to be put in order |
| | images, lines | two requests next to the scripts; deletions next to lines and category moves |
| | search | 3 products, 3 words, queries of up to 3 words, of which 2 are kept; names of at most 2 words, pages of 2 rows |
| | first import, import again, appended | workbooks of 3 rows, some refused; 2 rows, imported twice, into an empty CRM or over 2 customers; a workbook that grows from 2 rows to 3 |
| `MigrationDesk` | stages, reminders, values | one runner from several revisions, with every stage, follow-up or value a row may hold; up and down |
| | together | two runners around every repair and refusal, databases with columns missing |
| `ProgressDesk` | deals, mail, browser | 2 opportunities, 2 quotations and 2 requests that win, backfill and link; 2 messages, one runner and its faults; one tab with 2 calls |

### Why the bounds are enough

Every race here is between one request that has read and one that writes, so two
requests show it, and a request that ended can start again as another kind. One
opportunity is enough for a clash over one, two for the deadlock of two backfills
and for a quotation that goes elsewhere; two quotations give the ambiguous choice
and the second unique key. Numbers need three quotations: one deleted, one that
keeps the count and not the highest number, and the one being made. A window of one
message is smaller than two messages, so that the first import leaves one out and
the cursor moves in steps. Two generations reuse every UID. A lost upload, a second
one and a deletion are three requests. A union-find over three rows joins two that
share nothing. Two deals of one customer are what makes a join repeat a row. One lost
answer shows what losing an answer does: a second one meets the same token, revoked or not. Where the result does not depend on a bound, a theorem says so.

The desks may stop where a bound is reached (a last day, a last save), so they do
not check for deadlock; the runs on `DealOrders` do.

### Fairness

* `RequestsEnd`: the running steps of each request, together with the choice of a
  deadlock victim, are strongly fair; starting and failing are not. The code has no
  queue of its own: threads run, PostgreSQL serves lock waiters in order (a lock
  that is freed again and again is got in the end: strong, not weak, fairness) and
  aborts one transaction of a cycle of waiters.
* `MailHasItsTurn`: cron comes back and a run that has begun goes on (weak
  fairness). Nothing is assumed of the server, of users or of faults, whose number
  is bounded: a run may fail as often as `MaxFaults` says.
* `CallsEnd`: server and browser go on (weak fairness): a refresh is answered or its
  connection breaks, and what it ends with is handled. Users do as they like.

## Proofs

Every constant is arbitrary but for the named assumptions of the modules (`None`
is not an id, kinds and payloads are ones the API has, bounds are numbers, requests
and records are finitely many where something is counted or a latest one is
chosen) and for what a theorem assumes beside them:

| Assumption | Why it is there |
|---|---|
| `"deleteOrder" \notin Kinds` | An Admin may delete the reused order just before the win commits; the books then differ from the promise, as the run `TwoDeals` also says. |
| `OneAtATime` | One request at a time. With two the property fails: `StageDrift`, `LostTrail`, `LinkRegression`. |
| `SendsApart` | What the CRM sends is not stored while another instance synchronizes; see Known disagreements. |
| `~MayLie`, `InTurn` | A commit that is reported as failed has failed; requests on follow-ups run one after another and do not fail. |
| `Prepares` | `ensure_alembic_version.py` runs before an upgrade, as deployments do; a plain `alembic upgrade head` stops at 0011, see Known disagreements. `RowsAlwaysKept` does not need it. |

But for `Prepares` the theorems about a desk have no such hypothesis: the desk's own
settings say what is promised when. `OfficeDesk` assumes of its constants that the tab
and the request it leaves alone are among the others and belong together, and of each
setting of a part what that part assumes. For the search this is a finite catalogue
and `MaxWidth <= MaxTerms`: a name is found by at most four words running, a query
keeps twelve. If a name could be wider than what is kept of a query, a product whose
whole name was typed would not come before the others, the query having been cut. For
the reports it is a calendar of three years at least, of which the first is history
only, with the ends of custom ranges in it. For the import, workbooks are finite
sequences of rows, of any length and in any set of them, acquisition dates are
numbers, and the CRM starts with any finite sequence of customers, several of whom may
share an identifier. For the figures, records are finitely many, and no seller is
called what an Admin's view is (`"Admin"`).

| Theorem | Says | Argument |
|---|---|---|
| `TypeCorrect` | `TypeOK` of `DealOrders` | Inductive with `NumberChosen`: a request past the choice of its source has a number; without it a new row need not be an order row. |
| `LegacyColumnFollows` | `LegacyFollowsDeal` | It speaks of committed rows only, and is inductive once every loaded triple and every target is matched too (`MatchedEverywhere`): different deal stages have different legacy stages, so an UPDATE writes both columns or neither (`WrittenMatched`). The sales column has no such property, V7 having two stages for one V9 stage, which is what `StageDrift` shows. |
| `OneOrder`, `Reservations` | `OneOrderPerOpportunity`, `ReservationInv` | From the FOR UPDATE to its commit a request holds the row lock of the opportunity; between the recheck and the insert no order of it is visible; a flushed row's opportunity stays locked and orderless. Others can neither take the lock nor bring another row to that page (`OthersReserved`), so what a commit adds was not there. |
| `OneOrderQuotation` | `OneOrderPerQuotation` | Committed and flushed rows never clash on a unique key (`KeysUnique`): an INSERT waits for the flushed row it clashes with and fails on the committed one. |
| `LinksHold` | `NoDanglingLinks` | Needs that what a request is about to commit refers to live rows as well (`HeldIsLive`): its opportunity is locked from the FOR UPDATE on and its quotation from the INSERT on, so a DELETE waits; the DELETE itself clears what refers to the row. |
| `WinsAreOrdered` | `WinningLeavesAnOrder` | `PromiseInv`: a request that enters Won reaches its commit only with an order, its own flushed row or a committed one that nothing but `delete_order` takes (`Lasting`). A live opportunity without an order is Won in all columns or in none (`Pure`), and so is what each request that may write it has read; one that had read less could win by writing a single column (`Untouched`). |
| `OrderBook` | `ImplementsDealBook`: `DealOrders` implements `DealBook` | Under `PromiseInv` every action maps to one step of the book or to none; the commits are its steps (`CommitUpdateBooks`, `CommitDeleteBooks`, `CommitLinkBooks`), everything between them is a stutter. |
| `AloneStagesAgree`, `AloneKeepsTrail`, `AloneNeverBack` | `StagesAgree`, `DeletionKeepsTheTrail`, `LinkingNeverMovesBack` | `SoleInv`: what the only request has loaded is what is recorded (`Alone`), so an UPDATE writes a triple the maps produce (`WrittenFresh`), what `delete_opportunity` checked still holds at its commit, and `Advanced` is computed from the stage it replaces. |
| `NumbersStayAbove`, `VersionsInOrder`, `QuotationsTyped` | `NumberAboveAll`, `VersionsContiguous`, `TypeOK` of `QuotationLifecycle` | `QuoteInv`: a request that has taken a number is the only creator (`OneCreator`, the daily lock), its number is above the greatest in use; the rows of versions are those up to `current_version`, none outlives its quotation (`NoStrays`), and a request has never loaded a version the quotation has not reached (`Working`). |
| `SyncFilesOnce`, `SentCopyFoundAgain`, `SyncIsTyped` | `FiledOnce`, `SentCopyIsNotFiled`, `TypeOK` of `MailSync` | `FilingInv`: who is at work holds the advisory lock (`OnlyOneRuns`), so what it found missing before an INSERT is still missing (`AboutToFile`), and so is what is about to be stored (`AboutToStore`). A crash gives the lock back with the row it was about to write. What a run has found neither by Message-ID nor by token stays unknown until its row is there (`TokenUnknown`), so that a copy stripped of its Message-ID is not a second row; one without token, or in the INBOX, where no token is looked for, may be. |
| `SyncArchives` | `ImplementsArchive`: `MailSync` implements `MailArchive` | With `FilingInv` an `Insert` or `StoreSent` is one step of the archive, of a message that was in a mailbox (`AllSeen`); cursors, locks, faults and crashes are stutters. |
| `CursorPassesNothing` | `CursorIsHonest` | `CursorInv`: UIDs are given in order and not reused within a generation (`Numbered`); while a run is at work, whatever is present is still in its list, has been tried, or came after the list was made (`Covers`, `AtHand`). It needs no hypothesis: sending and overlapping runs do not move the cursor. |
| `OutboxTellsTheTruth`, `SentIsForGood` | `OutboxIsTrue`, `SentForGood` of `MailDesk` | `BoxInv`: a request is on the row it loaded (`OnTheirRows`) and opens are at most the audit rows (`Audited`), whatever overlaps. In order (`InTurn`) one request works at a time on what is recorded (`UpToDate`), and what SMTP has accepted is what the row will show (`MailedShown`). |
| `ViewsAlwaysAgree` | `ViewsAgree` | The conditions of a list and of its badge differ in form (`IS NOT TRUE`, `= FALSE`, NULL) and agree on every row the writers leave (`Proper`), rows older than the columns included; a bulk update may be half done. |
| `ListedIsReadable`, `AcknowledgedIsReadable`, `AttachmentsAlwaysKept` | a listed attachment has its blob (`~MayLie`); an acknowledged one in any case; `AttachmentsKept` of `MailDesk` | A key belongs to one upload until its row is there (`UploadsOwn`), to nobody once it is undone (`UndoneUnanswered`), and to no row once its blob is being deleted (`DeletedHaveNoRow`). |
| `NothingLeftBehind` | no blob without a row, `InTurn` | `Tidy`: every blob has a row or belongs to the one request that will commit, undo or delete it, and the deletion of a record has read all keys of its attachments (`WholeParent`). |
| `NamesAlwaysDiffer` | `NamesDiffer` of `SalesDesk` | The unique index keeps spellings apart (`TagInv`). In order (`TagsInTurn`) the name a request has looked up is still free but for case when it writes (`FoundFree`). No property of lower-casing is used. |
| `InquiriesMakeNoTwin` | `NoTwinIntake` | What the e-mail and name queries did not find is still not there when the only request inserts (`IntakeInTurn`). The desk gives the database and Python one lower-casing; with two of them it fails, see Known disagreements. |
| `CustomersStayOnRecord` | `CustomersOnRecord` | With any overlap the two stage columns are equal in each row and each loaded row, and the stage history ends at the row's stage (`ProfileInv`), since one transaction writes both, or an import has changed the stage since and is remembered to have. The score history is a second transaction: only in order (`ProfilesInTurn`) does a score bring its level and the history end at the score once no request owes an entry (`LeavesEntry`), each entry starting where the one before ended (`Chained`). |
| `SummariesStayTrue` | `SummaryOfRecords` | `VisitInv`: records and pending creations have different creation times, so that "latest" is one record (`Apart`), no two requests hold one record, and the clock counts the requests that started. In order (`VisitsInTurn`) what a request has read is what is recorded (`WorkKnown`), and what the customer and each opportunity show is what the records say at every moment (`DatesTold`, `MarksTold`), a commit writing both. |
| `DeletionsStaySafe` | `DeletionsTakeNoMore` | An action property: each of its parts follows from the step of the deletion and the typing of what it has loaded. |
| `QuotesKeepTheirWord` | `QuotesOneByOne` of `SalesDesk` | Each setting is the base with less room: the other quotations and sessions stay as they start (`Within`), so what holds of the base holds of it (`NumbersSteps`, `VersionsSteps`, `OneByOneSteps`). In turn (`InTurn`) what the request at work has loaded is what is recorded but for a PDF rendered meanwhile (`KnowsRecord`), and a quotation being linked has no opportunity yet (`LinksUnlinked`). |
| `StoredTokenLives`, `SessionsTyped` | `StoredIsLive`, `TypeOK` of `Sessions` | A pair that a refresh has brought is known to no other tab and no abandoned refresh until it is stored (`Private`), and every token in use was issued (`StoreIssued`, `LooseIssued`), so a token issued later is another one. A rotation whose answer is lost is remembered with the token it replaced. |
| `AloneStaysSignedIn` | `SessionsLast` of `OfficeDesk` | `SoleInv`: alone, a tab's only refresh is the one its only call waits for, what the browser stores is the latest pair issued (`IssuedUpTo`), and a refresh starts only once the access token of an earlier second was refused, so that the token it brings is not the one it replaces; later tokens are those of answers that were lost (`Orphans`), the only ones whose second a rotation can meet. |
| `RemindersAlwaysHold` | `RemindersHold` | `ReminderInv`: saved rules have positive intervals (`RulesLegal`), so that a due date lies after the latest record, and it does not depend on the day (`ColdReminder`, `StageReminder`): what was due yesterday is overdue today, and of two notices of a band the earlier one has no greater priority and fewer days to go (`NoticeOf`). As days pass a customer can turn cold and not warm again (`ColdGrows`). |
| `CatalogueAlwaysHolds` | `CatalogueHolds` | `Pictures`: each product with images has one primary image, and the script's picture is it. A request commits on what it read before others wrote: every other commit only takes images of a product away or brings one that is then the primary (`Smooth`), so that where something has come unread the primary is among what has come (`Overtaken`), and what a commit leaves has one. The partial index, the unique SKU and the RESTRICT key refuse the rest. |
| `SearchAlwaysAnswers` | `SearchAnswers` | The rank of a product ends with its id, so that no two products have the same (`Lower` is a strict order) and a finite set of candidates has exactly one sorted sequence; page and total come from it. Whole names and pasted SKUs are compared first. |
| `ReportsAlwaysCountOnce` | `ReportsCountOnce` | Months are counted through the years, and the next starts where one ends (`StartsFollow`, from the leap days counted up to a year), so that every day is in exactly one (`SomeMonth`, `OneMonth`) and `Day`, the year first and then the month, finds it (`DayIs`). A day of an earlier month (`MonthsBackIs`) lies in that month, which gives the nesting of cards (`Nested`), the twelve months and the windows that only move on (`NextWindow`). What makes a year a leap year is not used. |
| `OneCustomerPerPerson` | `OnePersonPerCustomer` | Once row i is read, two of the first i rows have one root exactly when a chain of shared identifiers among them links them (`GroupedIs`); looking back at the first row with an identifier is enough, the other earlier rows with it being in its group already, and a chain need be no longer than the workbook (`ShortChain`). So the rows chosen to be written never share an identifier (`WinnersApart`), and none matches what another has written. A saved key names the row whose identity the customer holds (`Keyed`), so that what is overwritten shares an identifier; and once every chosen row that was not refused has its one customer (`ImportSettled`), its key finds it again and writes what is there. |
| `FiguresAlwaysAgree` | `FiguresAgree` | Each figure is a sum over the rows of a query. A finite set is reached by adding elements (`SetsClimb`), so the sum exists (`AdderIs`), does not depend on the order (`AddOne`), adds over disjoint parts (`AddSplit`) and over groups by any key (`AddGroups`), and pairs may be counted from either side (`CountPairs`). Where the join repeats no order, the two profit pages add up the same accounted orders (`ProfitIs`, `SinglePagesAgree`); ranking, trend, sellers and days are groupings by customer, day, owner and first win; quotations and products are pairs, weighed by how often the join repeats a quotation (`WeighPairs`). For past wins: a win of today is not the first of an earlier day (`WinKept`). |
| `DatabaseStaysGood`, `RowsAlwaysKept`, `SchemaAlwaysServes` | `DataKept`, `SchemaServes` of `MigrationDesk` | `MigrationInv`: the schema is that of the stamp, but for the archive columns that stay and the holes a stale stamp may hide (`Holes`, which the repairs of 0005 and 0018 close), and each part of the row is what its revision makes of it (`StageKept`, `ScoreKept`, `PlanKept`, `OwnerKept`, `AmountKept`, `DealKept`, `TrailKept`). Every revision keeps it in both directions (`UpIsGood`, `DownIsGood`) and so do the steps of a run in a row (`ClimbReaches`, `DescendReaches`, `OutcomeIs`); a run that began from another stamp changes nothing, so overlapping runs are single runs. What two moments have in common (`Follows`) composes along a run. The names of the 32 revisions are compared once (`NamesDistinct`). |

The step lemmas are one per action, the frame conditions (what other requests
keep) one per kind of change. Where a desk has one component in two settings, the
proof is about the component with the setting as a parameter, once for what holds
with any overlap and once for what holds in order.

Functions defined by recursion (a run of migrations, the schema of a revision) are
shown to exist and to satisfy their equations by the least number for which that
would fail (`HasLeast`, `Climbing`), since the installed provers cannot instantiate
the induction theorems of the library.

Only model-checked: liveness and fairness (`RequestsEnd`, `MailHasItsTurn`,
`CallsEnd`), since ENABLED is outside this prover. Every other property of a passing
run is a theorem.

## Known disagreements

Where code and documentation, or two parts of the code, disagree. Four are runs
(`StageDrift`, `LinkRegression`, `LostTrail`, `QuotationElsewhere`); each of the
others is a property of its module that fails in the setting named, while a desk
checks what does hold. Six have a configuration beside the desk, named in the
first column, with which TLC shows the trace. To see another one, give the module
its setting in a `.cfg` with its specification `Spec` and the property.

| Property, setting | The code | The text it disagrees with |
|---|---|---|
| `QuotationLifecycle!SentStaysAsSent`, 2 sessions, 1 quotation, `MaxSave` 3 | `quotation_service.py:371`: `update_quotation` checks the status it read and writes later; `mark_sent` commits in between, and a Sent version changes | `quotation_service.py:371-372` "Sent quotation versions are immutable"; `README.md:221` |
| `QuotationLifecycle!ProductsAppearOnce`, the same | `:385`: two overlapping saves each delete the lines they read and insert their own | `:242` "Each product may only appear once in a quotation version." |
| `QuotationLifecycle!LinkIsKept`, the same | `:385`: two overlapping saves each make an opportunity; the first is deserted | nothing says so; `QuotesOneByOne` holds it in order |
| `MailSync!FirstImportIsBounded`, a window of 1, 2 messages, one fault | `mail_service.py:681`: the state row is committed before the bounded window is searched; after a crash the next run searches from UID 1 | docstring `:658` "after an initial bounded import" |
| `SentCopyIsNotFiled` of `MailDesk`, `SentTwice.cfg` | `mail_service.py:453`: the sent row is stored after SMTP accepted the mail; a synchronization by another instance in between files the provider's copy | comment `:453-457` "This prevents the IMAP copy from becoming a second Sent row" |
| `MailOutbox!SentShowsWhatWasSent`, `OneAtATime` FALSE | `:983`: saving a draft checks `is_draft` and writes later, over the text that is being sent | `:983` "This email is no longer a draft." |
| `MailOutbox!DraftSentOnce`, the same | `:834`: two overlapping sends of one draft both hand it to SMTP | `:834`, the same words |
| `MailOutbox!OpensAreCounted`, the same, 3 requests | `:1044`: `open_count` is increased in Python | `tests/test_mail_api.py:266` expects 2 after a second open |
| `FollowupActivity!ReminderOfLatest`, `OneAtATime` FALSE | `followup_service.py:57`: two overlapping writes compute the next date each without the other's row | `README.md:139` "the latest follow-up for each customer defines its current reminder" |
| `FollowupActivity!RecordedDateIsLatest` | `:66`: the customer gets the date of the latest follow-up, not of the one saved | `README.md:394-403` |
| `FlagFollowsWrites` of `OfficeDesk`, `StaleFlag.cfg` | `scripts/import_customer_archive.py:445`: an existing customer gets a new acquisition date and stage, and keeps its stored cold flag | `followup_reminder_service.py:5` "The database flag is refreshed whenever a customer or follow-up changes" |
| `ReminderCadence!EarlierExcluded` | `followup_reminder_service.py:148`: no condition on when the customer was acquired | `README.md:380-384` excludes records before 2026-08-12 |
| `ReminderCadence!NoDateNeverCold` | `followup_reminder_service.py:85-102`: cold depends on acquisition date and stage only | `README.md:390-393` "no date does not become cold automatically" |
| `ReminderCadence!TalkingDaily` | `schemas/system_settings.py:10`: 3 days | `README.md:386` "1 day"; the newer `README.md:256-262` agrees with the code |
| `ReminderCadence!OneColdState`, with saved rules | `customer_service.py:98`: the list filter has a condition of its own | docstring `models/customer.py:173` "for every read path" |
| `ArchiveImport!SamePerson`, `Edits` "any" | `scripts/import_customer_archive.py:296`: a row's key is made of its number; a row inserted above makes a repeated import update another person | `README.md:349`, may safely be repeated |
| `SavedScoreMaps` of `SalesDesk`, `LevelLeft.cfg` | `customer_service.py:456`: of two overlapping score changes one writes its score and leaves the level the other has changed | `README.md:137` "saving a score automatically maps 80-100 to A, 50-79 to B, and 0-49 to C" |
| `CustomerRecords!ScoresOnRecord`, `MayCrash` | `:245`: the history entry is a second transaction | `README.md:137` "Score changes are retained" |
| `ProductCatalog!SkuAnswerIsTrue`, 2 requests | `product_service.py:268`: every IntegrityError is answered as a taken SKU | `:270` "A product with this SKU already exists." |
| `ProductCatalog!Hierarchical`, 2 categories | `:127`: only a category that is its own parent is refused | `README.md:161` "hierarchical categories" |
| `PagesAgree` of `OfficeDesk`, `TwicePages.cfg` | `analytics_service.py:145`: the orders are joined to the opportunities of their customer, neither counts nor sums being distinct: an order of a customer with two opportunities counts twice here and once on the profit page. `sales_target_service.py:40-44` and `order_service.py:67` join alike | `README.md:223` "Business Analytics reports orders by `order_date`" |
| `AmountsOnce` of `OfficeDesk`, `TwiceQuoted.cfg` | `analytics_service.py:208`: the same join under the sum of quoted amounts, whose count is distinct | `README.md:419` "Quotation counts and amounts use each quotation's current version exactly once" |
| `ReportFigures!WonMeansWon` | `analytics_service.py:239`: the first win counts, reopened or not | `README.md:420-421` "a won opportunity's latest quotation" |
| `ReportFigures!LatestDefinesReminder`, 3 notes | `dashboard_service.py:166`: the largest id, not the latest date | `README.md:139` |
| `SecondTabStays` of `OfficeDesk`, `SecondTab.cfg` | `frontend/src/services/api.ts:70`: the slower of two refreshing tabs is refused, clears the shared storage and signs out | `docs/DEPLOYMENT.md:155-156` "Confirm a second browser tab can refresh an expired access token without requiring the user to log in again" |
| `Sessions!Rotates`, 2 requests of one tab | `auth_service.py:64`: a token refreshed within the second it was issued equals itself, and its unique hash is refused; the client answers that error, like any other, by signing out (`api.ts:70`) | `README.md:103`; `README.md:105-107` clears the session for an expired or revoked token |
| `Migrations!RepairPopulates`, starting at 17 with columns missing, `Topics` "reminders" | `0018_...py:30`: the repair adds empty columns | its docstring, line 23 "present and populated" |
| `Migrations!PlainUpgradeWorks`, `Prepares` FALSE | `0011_...py:13`: the revision id is longer than `version_num` | `README.md:78-86` gives `alembic upgrade head` alone |
| `AlibabaIntake!OneOfAKind`, `OneAtATime` FALSE, or a `CaseFold` that unfolds more than `SqlLower` | `alibaba_integration_service.py:37` looks and inserts without a lock; `:15` compares `lower()` with `casefold()` | `README.md:282` "returned instead of duplicated" |
| `TagCatalogue!NamesDistinct`, `OneAtATime` FALSE | `customer_service.py:362`: names are looked up without case, the index compares spellings | `:381` "A tag with this name already exists." |

Of rollbacks `Migrations` also shows (as faults its `FaultsKnown` lists): after a
downgrade below 0019 an upgrade fails on what is still there; the downgrade of 0021
always fails, creating the type `lead_status` by name and again with the table that
uses it (`CreatedTwice`), and so does that of 0012; that of 0003 fails on a repaired
database, and 0022 is never taken back.

Without overlap a client may also choose a level that is not the one of the score
(`schemas/customer.py:50`, `:89`), and an import changes stages without an entry in the
stage history (`import_customer_archive.py:452`); no text promises otherwise, so
`CustomersOnRecord` asks only that a score that changes brings its level, and that the
history ends at the stage unless an import has changed it.

## Not modelled

* PDF and Excel rendering: layout, without state.
* The timeline, the CSV export and the workbench tasks: plain listings.
* List filters and paging of customers, quotations and orders, but for the cold filter.
* Access rules and user administration: they refuse requests or write single rows;
  what a user may read of the mail is in `MailViews`.
* Pages of the client beyond the session handling: they render what the server answers.
* The form of a sales target and the settings form: one row, last write wins.
* Seed scripts, and a downgrade below the first revision.
