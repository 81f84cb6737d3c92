-------------------------- MODULE DealOrdersProofs --------------------------
(* Theorems about DealOrders for every set of opportunities, quotations,      *)
(* requests and numbers, every workload and every payload: its safety         *)
(* invariants; then what the order workflow promises of every step.  A deal   *)
(* is won with its order or not at all, and the requests together implement   *)
(* the order book of DealBook: both while no order is deleted, because        *)
(* deleting one leaves its opportunity Won without it, which delete_order     *)
(* does not look at.  Last, what holds for one request at a time.             *)
EXTENDS DealOrders, DealOrdersRefinement, FiniteSetTheorems, TLAPS
-----------------------------------------------------------------------------
(* The stage maps.                                                            *)

(* Every map is total on its stages and lands in the stages it is meant for.  *)
LEMMA MapsTyped ==
  /\ SalesToLegacy \in [SalesStages -> LegacyStages]
  /\ LegacyToSales \in [LegacyStages -> SalesStages]
  /\ DealToSales \in [DealStages -> SalesStages]
  /\ SalesToDeal \in [SalesStages -> DealStages]
  /\ LegacyOfDeal \in [DealStages -> LegacyStages]
  <1>1. SalesToLegacy \in [SalesStages -> LegacyStages]
    BY DEF SalesToLegacy, SalesStages, LegacyStages
  <1>2. LegacyToSales \in [LegacyStages -> SalesStages]
    BY DEF LegacyToSales, SalesStages, LegacyStages
  <1>3. DealToSales \in [DealStages -> SalesStages]
    BY DEF DealToSales, SalesStages, DealStages
  <1>4. SalesToDeal \in [SalesStages -> DealStages]
    BY DEF SalesToDeal, SalesStages, DealStages
  <1>5. LegacyOfDeal \in [DealStages -> LegacyStages]
    BY DEF LegacyOfDeal, LegacyStages, DealStages
  <1> QED BY <1>1, <1>2, <1>3, <1>4, <1>5

LEMMA OfSalesTyped == \A s \in SalesStages : OfSales(s) \in Triples
  BY MapsTyped DEF OfSales, Triples

(* Going through the sales stage gives the legacy value that goes with the    *)
(* deal value.                                                                *)
LEMMA OfSalesMatched == \A s \in SalesStages : Matched(OfSales(s))
  BY DEF OfSales, Matched, SalesStages, LegacyOfDeal, SalesToLegacy, SalesToDeal

(* Different deal stages have different legacy stages.                        *)
LEMMA LegacyOfDealInjective ==
  \A d, e \in DealStages : LegacyOfDeal[d] = LegacyOfDeal[e] => d = e
  BY DEF DealStages, LegacyOfDeal

(* Whatever combination of the three fields a request carries, the code       *)
(* resolves it to a coherent triple.                                          *)
LEMMA ResolveCoherent ==
  \A ask \in Asks : \E s \in SalesStages : Resolve(ask) = OfSales(s)
  BY MapsTyped DEF Asks, Resolve, SalesStages

LEMMA ResolveMatched == \A ask \in Asks : Resolve(ask) \in Triples /\ Matched(Resolve(ask))
  BY ResolveCoherent, OfSalesTyped, OfSalesMatched

LEMMA AdvancedTyped == \A t \in Triples : Advanced(t) \in Triples
  BY OfSalesTyped DEF Advanced, Quoted, SalesStages

LEMMA AdvancedMatched ==
  \A t \in Triples : Matched(t) => Advanced(t) \in Triples /\ Matched(Advanced(t))
  BY OfSalesTyped, OfSalesMatched DEF Advanced, Quoted, SalesStages

LEMMA WrittenTyped ==
  \A row, read, target \in Triples : Written(row, read, target) \in Triples
  BY DEF Written, LaterColumns, Triples

(* The heart of LegacyFollowsDeal: an UPDATE built from a matched reading and *)
(* a matched target writes the legacy and the deal column together or leaves  *)
(* both, so a matched row stays matched however stale the reading was.        *)
LEMMA WrittenMatched ==
  ASSUME NEW row \in Triples, NEW read \in Triples, NEW target \in Triples,
         Matched(row), Matched(read), Matched(target)
  PROVE  Matched(Written(row, read, target))
  <1>1. target.stage # read.stage <=> target.deal # read.deal
    BY LegacyOfDealInjective DEF Matched, Triples
  <1>2. CASE target.deal # read.deal
    BY <1>1, <1>2 DEF Written, LaterColumns, Matched
  <1>3. CASE target.deal = read.deal
    BY <1>1, <1>3 DEF Written, LaterColumns, Matched
  <1> QED BY <1>2, <1>3
-----------------------------------------------------------------------------
(* Type correctness.                                                          *)

LEMMA NewLeadTyped == NewLead \in Triples /\ Matched(NewLead)
  BY OfSalesTyped, OfSalesMatched DEF NewLead, SalesStages

LEMMA NoJobTyped == NoJob \in Jobs
  BY NewLeadTyped DEF NoJob, Jobs

LEMMA NoSnapTyped == NoSnap \in Snapshots
  BY NewLeadTyped DEF NoSnap, Snapshots

LEMMA AskedTyped ==
  ASSUME ConstantsAssumption, NEW ask \in Asked
  PROVE  Resolve(ask) \in Triples /\ Matched(Resolve(ask))
  BY ResolveMatched DEF ConstantsAssumption

LEMMA LinksTyped ==
  ASSUME TypeOK, NEW S \in SUBSET Opps
  PROVE  LinksTo(S) \in [Quotes -> Opps \cup {None}]
  BY DEF LinksTo, TypeOK

(* The variables that belong to requests, apart from the tables.              *)
SessionsTyped ==
  /\ lock \in [Opps -> Requests \cup {None}]
  /\ linkLock \in Requests \cup {None}
  /\ pc \in [Requests -> ControlPoints]
  /\ job \in [Requests -> Jobs]
  /\ snap \in [Requests -> Snapshots]
  /\ ins \in [Requests -> SUBSET OrderRows]
  /\ todo \in [Requests -> SUBSET Opps]

TablesTyped ==
  /\ oppState \in [Opps -> RowStates]
  /\ stageOf \in [Opps -> Triples]
  /\ quoteState \in [Quotes -> RowStates]
  /\ quoteOpp \in [Quotes -> Opps \cup {None}]
  /\ orders \subseteq OrderRows

LEMMA TypeOKSplit == TypeOK <=> TablesTyped /\ SessionsTyped
  BY DEF TypeOK, TablesTyped, SessionsTyped

LEMMA InitTyped == ConstantsAssumption /\ Init => TypeOK
  <1> SUFFICES ASSUME ConstantsAssumption, Init PROVE TypeOK
    OBVIOUS
  <1>1. TablesTyped
    BY AskedTyped, NewLeadTyped DEF Init, TablesTyped, RowStates
  <1>2. SessionsTyped
    BY NoJobTyped, NoSnapTyped DEF Init, SessionsTyped, ControlPoints
  <1> QED BY <1>1, <1>2, TypeOKSplit

LEMMA ReleaseTyped ==
  ASSUME TypeOK, NEW r \in Requests, Release(r)
  PROVE  SessionsTyped'
  BY NoJobTyped, NoSnapTyped DEF TypeOK, Release, FreeLinkLock, SessionsTyped, ControlPoints

LEMMA RollbackTyped ==
  ASSUME TypeOK, NEW r \in Requests, Rollback(r)
  PROVE  TypeOK'
  <1>1. SessionsTyped'
    BY ReleaseTyped DEF Rollback
  <1>2. TablesTyped'
    BY DEF Rollback, tables, TypeOK, TablesTyped
  <1> QED BY <1>1, <1>2, TypeOKSplit DEF TypeOK, TablesTyped, SessionsTyped

LEMMA GotoTyped ==
  ASSUME TypeOK, NEW r \in Requests, NEW point \in ControlPoints, Goto(r, point)
  PROVE  TypeOK'
  BY DEF Goto, TypeOK, tables

(* A request that starts gets a well-formed job and snapshot, and nothing     *)
(* else changes.                                                              *)
LEMMA StartTyped ==
  ASSUME ConstantsAssumption, TypeOK, NEW r \in Requests, Start(r)
  PROVE  TypeOK'
  <1> USE DEF Jobs, Snapshots, ControlPoints
  <1>1. ASSUME NEW o \in Opps, NEW ask \in Asked, LoadOpportunity(r, o, ask)
        PROVE  TypeOK'
    <2>1. [NoJob EXCEPT !.kind = "update", !.opp = o, !.target = Resolve(ask)] \in Jobs
      BY <1>1, NoJobTyped, AskedTyped DEF LoadOpportunity
    <2>2. [stage |-> stageOf[o], links |-> LinksTo({o})] \in Snapshots
      BY LinksTyped DEF TypeOK
    <2> QED BY <1>1, <2>1, <2>2 DEF LoadOpportunity, TypeOK, tables
  <1>2. ASSUME NEW o \in Opps \cup {None}, NEW q \in Quotes \cup {None}, NEW n \in Numbers,
               StartOrder(r, o, q, n)
        PROVE  TypeOK'
    <2>1. [NoJob EXCEPT !.kind = "order", !.opp = o, !.quote = q, !.no = n] \in Jobs
      BY <1>2, NoJobTyped DEF StartOrder
    <2> QED BY <1>2, <2>1 DEF StartOrder, TypeOK, tables
  <1>3. CASE StartBackfill(r)
    <2> DEFINE won == {o \in Opps : LiveOpp(o) /\ IsWon(stageOf[o])}
    <2>1. [NoJob EXCEPT !.kind = "backfill"] \in Jobs
      BY <1>3, NoJobTyped DEF StartBackfill
    <2>2. [NoSnap EXCEPT !.links = LinksTo(won)] \in Snapshots
      BY LinksTyped, NoSnapTyped
    <2> HIDE DEF Jobs, Snapshots
    <2> QED BY <1>3, <2>1, <2>2 DEF StartBackfill, TypeOK, tables
  <1>4. ASSUME NEW o \in Opps, StartDelete(r, o)
        PROVE  TypeOK'
    <2>1. [NoJob EXCEPT !.kind = "deleteOpportunity", !.opp = o] \in Jobs
      BY <1>4, NoJobTyped DEF StartDelete, LoadToDelete
    <2>2. [NoSnap EXCEPT !.links = LinksTo({o})] \in Snapshots
      BY LinksTyped, NoSnapTyped
    <2> QED BY <1>4, <2>1, <2>2 DEF StartDelete, LoadToDelete, TypeOK, tables
  <1>5. ASSUME NEW q \in Quotes \cup {None}, StartLink(r, q)
        PROVE  TypeOK'
    <2>1. [NoJob EXCEPT !.kind = "link", !.quote = q] \in Jobs
      BY <1>5, NoJobTyped DEF StartLink
    <2> QED BY <1>5, <2>1 DEF StartLink, TypeOK, tables
  <1> QED BY <1>1, <1>2, <1>3, <1>4, <1>5 DEF Start

LEMMA ChooseQuotationTyped ==
  ASSUME ConstantsAssumption, TypeOK, NEW r \in Requests, NEW o \in Opps \cup {None}, NEW q \in Quotes,
         ChooseQuotation(r, o, q)
  PROVE  job' \in [Requests -> Jobs] /\ pc' \in [Requests -> ControlPoints]
  <1>1. job[r] \in Jobs /\ q \in Numbers
    BY DEF TypeOK, ConstantsAssumption
  <1>2. [job[r] EXCEPT !.opp = o, !.quote = q, !.no = q] \in Jobs
    BY <1>1 DEF Jobs
  <1> QED BY <1>2 DEF TypeOK, ChooseQuotation, ControlPoints

LEMMA NewRowTyped ==
  ASSUME TypeOK, NEW r \in Requests, job[r].no # None
  PROVE  NewRow(r) \in OrderRows
  BY DEF TypeOK, Jobs, NewRow, OrderRows

(* A running request: one case per statement.  The only step that builds an   *)
(* order row needs a number to put in it.                                     *)
LEMMA StepTyped ==
  ASSUME ConstantsAssumption, TypeOK, NumberChosen, NEW r \in Requests, Step(r)
  PROVE  TypeOK'
  <1>1. CASE FindOrder(r)
    <2>1. CASE Goto(r, "commit")
      BY <2>1, GotoTyped DEF ControlPoints
    <2>2. CASE Rollback(r)
      BY <2>2, RollbackTyped
    <2>3. ASSUME NEW q \in Quotes, ChooseQuotation(r, job[r].opp, q),
                 UNCHANGED <<tables, lock, linkLock, snap, ins, todo>>
          PROVE  TypeOK'
      <3>1. job[r].opp \in Opps \cup {None}
        BY DEF TypeOK, Jobs
      <3>2. job' \in [Requests -> Jobs] /\ pc' \in [Requests -> ControlPoints]
        BY <2>3, <3>1, ChooseQuotationTyped
      <3> QED BY <2>3, <3>2 DEF TypeOK, tables
    <2> QED BY <1>1, <2>1, <2>2, <2>3 DEF FindOrder
  <1>2. CASE FindQuoteOrder(r)
    <2>1. AfterOrder(r) \in ControlPoints
      BY DEF AfterOrder, ControlPoints
    <2> QED BY <1>2, <2>1, GotoTyped, RollbackTyped DEF FindQuoteOrder, ControlPoints
  <1>3. CASE ValidateLinks(r)
    BY <1>3, GotoTyped, RollbackTyped DEF ValidateLinks, ControlPoints
  <1>4. CASE LockOpportunity(r)
    <2>1. CASE Rollback(r)
      BY <2>1, RollbackTyped
    <2>2. CASE ~ Rollback(r)
      BY <1>4, <2>2 DEF LockOpportunity, TypeOK, tables, ControlPoints
    <2> QED BY <2>1, <2>2
  <1>5. CASE Recheck(r)
    BY <1>5, GotoTyped, RollbackTyped DEF Recheck, ControlPoints
  <1>6. CASE InsertOrder(r)
    <2>1. CASE Rollback(r)
      BY <2>1, RollbackTyped
    <2>2. CASE ~ Rollback(r)
      <3>1. NewRow(r) \in OrderRows
        BY <1>6, NewRowTyped DEF InsertOrder, NumberChosen
      <3>2. AfterOrder(r) \in ControlPoints
        BY DEF AfterOrder, ControlPoints
      <3> QED BY <1>6, <2>2, <3>1, <3>2 DEF InsertOrder, TypeOK, tables
    <2> QED BY <2>1, <2>2
  <1>7. CASE CommitOrder(r) \/ CommitBackfill(r)
    <2>1. SessionsTyped'
      BY <1>7, ReleaseTyped DEF CommitOrder, CommitBackfill
    <2>2. TablesTyped'
      BY <1>7 DEF CommitOrder, CommitBackfill, TypeOK, TablesTyped
    <2> QED BY <2>1, <2>2 DEF TypeOK, TablesTyped, SessionsTyped
  <1>8. CASE CommitUpdate(r)
    <2>1. CASE Rollback(r)
      BY <2>1, RollbackTyped
    <2>2. CASE ~ Rollback(r)
      <3>1. SessionsTyped'
        BY <1>8, <2>2, ReleaseTyped DEF CommitUpdate
      <3>2. \A o \in Opps : Written(stageOf[o], snap[r].stage, job[r].target) \in Triples
        BY WrittenTyped DEF TypeOK, Jobs, Snapshots
      <3>3. TablesTyped'
        BY <1>8, <2>2, <3>2 DEF CommitUpdate, TypeOK, TablesTyped
      <3> QED BY <3>1, <3>3 DEF TypeOK, TablesTyped, SessionsTyped
    <2> QED BY <2>1, <2>2
  <1>9. ASSUME NEW o \in Opps, BackfillVisit(r, o)
        PROVE  TypeOK'
    <2>1. job' \in [Requests -> Jobs] /\ pc' \in [Requests -> ControlPoints]
      BY <1>9, ChooseQuotationTyped DEF BackfillVisit, TypeOK
    <2> QED BY <1>9, <2>1 DEF BackfillVisit, TypeOK, tables
  <1>10. CASE CommitDelete(r)
    <2>1. CASE Rollback(r)
      BY <2>1, RollbackTyped
    <2>2. CASE ~ Rollback(r)
      <3>1. SessionsTyped'
        BY <1>10, <2>2, ReleaseTyped DEF CommitDelete
      <3>2. orders' \subseteq OrderRows
        BY <1>10, <2>2 DEF CommitDelete, TypeOK, OrderRows
      <3>3. TablesTyped'
        BY <1>10, <2>2, <3>2, NewLeadTyped DEF CommitDelete, TypeOK, TablesTyped, RowStates
      <3> QED BY <3>1, <3>3 DEF TypeOK, TablesTyped, SessionsTyped
    <2> QED BY <2>1, <2>2
  <1>11. CASE MatchOpportunity(r)
    <2>1. ASSUME NEW o \in Opps
          PROVE  /\ [job[r] EXCEPT !.opp = o, !.target = Advanced(stageOf[o])] \in Jobs
                 /\ [NoSnap EXCEPT !.stage = stageOf[o]] \in Snapshots
      <3>1. stageOf[o] \in Triples /\ Advanced(stageOf[o]) \in Triples
        BY AdvancedTyped DEF TypeOK
      <3>2. job[r] \in Jobs
        BY DEF TypeOK
      <3> QED BY <3>1, <3>2, NoSnapTyped DEF Jobs, Snapshots
    <2>2. job' \in [Requests -> Jobs] /\ snap' \in [Requests -> Snapshots]
      <3>1. CASE UNCHANGED <<job, snap>>
        BY <3>1 DEF TypeOK
      <3>2. ASSUME NEW o \in Opps,
                   job' = [job EXCEPT ![r] = [@ EXCEPT !.opp = o, !.target = Advanced(stageOf[o])]],
                   snap' = [snap EXCEPT ![r] = [NoSnap EXCEPT !.stage = stageOf[o]]]
            PROVE  job' \in [Requests -> Jobs] /\ snap' \in [Requests -> Snapshots]
        BY <2>1, <3>2 DEF TypeOK
      <3> QED BY <1>11, <3>1, <3>2 DEF MatchOpportunity
    <2> QED BY <1>11, <2>2 DEF MatchOpportunity, TypeOK, tables, ControlPoints
  <1>12. CASE CommitLink(r)
    <2>1. CASE Rollback(r)
      BY <2>1, RollbackTyped
    <2>2. CASE ~ Rollback(r)
      <3>1. SessionsTyped'
        BY <1>12, <2>2, ReleaseTyped DEF CommitLink
      <3>2. \A o \in Opps : Written(stageOf[o], snap[r].stage, job[r].target) \in Triples
        BY WrittenTyped DEF TypeOK, Jobs, Snapshots
      <3>3. OfSales("QuotationSent") \in Triples
        BY OfSalesTyped DEF SalesStages
      <3>4. TablesTyped'
        BY <1>12, <2>2, <3>2, <3>3 DEF CommitLink, TypeOK, TablesTyped, RowStates
      <3> QED BY <3>1, <3>4 DEF TypeOK, TablesTyped, SessionsTyped
    <2> QED BY <2>1, <2>2
  <1> QED BY <1>1, <1>2, <1>3, <1>4, <1>5, <1>6, <1>7, <1>8, <1>9, <1>10, <1>11, <1>12
      DEF Step

LEMMA ImmediateTyped ==
  ASSUME ConstantsAssumption, TypeOK, Immediate
  PROVE  TypeOK'
  <1>1. ASSUME NEW o \in Opps, NEW ask \in Asked, CreateOpportunity(o, ask)
        PROVE  TypeOK'
    BY <1>1, AskedTyped DEF CreateOpportunity, TypeOK, sessions, RowStates
  <1>2. ASSUME NEW o \in Opps \cup {None}, NEW q \in Quotes, CreateQuotation(o, q)
        PROVE  TypeOK'
    BY <1>2 DEF CreateQuotation, TypeOK, sessions, RowStates
  <1>3. ASSUME NEW q \in Quotes, DeleteQuotation(q)
        PROVE  TypeOK'
    <2>1. orders' \subseteq OrderRows
      BY <1>3 DEF DeleteQuotation, TypeOK, OrderRows
    <2> QED BY <1>3, <2>1 DEF DeleteQuotation, TypeOK, sessions, RowStates
  <1>4. ASSUME NEW x \in orders, NEW n \in Numbers, Renumber(x, n)
        PROVE  TypeOK'
    <2>1. [x EXCEPT !.no = n] \in OrderRows
      BY DEF TypeOK, OrderRows
    <2> QED BY <1>4, <2>1 DEF Renumber, TypeOK, sessions
  <1>5. ASSUME NEW x \in orders, DeleteOrder(x)
        PROVE  TypeOK'
    BY <1>5 DEF DeleteOrder, TypeOK, sessions
  <1> QED BY <1>1, <1>2, <1>3, <1>4, <1>5 DEF Immediate

(* Every step keeps the types.                                                *)
LEMMA NextTyped ==
  ASSUME ConstantsAssumption, TypeOK, NumberChosen, [Next]_vars
  PROVE  TypeOK'
  <1>1. CASE UNCHANGED vars
    BY <1>1 DEF vars, TypeOK
  <1>2. ASSUME NEW r \in Requests, Fail(r) \/ DeadlockVictim(r)
        PROVE  TypeOK'
    BY <1>2, RollbackTyped DEF Fail, DeadlockVictim
  <1> QED BY <1>1, <1>2, StartTyped, StepTyped, ImmediateTyped DEF Next

(* Who gets past _select_order_quotation or names a number in the payload     *)
(* keeps that number until the transaction ends.                              *)
LEMMA NextNumberChosen ==
  ASSUME ConstantsAssumption, TypeOK, NumberChosen, [Next]_vars
  PROVE  NumberChosen'
  <1> USE DEF NumberChosen
  <1>1. CASE UNCHANGED vars
    BY <1>1 DEF vars
  <1>2. CASE Immediate
    BY <1>2 DEF Immediate, CreateOpportunity, CreateQuotation, DeleteQuotation, Renumber,
                DeleteOrder, sessions
  <1>3. ASSUME NEW r \in Requests, Release(r)
        PROVE  NumberChosen'
    BY <1>3 DEF Release, TypeOK
  <1>4. ASSUME NEW r \in Requests, NEW o, NEW q \in Quotes, ChooseQuotation(r, o, q)
        PROVE  NumberChosen'
    BY <1>4 DEF ChooseQuotation, TypeOK, ConstantsAssumption, Jobs
  <1>5. ASSUME NEW r \in Requests, Start(r)
        PROVE  NumberChosen'
    <2>1. CASE \E o \in Opps, ask \in Asked : LoadOpportunity(r, o, ask)
      BY <2>1 DEF LoadOpportunity, TypeOK
    <2>2. ASSUME NEW o \in Opps \cup {None}, NEW q \in Quotes \cup {None}, NEW n \in Numbers,
                 StartOrder(r, o, q, n)
          PROVE  NumberChosen'
      <3>1. job'[r].no # None
        BY <2>2 DEF StartOrder, TypeOK, ConstantsAssumption, NoJob
      <3> QED BY <2>2, <3>1 DEF StartOrder, TypeOK
    <2>3. CASE StartBackfill(r)
      BY <2>3 DEF StartBackfill, TypeOK
    <2>4. CASE (\E o \in Opps : StartDelete(r, o)) \/ (\E q \in Quotes \cup {None} : StartLink(r, q))
      BY <2>4 DEF StartDelete, LoadToDelete, StartLink, TypeOK
    <2> QED BY <1>5, <2>1, <2>2, <2>3, <2>4 DEF Start
  <1>6. ASSUME NEW r \in Requests, Step(r), ~ Release(r)
        PROVE  NumberChosen'
    <2>1. CASE FindOrder(r) \/ (\E o \in Opps : BackfillVisit(r, o))
      <3>1. CASE \E o, q : q \in Quotes /\ ChooseQuotation(r, o, q)
        BY <1>4, <3>1
      <3>2. CASE Goto(r, "commit")
        BY <3>2 DEF Goto, TypeOK
      <3>3. CASE UNCHANGED <<job, pc>>
        BY <3>3
      <3> QED BY <1>6, <2>1, <3>1, <3>2, <3>3 DEF FindOrder, BackfillVisit, Rollback
    <2>2. CASE FindQuoteOrder(r) \/ ValidateLinks(r) \/ Recheck(r)
      BY <1>6, <2>2 DEF FindQuoteOrder, ValidateLinks, Recheck, Goto, Rollback, AfterOrder, TypeOK
    <2>3. CASE LockOpportunity(r) \/ InsertOrder(r)
      BY <1>6, <2>3 DEF LockOpportunity, InsertOrder, Rollback, AfterOrder, TypeOK
    <2>4. CASE CommitOrder(r) \/ CommitUpdate(r) \/ CommitBackfill(r) \/ CommitDelete(r) \/ CommitLink(r)
      BY <1>6, <2>4 DEF CommitOrder, CommitUpdate, CommitBackfill, CommitDelete, CommitLink, Rollback
    <2>5. CASE MatchOpportunity(r)
      BY <2>5 DEF MatchOpportunity, TypeOK
    <2> QED BY <1>6, <2>1, <2>2, <2>3, <2>4, <2>5 DEF Step
  <1>7. ASSUME NEW r \in Requests, Fail(r) \/ DeadlockVictim(r)
        PROVE  NumberChosen'
    BY <1>3, <1>7 DEF Fail, DeadlockVictim, Rollback
  <1> QED BY <1>1, <1>2, <1>3, <1>5, <1>6, <1>7 DEF Next

(* Every reachable state is well typed.                                       *)
THEOREM TypeCorrect == Spec => []TypeOK
  <1>1. ConstantsAssumption
    BY ConstantsAssumption
  <1>2. Init => TypeOK /\ NumberChosen
    BY <1>1, InitTyped DEF Init, NumberChosen
  <1>3. TypeOK /\ NumberChosen /\ [Next]_vars => TypeOK' /\ NumberChosen'
    BY <1>1, NextTyped, NextNumberChosen
  <1> QED BY <1>2, <1>3, PTL DEF Spec
-----------------------------------------------------------------------------
(* The legacy and the deal column.                                            *)

LEMMA InitMatched == ConstantsAssumption /\ Init => MatchedEverywhere
  BY AskedTyped, NewLeadTyped DEF Init, MatchedEverywhere, NoJob, NoSnap

(* A finished request is left with the matched triples of NoJob and NoSnap.   *)
LEMMA ReleaseMatched ==
  ASSUME TypeOK, MatchedEverywhere, NEW r \in Requests, Release(r)
  PROVE  \A s \in Requests : Matched(snap'[s].stage) /\ Matched(job'[s].target)
  BY NewLeadTyped DEF Release, TypeOK, MatchedEverywhere, NoJob, NoSnap

LEMMA RollbackMatched ==
  ASSUME TypeOK, MatchedEverywhere, NEW r \in Requests, Rollback(r)
  PROVE  MatchedEverywhere'
  BY ReleaseMatched DEF Rollback, tables, MatchedEverywhere

LEMMA ChooseQuotationMatched ==
  ASSUME TypeOK, MatchedEverywhere, NEW r \in Requests, NEW o, NEW q, ChooseQuotation(r, o, q),
         UNCHANGED <<stageOf, snap>>
  PROVE  MatchedEverywhere'
  <1>1. \A s \in Requests : job'[s].target = job[s].target
    BY DEF ChooseQuotation, TypeOK, Jobs
  <1> QED BY <1>1 DEF MatchedEverywhere

LEMMA StartMatched ==
  ASSUME ConstantsAssumption, TypeOK, MatchedEverywhere, NEW r \in Requests, Start(r)
  PROVE  MatchedEverywhere'
  <1> USE DEF MatchedEverywhere
  <1>1. ASSUME NEW o \in Opps, NEW ask \in Asked, LoadOpportunity(r, o, ask)
        PROVE  MatchedEverywhere'
    <2>1. job'[r].target = Resolve(ask) /\ snap'[r].stage = stageOf[o]
      BY <1>1 DEF LoadOpportunity, TypeOK, NoJob
    <2> QED BY <1>1, <2>1, AskedTyped DEF LoadOpportunity, TypeOK, tables
  <1>2. ASSUME NEW o \in Opps \cup {None}, NEW q \in Quotes \cup {None}, NEW n \in Numbers,
               StartOrder(r, o, q, n)
        PROVE  MatchedEverywhere'
    <2>1. job'[r].target = NewLead
      BY <1>2 DEF StartOrder, TypeOK, NoJob
    <2> QED BY <1>2, <2>1, NewLeadTyped DEF StartOrder, TypeOK, tables
  <1>3. CASE StartBackfill(r)
    <2>1. job'[r].target = NewLead /\ snap'[r].stage = NewLead
      BY <1>3 DEF StartBackfill, TypeOK, NoJob, NoSnap
    <2> QED BY <1>3, <2>1, NewLeadTyped DEF StartBackfill, TypeOK, tables
  <1>4. ASSUME NEW o \in Opps, StartDelete(r, o)
        PROVE  MatchedEverywhere'
    <2>1. job'[r].target = NewLead /\ snap'[r].stage = NewLead
      BY <1>4 DEF StartDelete, LoadToDelete, TypeOK, NoJob, NoSnap
    <2> QED BY <1>4, <2>1, NewLeadTyped DEF StartDelete, LoadToDelete, TypeOK, tables
  <1>5. ASSUME NEW q \in Quotes \cup {None}, StartLink(r, q)
        PROVE  MatchedEverywhere'
    <2>1. job'[r].target = NewLead
      BY <1>5 DEF StartLink, TypeOK, NoJob
    <2> QED BY <1>5, <2>1, NewLeadTyped DEF StartLink, TypeOK, tables
  <1> QED BY <1>1, <1>2, <1>3, <1>4, <1>5 DEF Start

LEMMA StepMatched ==
  ASSUME ConstantsAssumption, TypeOK, MatchedEverywhere, NEW r \in Requests, Step(r)
  PROVE  MatchedEverywhere'
  <1>1. CASE Rollback(r)
    BY <1>1, RollbackMatched
  <1>2. CASE UNCHANGED <<stageOf, job, snap>>
    BY <1>2 DEF MatchedEverywhere
  <1>3. ASSUME NEW o, NEW q, ChooseQuotation(r, o, q), UNCHANGED <<stageOf, snap>>
        PROVE  MatchedEverywhere'
    BY <1>3, ChooseQuotationMatched
  <1>4. ASSUME UNCHANGED stageOf, Release(r)
        PROVE  MatchedEverywhere'
    BY <1>4, ReleaseMatched DEF MatchedEverywhere
  (* What a request writes over a row, from its reading and its target.       *)
  <1>5. \A o \in Opps : Matched(Written(stageOf[o], snap[r].stage, job[r].target))
    <2>1. /\ \A o \in Opps : stageOf[o] \in Triples
          /\ snap[r].stage \in Triples /\ job[r].target \in Triples
      BY DEF TypeOK, Snapshots, Jobs
    <2> QED BY <2>1, WrittenMatched DEF MatchedEverywhere
  <1>6. CASE CommitUpdate(r) /\ ~ Rollback(r)
    <2>1. \A o \in Opps : \/ stageOf'[o] = stageOf[o]
                         \/ stageOf'[o] = Written(stageOf[o], snap[r].stage, job[r].target)
      BY <1>6 DEF CommitUpdate, TypeOK
    <2>2. Release(r)
      BY <1>6 DEF CommitUpdate
    <2> QED BY <1>5, <2>1, <2>2, ReleaseMatched DEF MatchedEverywhere
  <1>7. CASE CommitDelete(r) /\ ~ Rollback(r)
    BY <1>7, ReleaseMatched, NewLeadTyped DEF CommitDelete, MatchedEverywhere, TypeOK
  <1>8. CASE MatchOpportunity(r)
    <2>1. ASSUME NEW o \in Opps, UNCHANGED stageOf,
                 job' = [job EXCEPT ![r] = [@ EXCEPT !.opp = o, !.target = Advanced(stageOf[o])]],
                 snap' = [snap EXCEPT ![r] = [NoSnap EXCEPT !.stage = stageOf[o]]]
          PROVE  MatchedEverywhere'
      <3>1. Matched(Advanced(stageOf[o]))
        BY AdvancedMatched DEF TypeOK, MatchedEverywhere
      <3>2. job'[r].target = Advanced(stageOf[o]) /\ snap'[r].stage = stageOf[o]
        BY <2>1 DEF TypeOK, Jobs, NoSnap
      <3> QED BY <2>1, <3>1, <3>2 DEF TypeOK, MatchedEverywhere
    <2> QED BY <1>2, <1>8, <2>1 DEF MatchOpportunity, tables
  <1>9. CASE CommitLink(r) /\ ~ Rollback(r)
    <2>1. Matched(OfSales("QuotationSent"))
      BY OfSalesMatched DEF SalesStages
    <2> QED BY <1>5, <1>9, <2>1, ReleaseMatched DEF CommitLink, MatchedEverywhere, TypeOK
  <1>10. CASE FindOrder(r) \/ FindQuoteOrder(r) \/ ValidateLinks(r) \/ LockOpportunity(r)
              \/ Recheck(r) \/ InsertOrder(r)
    BY <1>1, <1>2, <1>3, <1>10 DEF FindOrder, FindQuoteOrder, ValidateLinks, LockOpportunity,
       Recheck, InsertOrder, Goto, tables
  <1>11. CASE CommitOrder(r) \/ CommitBackfill(r) \/ \E o \in Opps : BackfillVisit(r, o)
    BY <1>2, <1>3, <1>4, <1>11 DEF CommitOrder, CommitBackfill, BackfillVisit, tables
  <1> QED BY <1>1, <1>6, <1>7, <1>8, <1>9, <1>10, <1>11 DEF Step

LEMMA NextMatched ==
  ASSUME ConstantsAssumption, TypeOK, MatchedEverywhere, [Next]_vars
  PROVE  MatchedEverywhere'
  <1>1. CASE UNCHANGED vars
    BY <1>1 DEF vars, MatchedEverywhere
  <1>2. CASE Immediate
    BY <1>2, AskedTyped DEF Immediate, CreateOpportunity, CreateQuotation, DeleteQuotation,
       Renumber, DeleteOrder, sessions, MatchedEverywhere, TypeOK
  <1>3. ASSUME NEW r \in Requests, Fail(r) \/ DeadlockVictim(r)
        PROVE  MatchedEverywhere'
    BY <1>3, RollbackMatched DEF Fail, DeadlockVictim
  <1> QED BY <1>1, <1>2, <1>3, StartMatched, StepMatched DEF Next

(* The V3 column follows the V9 column under every interleaving: no number of *)
(* stale readers can part them.  (The V7 column has no such luck: the runs    *)
(* show StagesAgree violated.)                                                *)
THEOREM LegacyColumnFollows == Spec => []LegacyFollowsDeal
  <1>1. ConstantsAssumption
    BY ConstantsAssumption
  <1>2. Init => MatchedEverywhere
    BY <1>1, InitMatched
  <1>3. TypeOK /\ MatchedEverywhere /\ [Next]_vars => MatchedEverywhere'
    BY <1>1, NextMatched
  <1>4. MatchedEverywhere => LegacyFollowsDeal
    BY DEF MatchedEverywhere, LegacyFollowsDeal
  <1> QED BY <1>2, <1>3, <1>4, TypeCorrect, PTL DEF Spec
-----------------------------------------------------------------------------
(* Why an opportunity never has two orders, and an order number or quotation  *)
(* never two rows, although the checks that guard them are made statements    *)
(* before the row is written.                                                 *)

(* What the other request s has reserved survives a step of r that leaves s   *)
(* and the locks of s alone and brings no row into the ledger for a page that *)
(* is neither in use nor locked by r.                                         *)
LEMMA OthersReserved ==
  ASSUME ConstantsAssumption, TypeOK, ReservationInv,
         NEW r \in Requests, NEW s \in Requests, s # r,
         job'[s] = job[s], pc'[s] = pc[s], ins'[s] = ins[s],
         \A o \in Opps : lock[o] = s => lock'[o] = s,
         \A x \in orders' : x.opp # None =>
            lock[x.opp] = r \/ \E y \in orders : y.opp = x.opp
  PROVE  Reserved(s)'
  <1> DEFINE o == job[s].opp
  <1>1. Reserved(s)
    BY DEF ReservationInv
  <1>2. o \in Opps \cup {None}
    BY DEF TypeOK, Jobs
  <1>3. \A x \in ins[s] : x.opp \in Opps \cup {None}
    BY DEF TypeOK, OrderRows
  <1>4. (pc[s] \in {"recheck", "insert"} /\ o # None => lock[o] = s)'
    BY <1>1, <1>2 DEF Reserved
  <1>5. (pc[s] = "insert" /\ o # None => ~ OpportunityHasOrder(s, o))'
    BY <1>1 DEF Reserved, OpportunityHasOrder, Visible
  <1>6. ASSUME NEW x \in ins[s], x.opp # None
        PROVE  /\ lock'[x.opp] = s
               /\ \A y \in orders' : y.opp # x.opp
               /\ \A y \in ins[s] : (y.opp = x.opp => y = x)
    BY <1>1, <1>3, <1>6 DEF Reserved
  <1> QED BY <1>4, <1>5, <1>6 DEF Reserved

(* A step in which r itself neither enters the guarded statements nor writes. *)
LEMMA QuietReserved ==
  ASSUME ReservationInv, NEW r \in Requests,
         pc'[r] \notin {"recheck", "insert"},
         UNCHANGED <<orders, lock, ins>>
  PROVE  Reserved(r)'
  BY DEF ReservationInv, Reserved

(* The end of a transaction of r, whose rows may have joined the ledger.      *)
LEMMA ReleaseReserved ==
  ASSUME ConstantsAssumption, TypeOK, ReservationInv, NEW r \in Requests, Release(r),
         \A x \in orders' : x.opp # None =>
            lock[x.opp] = r \/ \E y \in orders : y.opp = x.opp
  PROVE  ReservationInv'
  <1>1. Reserved(r)'
    BY DEF Release, Reserved, TypeOK
  <1>2. ASSUME NEW s \in Requests, s # r
        PROVE  Reserved(s)'
    <2>1. job'[s] = job[s] /\ pc'[s] = pc[s] /\ ins'[s] = ins[s]
      BY <1>2 DEF Release, TypeOK
    <2>2. \A o \in Opps : lock[o] = s => lock'[o] = s
      BY <1>2 DEF Release, TypeOK
    <2> QED BY <1>2, <2>1, <2>2, OthersReserved
  <1> QED BY <1>1, <1>2 DEF ReservationInv

(* A step of r that changes neither the ledger nor an uncommitted row, and at *)
(* most takes a lock that was free.                                           *)
LEMMA ReadReserved ==
  ASSUME ConstantsAssumption, TypeOK, ReservationInv, NEW r \in Requests, Reserved(r)',
         UNCHANGED <<orders, ins>>,
         \A s \in Requests \ {r} : job'[s] = job[s] /\ pc'[s] = pc[s],
         \A o \in Opps : lock[o] # None => lock'[o] = lock[o]
  PROVE  ReservationInv'
  <1>1. ASSUME NEW s \in Requests, s # r
        PROVE  Reserved(s)'
    <2>1. \A o \in Opps : lock[o] = s => lock'[o] = s
      BY DEF ConstantsAssumption
    <2> QED BY <1>1, <2>1, OthersReserved
  <1> QED BY <1>1 DEF ReservationInv

LEMMA StartReserved ==
  ASSUME ConstantsAssumption, TypeOK, ReservationInv, NEW r \in Requests, Start(r)
  PROVE  ReservationInv'
  <1>1. /\ UNCHANGED <<orders, lock, ins>>
        /\ pc'[r] \notin {"recheck", "insert"}
        /\ \A s \in Requests \ {r} : job'[s] = job[s] /\ pc'[s] = pc[s]
    BY DEF Start, LoadOpportunity, StartOrder, StartBackfill, StartDelete, LoadToDelete, StartLink, TypeOK, tables
  <1> QED BY <1>1, QuietReserved, ReadReserved

(* Committed rows come from pages that r holds locked, or were there.         *)
LEMMA CommittedPages ==
  ASSUME ReservationInv, NEW r \in Requests, orders' = orders \cup ins[r]
  PROVE  \A x \in orders' : x.opp # None =>
            lock[x.opp] = r \/ \E y \in orders : y.opp = x.opp
  BY DEF ReservationInv, Reserved

(* Deleting an opportunity only takes orders off pages.                       *)
LEMMA DeletedPages ==
  ASSUME TypeOK, NEW r \in Requests, CommitDelete(r), ~ Rollback(r)
  PROVE  \A x \in orders' : x.opp # None => \E y \in orders : y.opp = x.opp
  BY DEF CommitDelete, TypeOK, OrderRows

LEMMA StepReserved ==
  ASSUME ConstantsAssumption, TypeOK, ReservationInv, NEW r \in Requests, Step(r)
  PROVE  ReservationInv'
  <1>1. ASSUME Release(r), UNCHANGED orders
        PROVE  ReservationInv'
    BY <1>1, ReleaseReserved
  <1>2. ASSUME Release(r), orders' = orders \cup ins[r]
        PROVE  ReservationInv'
    BY <1>2, CommittedPages, ReleaseReserved
  <1>3. CASE Rollback(r)
    BY <1>1, <1>3 DEF Rollback, tables
  <1>4. ASSUME NEW o, NEW q, ChooseQuotation(r, o, q), UNCHANGED <<orders, lock, ins>>
        PROVE  ReservationInv'
    <2>1. /\ pc'[r] \notin {"recheck", "insert"}
          /\ \A s \in Requests \ {r} : job'[s] = job[s] /\ pc'[s] = pc[s]
      BY <1>4 DEF ChooseQuotation, TypeOK
    <2> QED BY <1>4, <2>1, QuietReserved, ReadReserved
  <1>5. ASSUME NEW point \in {"commit", "validate", "lock", "scan"}, Goto(r, point)
        PROVE  ReservationInv'
    <2>1. /\ UNCHANGED <<orders, lock, ins>>
          /\ pc'[r] \notin {"recheck", "insert"}
          /\ \A s \in Requests \ {r} : job'[s] = job[s] /\ pc'[s] = pc[s]
      BY <1>5 DEF Goto, TypeOK, tables
    <2> QED BY <2>1, QuietReserved, ReadReserved
  <1>6. CASE FindOrder(r) \/ FindQuoteOrder(r)
    BY <1>3, <1>4, <1>5, <1>6 DEF FindOrder, FindQuoteOrder, AfterOrder, tables
  <1>7. CASE ValidateLinks(r)
    <2>1. CASE job[r].opp = None /\ Goto(r, "recheck")
      <3>1. Reserved(r)'
        BY <2>1 DEF Goto, TypeOK, ReservationInv, Reserved, tables
      <3> QED BY <2>1, <3>1, ReadReserved DEF Goto, TypeOK, tables
    <2> QED BY <1>3, <1>5, <1>7, <2>1 DEF ValidateLinks
  <1>8. CASE LockOpportunity(r) /\ ~ Rollback(r)
    <2>1. /\ lock[job[r].opp] = None /\ lock' = [lock EXCEPT ![job[r].opp] = r]
          /\ pc' = [pc EXCEPT ![r] = "recheck"]
          /\ UNCHANGED <<orders, job, ins>>
      BY <1>8 DEF LockOpportunity, tables
    <2>2. job[r].opp \in Opps \cup {None}
      BY DEF TypeOK, Jobs
    <2>3. \A x \in ins[r] : x.opp \in Opps \cup {None}
      BY DEF TypeOK, OrderRows
    <2>4. Reserved(r)'
      <3>1. Reserved(r)
        BY DEF ReservationInv
      <3>2. (pc[r] \in {"recheck", "insert"} /\ job[r].opp # None => lock[job[r].opp] = r)'
        BY <2>1, <2>2 DEF TypeOK
      <3>3. pc'[r] # "insert"
        BY <2>1 DEF TypeOK
      <3>4. \A x \in ins[r] : x.opp # None => lock'[x.opp] = r
        BY <2>1, <2>3, <3>1 DEF TypeOK, Reserved
      <3> QED BY <2>1, <3>1, <3>2, <3>3, <3>4 DEF Reserved
    <2> QED BY <2>1, <2>4, ReadReserved DEF TypeOK
  <1>9. CASE Recheck(r) /\ ~ Rollback(r)
    <2>1. /\ pc' = [pc EXCEPT ![r] = "insert"] /\ pc[r] = "recheck"
          /\ UNCHANGED <<orders, lock, job, ins>>
          /\ job[r].opp # None => ~ OpportunityHasOrder(r, job[r].opp)
      BY <1>9 DEF Recheck, ClearToInsert, Goto, tables
    <2>2. Reserved(r)'
      BY <2>1 DEF TypeOK, ReservationInv, Reserved, OpportunityHasOrder, Visible
    <2> QED BY <2>1, <2>2, ReadReserved DEF TypeOK
  <1>10. CASE InsertOrder(r) /\ ~ Rollback(r)
    <2>1. /\ ins' = [ins EXCEPT ![r] = @ \cup {NewRow(r)}]
          /\ pc' = [pc EXCEPT ![r] = AfterOrder(r)] /\ pc[r] = "insert"
          /\ UNCHANGED <<orders, lock, job>>
      BY <1>10 DEF InsertOrder, tables
    <2>2. Reserved(r)
      BY DEF ReservationInv
    <2>3. ins'[r] = ins[r] \cup {NewRow(r)} /\ pc'[r] \notin {"recheck", "insert"}
      BY <2>1 DEF TypeOK, AfterOrder
    <2>4. ASSUME NewRow(r).opp # None
          PROVE  /\ lock[NewRow(r).opp] = r
                 /\ \A y \in orders \cup ins[r] : y.opp # NewRow(r).opp
      BY <2>1, <2>2, <2>4 DEF Reserved, NewRow, OpportunityHasOrder, Visible
    <2>5. Reserved(r)'
      BY <2>1, <2>2, <2>3, <2>4 DEF Reserved
    <2>6. ASSUME NEW s \in Requests, s # r
          PROVE  Reserved(s)'
      <3>1. ins'[s] = ins[s] /\ pc'[s] = pc[s] /\ job'[s] = job[s]
        BY <2>1, <2>6 DEF TypeOK
      <3> QED BY <2>1, <2>6, <3>1, OthersReserved
    <2> QED BY <2>5, <2>6 DEF ReservationInv
  <1>11. CASE CommitOrder(r) \/ CommitUpdate(r) \/ CommitBackfill(r)
    BY <1>2, <1>3, <1>11 DEF CommitOrder, CommitUpdate, CommitBackfill
  <1>12. ASSUME NEW o \in Opps, BackfillVisit(r, o)
         PROVE  ReservationInv'
    <2>1. UNCHANGED <<orders, lock, ins>>
      BY <1>12 DEF BackfillVisit, tables
    <2>2. CASE UNCHANGED <<job, pc>>
      BY <2>1, <2>2 DEF ReservationInv, Reserved, OpportunityHasOrder, Visible
    <2>3. CASE \E q \in Quotes : ChooseQuotation(r, o, q)
      BY <1>4, <2>1, <2>3
    <2> QED BY <1>12, <2>2, <2>3 DEF BackfillVisit
  <1>13. CASE CommitDelete(r)
    <2>1. CASE ~ Rollback(r)
      <3>1. Release(r)
        BY <1>13, <2>1 DEF CommitDelete
      <3> QED BY <1>13, <2>1, <3>1, DeletedPages, ReleaseReserved
    <2> QED BY <1>3, <2>1
  <1>14. CASE MatchOpportunity(r)
    <2>1. /\ UNCHANGED <<orders, lock, ins>>
          /\ pc'[r] \notin {"recheck", "insert"}
          /\ \A s \in Requests \ {r} : job'[s] = job[s] /\ pc'[s] = pc[s]
      BY <1>14 DEF MatchOpportunity, TypeOK, tables
    <2> QED BY <2>1, QuietReserved, ReadReserved
  <1>15. CASE CommitLink(r)
    BY <1>1, <1>3, <1>15 DEF CommitLink
  <1> QED BY <1>3, <1>6, <1>7, <1>8, <1>9, <1>10, <1>11, <1>12, <1>13, <1>14, <1>15 DEF Step

(* Clients that write in one statement take orders off pages or renumber      *)
(* them; no request notices.                                                  *)
LEMMA ImmediatePages ==
  ASSUME TypeOK, Immediate
  PROVE  \A x \in orders' : x.opp # None => \E y \in orders : y.opp = x.opp
  <1>1. CASE UNCHANGED orders
    BY <1>1
  <1>2. ASSUME NEW q \in Quotes, DeleteQuotation(q)
        PROVE  \A x \in orders' : x.opp # None => \E y \in orders : y.opp = x.opp
    BY <1>2 DEF DeleteQuotation, TypeOK, OrderRows
  <1>3. ASSUME NEW x \in orders, NEW n \in Numbers, Renumber(x, n)
        PROVE  \A z \in orders' : z.opp # None => \E y \in orders : y.opp = z.opp
    BY <1>3 DEF Renumber, TypeOK, OrderRows
  <1>4. CASE \E x \in orders : DeleteOrder(x)
    BY <1>4 DEF DeleteOrder
  <1> QED BY <1>1, <1>2, <1>3, <1>4 DEF Immediate, CreateOpportunity, CreateQuotation

LEMMA NextReserved ==
  ASSUME ConstantsAssumption, TypeOK, ReservationInv, [Next]_vars
  PROVE  ReservationInv'
  <1>1. CASE UNCHANGED vars
    BY <1>1 DEF vars, ReservationInv, Reserved, OpportunityHasOrder, Visible
  <1>2. CASE Immediate
    <2>1. UNCHANGED <<lock, pc, job, ins>>
      BY <1>2 DEF Immediate, CreateOpportunity, CreateQuotation, DeleteQuotation, Renumber,
                  DeleteOrder, sessions
    <2>2. \A x \in orders' : x.opp # None => \E y \in orders : y.opp = x.opp
      BY <1>2, ImmediatePages
    <2> QED BY <2>1, <2>2 DEF ReservationInv, Reserved, OpportunityHasOrder, Visible
  <1>3. ASSUME NEW r \in Requests, Fail(r) \/ DeadlockVictim(r)
        PROVE  ReservationInv'
    BY <1>3, ReleaseReserved DEF Fail, DeadlockVictim, Rollback, tables
  <1> QED BY <1>1, <1>2, <1>3, StartReserved, StepReserved DEF Next

(* One order to a page: what is committed on a page was locked and orderless. *)
LEMMA NextOneOrder ==
  ASSUME TypeOK, ReservationInv, OneOrderPerOpportunity, [Next]_vars
  PROVE  OneOrderPerOpportunity'
  <1> USE DEF OneOrderPerOpportunity
  <1>1. CASE UNCHANGED orders
    BY <1>1
  <1>2. ASSUME NEW r \in Requests, orders' = orders \cup ins[r]
        PROVE  OneOrderPerOpportunity'
    BY <1>2 DEF ReservationInv, Reserved
  <1>3. ASSUME NEW r \in Requests, CommitDelete(r), ~ Rollback(r)
        PROVE  OneOrderPerOpportunity'
    BY <1>3 DEF CommitDelete, TypeOK, OrderRows
  <1>4. ASSUME NEW q \in Quotes, DeleteQuotation(q)
        PROVE  OneOrderPerOpportunity'
    BY <1>4 DEF DeleteQuotation, TypeOK, OrderRows
  <1>5. ASSUME NEW x \in orders, NEW n \in Numbers, Renumber(x, n)
        PROVE  OneOrderPerOpportunity'
    <2>1. [x EXCEPT !.no = n].opp = x.opp
      BY DEF TypeOK, OrderRows
    <2> QED BY <1>5, <2>1 DEF Renumber
  <1>6. ASSUME NEW x \in orders, DeleteOrder(x)
        PROVE  OneOrderPerOpportunity'
    BY <1>6 DEF DeleteOrder
  <1>7. CASE Immediate
    BY <1>1, <1>4, <1>5, <1>6, <1>7 DEF Immediate, CreateOpportunity, CreateQuotation
  <1>8. ASSUME NEW r \in Requests, Start(r) \/ Fail(r) \/ DeadlockVictim(r)
        PROVE  UNCHANGED orders
    BY <1>8 DEF Start, LoadOpportunity, StartOrder, StartBackfill, StartDelete, LoadToDelete, StartLink,
                Fail, DeadlockVictim, Rollback, tables
  <1>9. ASSUME NEW r \in Requests, Step(r)
        PROVE  OneOrderPerOpportunity'
    <2>1. CASE CommitOrder(r) \/ CommitUpdate(r) \/ CommitBackfill(r)
      BY <1>1, <1>2, <2>1 DEF CommitOrder, CommitUpdate, CommitBackfill, Rollback, tables
    <2>2. CASE CommitDelete(r)
      BY <1>1, <1>3, <2>2 DEF Rollback, tables
    <2>3. CASE CommitLink(r)
      BY <1>1, <2>3 DEF CommitLink, Rollback, tables
    <2>4. CASE FindOrder(r) \/ FindQuoteOrder(r) \/ ValidateLinks(r) \/ LockOpportunity(r)
               \/ Recheck(r) \/ InsertOrder(r) \/ (\E o \in Opps : BackfillVisit(r, o))
               \/ MatchOpportunity(r)
      BY <1>1, <2>4 DEF FindOrder, FindQuoteOrder, ValidateLinks, LockOpportunity, Recheck,
         InsertOrder, BackfillVisit, MatchOpportunity, Goto, Rollback, tables
    <2> QED BY <1>9, <2>1, <2>2, <2>3, <2>4 DEF Step
  <1> QED BY <1>1, <1>7, <1>8, <1>9 DEF Next, vars

(* The inductive invariant: the reservations make the one-order rule inductive,*)
(* and both need the types of what the requests carry.                        *)
OrderInv == TypeOK /\ NumberChosen /\ ReservationInv /\ OneOrderPerOpportunity

LEMMA InitOrderInv == ConstantsAssumption /\ Init => OrderInv
  <1> SUFFICES ASSUME ConstantsAssumption, Init PROVE OrderInv
    OBVIOUS
  <1>1. ReservationInv
    BY DEF Init, ReservationInv, Reserved
  <1>2. NumberChosen /\ OneOrderPerOpportunity
    BY DEF Init, NumberChosen, OneOrderPerOpportunity
  <1> QED BY <1>1, <1>2, InitTyped DEF OrderInv

LEMMA NextOrderInv == ConstantsAssumption /\ OrderInv /\ [Next]_vars => OrderInv'
  BY NextTyped, NextNumberChosen, NextReserved, NextOneOrder DEF OrderInv

(* An opportunity never has two orders, for any number of requests: the       *)
(* automatic ones, the manual ones and the backfills included.                *)
THEOREM OneOrder == Spec => []OneOrderPerOpportunity
  <1>1. OrderInv => OneOrderPerOpportunity
    BY DEF OrderInv
  <1>2. Init => OrderInv
    BY ConstantsAssumption, InitOrderInv
  <1>3. OrderInv /\ [Next]_vars => OrderInv'
    BY ConstantsAssumption, NextOrderInv
  <1> QED BY <1>1, <1>2, <1>3, PTL DEF Spec

(* The reservations behind it, which the runs check too.                      *)
THEOREM Reservations == Spec => []ReservationInv
  <1>1. OrderInv => ReservationInv
    BY DEF OrderInv
  <1>2. Init => OrderInv
    BY ConstantsAssumption, InitOrderInv
  <1>3. OrderInv /\ [Next]_vars => OrderInv'
    BY ConstantsAssumption, NextOrderInv
  <1> QED BY <1>1, <1>2, <1>3, PTL DEF Spec
-----------------------------------------------------------------------------
(* The unique constraints.  Committed and uncommitted rows together never     *)
(* clash: an INSERT waits for the uncommitted row with its key, then sees it, *)
(* and what clients change in one statement waits for it as well.             *)
KeysUnique ==
  /\ \A x, y \in orders : Clash(x, y) => x = y
  /\ \A r \in Requests : \A x, y \in ins[r] : Clash(x, y) => x = y
  /\ \A r \in Requests : \A x \in ins[r], y \in orders : ~ Clash(x, y)
  /\ \A r, s \in Requests : r # s => \A x \in ins[r], y \in ins[s] : ~ Clash(x, y)

LEMMA ClashSymmetric == \A x, y : Clash(x, y) <=> Clash(y, x)
  BY DEF Clash, SameNumber

(* A transaction that ends takes its rows with it, to the ledger or nowhere.  *)
LEMMA ReleaseKeys ==
  ASSUME TypeOK, KeysUnique, NEW r \in Requests, Release(r),
         orders' \in {orders, orders \cup ins[r]}
  PROVE  KeysUnique'
  <1>1. \A s \in Requests : ins'[s] = IF s = r THEN {} ELSE ins[s]
    BY DEF Release, TypeOK
  <1> QED BY <1>1, ClashSymmetric DEF KeysUnique

LEMMA InsertKeys ==
  ASSUME TypeOK, KeysUnique, NEW r \in Requests, InsertOrder(r), ~ Rollback(r)
  PROVE  KeysUnique'
  <1> DEFINE x == NewRow(r)
  <1>1. /\ orders' = orders
        /\ \A s \in Requests : ins'[s] = IF s = r THEN ins[r] \cup {x} ELSE ins[s]
    BY DEF InsertOrder, TypeOK, tables
  <1>2. /\ \A y \in orders \cup ins[r] : ~ Clash(x, y)
        /\ \A s \in Requests : s # r => \A y \in ins[s] : ~ Clash(x, y)
    BY DEF InsertOrder, Visible
  <1> HIDE DEF x
  <1> QED BY <1>1, <1>2, ClashSymmetric DEF KeysUnique

(* Rows of the ledger that only lose links or go: each clashes with no more   *)
(* than the row it was.                                                       *)
LEMMA ShrinkKeys ==
  ASSUME KeysUnique,
         \A s \in Requests : ins'[s] \subseteq ins[s],
         \A x \in orders' : \E y \in orders : x.no = y.no /\ x.quote \in {y.quote, None},
         \A x, y \in orders' : x.no = y.no => x = y
  PROVE  KeysUnique'
  <1>1. ASSUME NEW x \in orders', NEW z, Clash(x, z)
        PROVE  \E y \in orders : x.no = y.no /\ Clash(y, z)
    BY <1>1 DEF Clash, SameNumber
  <1>2. ASSUME NEW x \in orders', NEW y \in orders', Clash(x, y)
        PROVE  x = y
    <2>1. PICK u \in orders : x.no = u.no /\ Clash(u, y)
      BY <1>1, <1>2
    <2>2. PICK v \in orders : y.no = v.no /\ Clash(v, u)
      BY <1>1, <2>1, ClashSymmetric
    <2> QED BY <2>1, <2>2 DEF KeysUnique
  <1>3. \A r \in Requests : \A y \in ins'[r], x \in orders' : ~ Clash(y, x)
    BY <1>1, ClashSymmetric DEF KeysUnique
  <1> QED BY <1>2, <1>3 DEF KeysUnique

LEMMA DeleteKeys ==
  ASSUME TypeOK, KeysUnique, NEW r \in Requests, CommitDelete(r), ~ Rollback(r)
  PROVE  KeysUnique'
  <1>1. \A s \in Requests : ins'[s] \subseteq ins[s]
    BY DEF CommitDelete, Release, TypeOK
  <1>2. \A x \in orders' : \E y \in orders : x.no = y.no /\ x.quote \in {y.quote, None}
    BY DEF CommitDelete, TypeOK, OrderRows
  <1>3. \A x, y \in orders' : x.no = y.no => x = y
    BY DEF CommitDelete, TypeOK, OrderRows, KeysUnique, Clash, SameNumber
  <1> QED BY <1>1, <1>2, <1>3, ShrinkKeys

LEMMA ImmediateKeys ==
  ASSUME TypeOK, KeysUnique, Immediate
  PROVE  KeysUnique'
  <1> ins' = ins
    BY DEF Immediate, CreateOpportunity, CreateQuotation, DeleteQuotation, Renumber, DeleteOrder,
           sessions
  <1>1. CASE UNCHANGED orders
    BY <1>1 DEF KeysUnique
  <1>2. ASSUME NEW q \in Quotes, DeleteQuotation(q)
        PROVE  KeysUnique'
    <2>1. \A x \in orders' : \E y \in orders : x.no = y.no /\ x.quote \in {y.quote, None}
      BY <1>2 DEF DeleteQuotation, TypeOK, OrderRows
    <2>2. \A x, y \in orders' : x.no = y.no => x = y
      BY <1>2 DEF DeleteQuotation, TypeOK, OrderRows, KeysUnique, Clash, SameNumber
    <2> QED BY <2>1, <2>2, ShrinkKeys
  <1>3. ASSUME NEW x \in orders, NEW n \in Numbers, Renumber(x, n)
        PROVE  KeysUnique'
    <2>1. PICK z : /\ z.no = n /\ z.quote = x.quote
                   /\ orders' = (orders \ {x}) \cup {z}
      BY <1>3 DEF Renumber, TypeOK, OrderRows
    <2>2. /\ \A y \in orders : y.no # n
          /\ \A r \in Requests : \A y \in ins[r] : y.no # n
      BY <1>3 DEF Renumber
    <2>3. \A y \in orders' \ {z} : y \in orders /\ ~ Clash(z, y)
      BY <2>1, <2>2 DEF Clash, SameNumber, KeysUnique
    <2>4. \A r \in Requests : \A y \in ins[r] : ~ Clash(z, y)
      BY <2>1, <2>2 DEF Clash, SameNumber, KeysUnique
    <2> QED BY <2>1, <2>3, <2>4, ClashSymmetric DEF KeysUnique
  <1>4. CASE \E x \in orders : DeleteOrder(x)
    BY <1>4 DEF DeleteOrder, KeysUnique
  <1> QED BY <1>1, <1>2, <1>3, <1>4 DEF Immediate, CreateOpportunity, CreateQuotation

LEMMA NextKeys ==
  ASSUME TypeOK, KeysUnique, [Next]_vars
  PROVE  KeysUnique'
  <1>1. CASE UNCHANGED <<orders, ins>>
    BY <1>1 DEF KeysUnique
  <1>2. ASSUME NEW r \in Requests, Rollback(r)
        PROVE  KeysUnique'
    BY <1>2, ReleaseKeys DEF Rollback, tables
  <1>3. ASSUME NEW r \in Requests, Start(r)
        PROVE  KeysUnique'
    BY <1>1, <1>3 DEF Start, LoadOpportunity, StartOrder, StartBackfill, StartDelete, LoadToDelete, StartLink,
       tables
  <1>4. ASSUME NEW r \in Requests, Step(r), ~ Rollback(r)
        PROVE  KeysUnique'
    <2>1. CASE CommitOrder(r) \/ CommitUpdate(r) \/ CommitBackfill(r) \/ CommitLink(r)
      BY <1>4, <2>1, ReleaseKeys DEF CommitOrder, CommitUpdate, CommitBackfill, CommitLink
    <2>2. CASE InsertOrder(r) \/ CommitDelete(r)
      BY <1>4, <2>2, InsertKeys, DeleteKeys
    <2>3. CASE FindOrder(r) \/ FindQuoteOrder(r) \/ ValidateLinks(r) \/ LockOpportunity(r)
               \/ Recheck(r) \/ (\E o \in Opps : BackfillVisit(r, o)) \/ MatchOpportunity(r)
      BY <1>1, <1>4, <2>3 DEF FindOrder, FindQuoteOrder, ValidateLinks, LockOpportunity, Recheck,
         BackfillVisit, MatchOpportunity, Goto, tables
    <2> QED BY <1>4, <2>1, <2>2, <2>3 DEF Step
  <1> QED BY <1>1, <1>2, <1>3, <1>4, ImmediateKeys DEF Next, vars, Fail, DeadlockVictim

(* No quotation is ever linked to two orders.                                 *)
THEOREM OneOrderQuotation == Spec => []OneOrderPerQuotation
  <1>1. Init => KeysUnique
    BY DEF Init, KeysUnique
  <1>2. TypeOK /\ KeysUnique /\ [Next]_vars => KeysUnique'
    BY NextKeys
  <1>3. KeysUnique => OneOrderPerQuotation
    BY DEF KeysUnique, OneOrderPerQuotation, Clash, SameNumber
  <1> QED BY <1>1, <1>2, <1>3, TypeCorrect, PTL DEF Spec
-----------------------------------------------------------------------------
(* Why an order or a quotation never points at a row that is gone, although   *)
(* deletions are decided statements before they are made, and so are the rows *)
(* that refer to what they delete.                                            *)

RowLive(x) == (x.opp # None => LiveOpp(x.opp)) /\ (x.quote # None => LiveQuote(x.quote))

(* NoDanglingLinks is not inductive: it needs to know that what a request is  *)
(* about to commit refers to live rows as well.                               *)
Held(r) ==
  /\ pc[r] \in {"recheck", "insert"} /\ job[r].opp # None => LiveOpp(job[r].opp)
  /\ \A x \in ins[r] : RowLive(x)
HeldIsLive == \A r \in Requests : Held(r)

LEMMA RowsTyped ==
  ASSUME TypeOK
  PROVE  /\ \A x \in orders : x.opp \in Opps \cup {None} /\ x.quote \in Quotes \cup {None}
         /\ \A r \in Requests : /\ job[r].opp \in Opps \cup {None}
                                /\ \A x \in ins[r] : x.opp \in Opps \cup {None} /\ x.quote \in Quotes \cup {None}
  BY DEF TypeOK, OrderRows, Jobs

(* Steps that delete nothing.                                                 *)
LEMMA NothingDeleted ==
  ASSUME ConstantsAssumption, TypeOK, NoDanglingLinks, HeldIsLive,
         \A o \in Opps : LiveOpp(o) => LiveOpp(o)',
         \A q \in Quotes : LiveQuote(q) => LiveQuote(q)',
         \A x \in orders' : \E y \in orders \cup UNION {ins[r] : r \in Requests} :
            x.opp = y.opp /\ x.quote = y.quote,
         \A q \in Quotes : quoteOpp'[q] = quoteOpp[q] \/ LiveOpp(quoteOpp[q])'
  PROVE  /\ NoDanglingLinks'
         /\ \A r \in Requests :
              /\ (pc'[r] = pc[r] /\ job'[r] = job[r]) \/ pc'[r] \notin {"recheck", "insert"}
              /\ ins'[r] \subseteq ins[r]
              => Held(r)'
  <1>1. \A y \in orders \cup UNION {ins[r] : r \in Requests} : RowLive(y)
    BY DEF NoDanglingLinks, HeldIsLive, Held, RowLive
  <1>2. \A y \in orders \cup UNION {ins[r] : r \in Requests} : RowLive(y)'
    BY <1>1, RowsTyped DEF RowLive
  <1>3. \A x \in orders' : RowLive(x)'
    BY <1>2 DEF RowLive
  <1>4. \A q \in Quotes : quoteOpp'[q] # None => LiveOpp(quoteOpp[q])'
    BY DEF NoDanglingLinks, TypeOK
  <1>5. NoDanglingLinks'
    BY <1>3, <1>4 DEF NoDanglingLinks, RowLive
  <1>6. ASSUME NEW r \in Requests, ins'[r] \subseteq ins[r],
               (pc'[r] = pc[r] /\ job'[r] = job[r]) \/ pc'[r] \notin {"recheck", "insert"}
        PROVE  Held(r)'
    BY <1>2, <1>6, RowsTyped DEF HeldIsLive, Held
  <1> QED BY <1>5, <1>6

(* Steps of a request r that leave the tables alone.                          *)
LEMMA TablesKept ==
  ASSUME ConstantsAssumption, TypeOK, NoDanglingLinks, HeldIsLive, NEW r \in Requests,
         UNCHANGED tables, Held(r)',
         \A s \in Requests \ {r} : pc'[s] = pc[s] /\ job'[s] = job[s] /\ ins'[s] = ins[s]
  PROVE  NoDanglingLinks' /\ HeldIsLive'
  BY DEF NoDanglingLinks, HeldIsLive, Held, RowLive, LiveOpp, LiveQuote, tables

LEMMA GotoHeld ==
  ASSUME ConstantsAssumption, TypeOK, NoDanglingLinks, HeldIsLive, NEW r \in Requests,
         NEW point, Goto(r, point),
         point \notin {"recheck", "insert"} \/ pc[r] = "recheck" \/ job[r].opp = None
  PROVE  NoDanglingLinks' /\ HeldIsLive'
  <1>1. Held(r)'
    BY DEF Goto, HeldIsLive, Held, RowLive, LiveOpp, LiveQuote, tables, TypeOK
  <1> QED BY <1>1, TablesKept DEF Goto, TypeOK

LEMMA RollbackHeld ==
  ASSUME ConstantsAssumption, TypeOK, NoDanglingLinks, HeldIsLive, NEW r \in Requests, Rollback(r)
  PROVE  NoDanglingLinks' /\ HeldIsLive'
  <1>1. Held(r)'
    BY DEF Rollback, Release, Held, TypeOK
  <1> QED BY <1>1, TablesKept DEF Rollback, Release, TypeOK

LEMMA StartHeld ==
  ASSUME ConstantsAssumption, TypeOK, NoDanglingLinks, HeldIsLive, NEW r \in Requests, Start(r)
  PROVE  NoDanglingLinks' /\ HeldIsLive'
  <1>1. /\ UNCHANGED <<tables, ins>> /\ pc'[r] \notin {"recheck", "insert"}
        /\ \A s \in Requests \ {r} : job'[s] = job[s] /\ pc'[s] = pc[s]
    BY DEF Start, LoadOpportunity, StartOrder, StartBackfill, StartDelete, LoadToDelete, StartLink, TypeOK
  <1>2. Held(r)'
    BY <1>1 DEF HeldIsLive, Held, RowLive, LiveOpp, LiveQuote, tables
  <1> QED BY <1>1, <1>2, TablesKept

(* The end of a transaction that writes: its rows join the ledger, nothing is *)
(* deleted.                                                                   *)
LEMMA CommitHeld ==
  ASSUME ConstantsAssumption, TypeOK, NoDanglingLinks, HeldIsLive, NEW r \in Requests, Release(r),
         orders' \subseteq orders \cup ins[r],
         \A o \in Opps : LiveOpp(o) => LiveOpp(o)',
         \A q \in Quotes : LiveQuote(q) => LiveQuote(q)',
         \A q \in Quotes : quoteOpp'[q] = quoteOpp[q] \/ LiveOpp(quoteOpp[q])'
  PROVE  NoDanglingLinks' /\ HeldIsLive'
  <1>1. \A s \in Requests : /\ (pc'[s] = pc[s] /\ job'[s] = job[s]) \/ pc'[s] \notin {"recheck", "insert"}
                            /\ ins'[s] \subseteq ins[s]
    BY DEF Release, TypeOK
  <1>2. \A x \in orders' : \E y \in orders \cup UNION {ins[s] : s \in Requests} :
            x.opp = y.opp /\ x.quote = y.quote
    OBVIOUS
  <1> QED BY <1>1, <1>2, NothingDeleted DEF HeldIsLive

(* A deletion finds the row lock of its opportunity free, so no request that  *)
(* has seen the opportunity live under that lock, or has flushed a row of it, *)
(* is still running.                                                          *)
LEMMA DeleteHeld ==
  ASSUME ConstantsAssumption, TypeOK, ReservationInv, NoDanglingLinks, HeldIsLive,
         NEW r \in Requests, CommitDelete(r)
  PROVE  NoDanglingLinks' /\ HeldIsLive'
  <1> DEFINE o == job[r].opp
  <1>1. CASE Rollback(r)
    BY <1>1, RollbackHeld
  <1>2. CASE ~ Rollback(r)
    <2>1. /\ lock[o] = None /\ Release(r) /\ quoteState' = quoteState
          /\ oppState' = [oppState EXCEPT ![o] = "deleted"]
          /\ orders' = {[x EXCEPT !.opp = IF @ = o THEN None ELSE @] : x \in orders}
          /\ \A q \in Quotes : quoteOpp'[q] # None => quoteOpp'[q] = quoteOpp[q] /\ quoteOpp[q] # o
      BY <1>2 DEF CommitDelete
    <2>2. \A p \in Opps : LiveOpp(p) /\ p # o => LiveOpp(p)'
      BY <2>1 DEF LiveOpp, TypeOK
    <2>3. \A x \in orders' : \E y \in orders : /\ x.opp = None \/ (x.opp = y.opp /\ x.opp # o)
                                               /\ x.quote = y.quote
      <3> SUFFICES ASSUME NEW x \in orders'
                   PROVE  \E y \in orders : /\ x.opp = None \/ (x.opp = y.opp /\ x.opp # o)
                                            /\ x.quote = y.quote
        OBVIOUS
      <3>1. PICK y \in orders : x = [y EXCEPT !.opp = IF y.opp = o THEN None ELSE y.opp]
        BY <2>1
      <3>2. x.quote = y.quote /\ x.opp = IF y.opp = o THEN None ELSE y.opp
        BY <3>1 DEF TypeOK, OrderRows
      <3> QED BY <3>1, <3>2
    <2>4. NoDanglingLinks'
      <3>1. \A x \in orders' : x.opp # None => LiveOpp(x.opp)'
        BY <2>2, <2>3, RowsTyped DEF NoDanglingLinks
      <3>2. \A x \in orders' : x.quote # None => LiveQuote(x.quote)'
        BY <2>1, <2>3 DEF NoDanglingLinks, LiveQuote
      <3>3. \A q \in Quotes : quoteOpp'[q] # None => LiveOpp(quoteOpp[q])'
        BY <2>1, <2>2 DEF NoDanglingLinks, TypeOK
      <3> QED BY <3>1, <3>2, <3>3 DEF NoDanglingLinks
    <2>5. ASSUME NEW s \in Requests, s # r
          PROVE  Held(s)'
      <3>1. pc'[s] = pc[s] /\ job'[s] = job[s] /\ ins'[s] = ins[s]
        BY <2>1, <2>5 DEF Release, TypeOK
      <3>2. pc[s] \in {"recheck", "insert"} /\ job[s].opp # None => job[s].opp # o
        BY <2>1 DEF ReservationInv, Reserved, ConstantsAssumption
      <3>3. \A x \in ins[s] : x.opp # None => x.opp # o
        BY <2>1 DEF ReservationInv, Reserved, ConstantsAssumption
      <3>4. \A x \in ins[s] : RowLive(x)'
        BY <2>1, <2>2, <3>3, RowsTyped DEF HeldIsLive, Held, RowLive, LiveQuote
      <3>5. pc[s] \in {"recheck", "insert"} /\ job[s].opp # None => LiveOpp(job[s].opp)'
        <4>1. pc[s] \in {"recheck", "insert"} /\ job[s].opp # None => LiveOpp(job[s].opp)
          BY DEF HeldIsLive, Held
        <4> QED BY <2>2, <3>1, <3>2, <4>1, RowsTyped
      <3> QED BY <3>1, <3>4, <3>5 DEF Held
    <2>6. Held(r)'
      BY <2>1 DEF Release, Held, TypeOK
    <2> QED BY <2>4, <2>5, <2>6 DEF HeldIsLive
  <1> QED BY <1>1, <1>2

LEMMA InsertHeld ==
  ASSUME ConstantsAssumption, TypeOK, NoDanglingLinks, HeldIsLive, NEW r \in Requests, InsertOrder(r)
  PROVE  NoDanglingLinks' /\ HeldIsLive'
  <1> DEFINE x == NewRow(r)
  <1>1. CASE Rollback(r)
    BY <1>1, RollbackHeld
  <1>2. CASE ~ Rollback(r)
    <2>1. /\ x.quote # None => LiveQuote(x.quote)
          /\ ins' = [ins EXCEPT ![r] = @ \cup {x}] /\ UNCHANGED <<tables, job>>
          /\ pc' = [pc EXCEPT ![r] = AfterOrder(r)] /\ pc[r] = "insert"
      BY <1>2 DEF InsertOrder
    <2>2. x.opp # None => LiveOpp(x.opp)
      BY <2>1 DEF HeldIsLive, Held, NewRow
    <2> HIDE DEF x
    <2>3. RowLive(x) /\ pc'[r] \notin {"recheck", "insert"}
      BY <2>1, <2>2 DEF RowLive, AfterOrder, TypeOK
    <2>4. \A y \in ins'[r] : RowLive(y)
      BY <2>1, <2>3 DEF HeldIsLive, Held, TypeOK
    <2>5. Held(r)'
      BY <2>1, <2>3, <2>4 DEF Held, RowLive, LiveOpp, LiveQuote, tables
    <2> QED BY <2>1, <2>5, TablesKept DEF TypeOK
  <1> QED BY <1>1, <1>2

LEMMA StepHeld ==
  ASSUME ConstantsAssumption, TypeOK, ReservationInv, NoDanglingLinks, HeldIsLive,
         NEW r \in Requests, Step(r)
  PROVE  NoDanglingLinks' /\ HeldIsLive'
  <1>1. ASSUME UNCHANGED <<tables, ins>>, pc'[r] \notin {"recheck", "insert"},
               \A s \in Requests \ {r} : job'[s] = job[s] /\ pc'[s] = pc[s]
        PROVE  NoDanglingLinks' /\ HeldIsLive'
    <2>1. Held(r)'
      BY <1>1 DEF HeldIsLive, Held, RowLive, LiveOpp, LiveQuote, tables
    <2> QED BY <1>1, <2>1, TablesKept
  <1>2. ASSUME NEW o, NEW q, ChooseQuotation(r, o, q), UNCHANGED <<tables, ins>>
        PROVE  NoDanglingLinks' /\ HeldIsLive'
    BY <1>1, <1>2 DEF ChooseQuotation, TypeOK
  <1>3. CASE FindOrder(r)
    BY <1>2, <1>3, GotoHeld, RollbackHeld DEF FindOrder
  <1>4. CASE FindQuoteOrder(r)
    BY <1>4, GotoHeld, RollbackHeld DEF FindQuoteOrder, AfterOrder
  <1>5. CASE ValidateLinks(r)
    BY <1>5, GotoHeld, RollbackHeld DEF ValidateLinks
  <1>6. CASE LockOpportunity(r)
    <2>1. CASE Rollback(r)
      BY <2>1, RollbackHeld
    <2>2. CASE ~ Rollback(r)
      <3>1. /\ LiveOpp(job[r].opp) /\ UNCHANGED <<tables, job, ins>>
            /\ pc' = [pc EXCEPT ![r] = "recheck"]
        BY <1>6, <2>2 DEF LockOpportunity
      <3>2. Held(r)'
        BY <3>1 DEF HeldIsLive, Held, RowLive, LiveOpp, LiveQuote, tables
      <3> QED BY <3>1, <3>2, TablesKept DEF TypeOK
    <2> QED BY <2>1, <2>2
  <1>7. CASE Recheck(r)
    BY <1>7, GotoHeld, RollbackHeld DEF Recheck
  <1>8. CASE InsertOrder(r)
    BY <1>8, InsertHeld
  <1>9. CASE CommitOrder(r) \/ CommitBackfill(r)
    BY <1>9, CommitHeld DEF CommitOrder, CommitBackfill, LiveOpp, LiveQuote
  <1>10. CASE CommitUpdate(r)
    BY <1>10, CommitHeld, RollbackHeld DEF CommitUpdate, LiveOpp, LiveQuote
  <1>11. CASE \E o \in Opps : BackfillVisit(r, o)
    <2>1. PICK o \in Opps : BackfillVisit(r, o)
      BY <1>11
    <2>2. CASE UNCHANGED <<job, pc>>
      <3>1. pc[r] = "scan" /\ UNCHANGED <<tables, ins>>
        BY <2>1 DEF BackfillVisit
      <3> QED BY <1>1, <2>2, <3>1
    <2>3. CASE \E q \in Quotes : ChooseQuotation(r, o, q)
      BY <1>2, <2>1, <2>3 DEF BackfillVisit
    <2> QED BY <2>1, <2>2, <2>3 DEF BackfillVisit
  <1>12. CASE CommitDelete(r)
    BY <1>12, DeleteHeld
  <1>13. CASE MatchOpportunity(r)
    <2>1. /\ UNCHANGED <<tables, ins>> /\ pc' = [pc EXCEPT ![r] = "link"]
          /\ \A s \in Requests \ {r} : job'[s] = job[s]
      BY <1>13 DEF MatchOpportunity, TypeOK
    <2> QED BY <1>1, <2>1 DEF TypeOK
  <1>14. CASE CommitLink(r)
    <2>1. CASE Rollback(r)
      BY <2>1, RollbackHeld
    <2>2. CASE ~ Rollback(r)
      <3>1. PICK o \in Opps, q \in Quotes :
              /\ oppState' = [oppState EXCEPT ![o] = "live"]
              /\ quoteState' = [quoteState EXCEPT ![q] = "live"]
              /\ quoteOpp' = [quoteOpp EXCEPT ![q] = o]
              /\ Release(r) /\ orders' = orders
        BY <1>14, <2>2 DEF CommitLink
      <3> QED BY <3>1, CommitHeld DEF LiveOpp, LiveQuote, TypeOK
    <2> QED BY <2>1, <2>2
  <1> QED BY <1>3, <1>4, <1>5, <1>6, <1>7, <1>8, <1>9, <1>10, <1>11, <1>12, <1>13, <1>14 DEF Step

LEMMA ImmediateHeld ==
  ASSUME ConstantsAssumption, TypeOK, NoDanglingLinks, HeldIsLive, Immediate
  PROVE  NoDanglingLinks' /\ HeldIsLive'
  <1>0. UNCHANGED <<pc, job, ins>>
    BY DEF Immediate, CreateOpportunity, CreateQuotation, DeleteQuotation, Renumber, DeleteOrder, sessions
  <1>1. ASSUME \A o \in Opps : LiveOpp(o) => LiveOpp(o)',
               \A q \in Quotes : LiveQuote(q) => LiveQuote(q)',
               \A x \in orders' : \E y \in orders : x.opp = y.opp /\ x.quote = y.quote,
               \A q \in Quotes : quoteOpp'[q] = quoteOpp[q] \/ LiveOpp(quoteOpp[q])' \/ quoteOpp'[q] = None
        PROVE  NoDanglingLinks' /\ HeldIsLive'
    <2>1. HeldIsLive'
      BY <1>0, <1>1, RowsTyped DEF HeldIsLive, Held, RowLive
    <2>2. NoDanglingLinks'
      BY <1>1, RowsTyped DEF NoDanglingLinks, TypeOK
    <2> QED BY <2>1, <2>2
  <1>2. CASE \E o \in Opps, ask \in Asked : CreateOpportunity(o, ask)
    BY <1>1, <1>2 DEF CreateOpportunity, LiveOpp, LiveQuote, TypeOK
  <1>3. ASSUME NEW o \in Opps \cup {None}, NEW q \in Quotes, CreateQuotation(o, q)
        PROVE  NoDanglingLinks' /\ HeldIsLive'
    BY <1>1, <1>3 DEF CreateQuotation, LiveOpp, LiveQuote, TypeOK
  <1>4. ASSUME NEW x \in orders, NEW n \in Numbers, Renumber(x, n)
        PROVE  NoDanglingLinks' /\ HeldIsLive'
    <2>1. [x EXCEPT !.no = n].opp = x.opp /\ [x EXCEPT !.no = n].quote = x.quote
      BY DEF TypeOK, OrderRows
    <2> QED BY <1>1, <1>4, <2>1 DEF Renumber, LiveOpp, LiveQuote
  <1>5. CASE \E x \in orders : DeleteOrder(x)
    BY <1>1, <1>5 DEF DeleteOrder, LiveOpp, LiveQuote
  <1>6. ASSUME NEW q \in Quotes, DeleteQuotation(q)
        PROVE  NoDanglingLinks' /\ HeldIsLive'
    <2>1. /\ \A r \in Requests : \A x \in ins[r] : x.quote # q
          /\ quoteState' = [quoteState EXCEPT ![q] = "deleted"]
          /\ quoteOpp' = [quoteOpp EXCEPT ![q] = None]
          /\ orders' = {[x EXCEPT !.quote = IF @ = q THEN None ELSE @] : x \in orders}
          /\ oppState' = oppState
      BY <1>6 DEF DeleteQuotation
    <2>2. \A x \in orders' : x.quote # q /\ \E y \in orders : x.opp = y.opp /\ x.quote \in {None, y.quote}
      BY <2>1 DEF TypeOK, OrderRows, ConstantsAssumption
    <2>3. \A p \in Quotes : LiveQuote(p) /\ p # q => LiveQuote(p)'
      BY <2>1 DEF LiveQuote, TypeOK
    <2>4. NoDanglingLinks'
      <3>1. \A x \in orders' : x.quote # None => LiveQuote(x.quote)'
        BY <2>2, <2>3, RowsTyped DEF NoDanglingLinks
      <3>2. \A x \in orders' : x.opp # None => LiveOpp(x.opp)'
        BY <2>1, <2>2 DEF NoDanglingLinks, LiveOpp
      <3>3. \A p \in Quotes : quoteOpp'[p] # None => LiveOpp(quoteOpp[p])'
        BY <2>1 DEF NoDanglingLinks, LiveOpp, TypeOK
      <3> QED BY <3>1, <3>2, <3>3 DEF NoDanglingLinks
    <2>5. \A r \in Requests : \A x \in ins[r] : RowLive(x)'
      BY <2>1, <2>3, RowsTyped DEF HeldIsLive, Held, RowLive, LiveOpp
    <2>6. HeldIsLive'
      BY <1>0, <2>1, <2>5 DEF HeldIsLive, Held, LiveOpp
    <2> QED BY <2>4, <2>6
  <1> QED BY <1>2, <1>3, <1>4, <1>5, <1>6 DEF Immediate

LEMMA NextHeld ==
  ASSUME ConstantsAssumption, TypeOK, ReservationInv, NoDanglingLinks, HeldIsLive, [Next]_vars
  PROVE  NoDanglingLinks' /\ HeldIsLive'
  <1>1. CASE UNCHANGED vars
    BY <1>1 DEF vars, NoDanglingLinks, HeldIsLive, Held, RowLive, LiveOpp, LiveQuote
  <1>2. ASSUME NEW r \in Requests, Fail(r) \/ DeadlockVictim(r)
        PROVE  NoDanglingLinks' /\ HeldIsLive'
    BY <1>2, RollbackHeld DEF Fail, DeadlockVictim
  <1> QED BY <1>1, <1>2, StartHeld, StepHeld, ImmediateHeld DEF Next

LinkInv == OrderInv /\ NoDanglingLinks /\ HeldIsLive

(* Whatever deletions overlap with the writing of orders, of quotations and   *)
(* of their links, no committed row refers to one that is gone.               *)
THEOREM LinksHold == Spec => []NoDanglingLinks
  <1>1. Init => LinkInv
    <2>1. ConstantsAssumption /\ Init => NoDanglingLinks /\ HeldIsLive
      BY DEF Init, NoDanglingLinks, HeldIsLive, Held, LiveOpp
    <2> QED BY <2>1, ConstantsAssumption, InitOrderInv DEF LinkInv
  <1>2. LinkInv /\ [Next]_vars => LinkInv'
    BY ConstantsAssumption, NextOrderInv, NextHeld DEF LinkInv, OrderInv
  <1>3. LinkInv => NoDanglingLinks
    BY DEF LinkInv
  <1> QED BY <1>1, <1>2, <1>3, PTL DEF Spec
-----------------------------------------------------------------------------

(* Where a request of each kind can be.                                       *)
Placed(r) ==
  /\ job[r].kind = "none" <=> pc[r] = "idle"
  /\ job[r].kind = "link" <=> pc[r] \in {"match", "link"}
  /\ job[r].kind = "deleteOpportunity" <=> pc[r] = "delete"
  /\ pc[r] = "findOrder" => job[r].kind = "update"
  /\ pc[r] = "findQuoteOrder" => job[r].kind \in {"update", "backfill"}
  /\ pc[r] \in {"validate", "lock", "recheck", "insert"} =>
       job[r].kind \in {"update", "backfill", "order"}
  /\ pc[r] = "scan" => job[r].kind = "backfill"
  /\ pc[r] = "commit" => job[r].kind \in {"update", "order"}

AllPlaced == \A r \in Requests : Placed(r)

(* A step of a request is seen by no other request's own state.               *)
LEMMA OthersStay ==
  ASSUME TypeOK, NEW r \in Requests, Start(r) \/ Step(r) \/ Fail(r) \/ DeadlockVictim(r)
  PROVE  \A s \in Requests \ {r} : /\ pc'[s] = pc[s] /\ job'[s] = job[s]
                                   /\ snap'[s] = snap[s] /\ ins'[s] = ins[s]
  <1> DEFINE Others == \A s \in Requests \ {r} : /\ pc'[s] = pc[s] /\ job'[s] = job[s]
                                                 /\ snap'[s] = snap[s] /\ ins'[s] = ins[s]
  <1>1. ASSUME Release(r) PROVE Others
    BY <1>1 DEF Release, TypeOK
  <1>2. ASSUME NEW point, Goto(r, point) PROVE Others
    BY <1>2 DEF Goto, TypeOK
  <1>3. ASSUME NEW o, NEW q, ChooseQuotation(r, o, q), UNCHANGED <<snap, ins>> PROVE Others
    BY <1>3 DEF ChooseQuotation, TypeOK
  <1>4. ASSUME Start(r) PROVE Others
    BY <1>4 DEF Start, LoadOpportunity, StartOrder, StartBackfill, StartDelete, LoadToDelete,
       StartLink, TypeOK
  <1>5. ASSUME Step(r) PROVE Others
    <2>1. CASE FindOrder(r) \/ FindQuoteOrder(r) \/ ValidateLinks(r) \/ Recheck(r)
               \/ \E o \in Opps : BackfillVisit(r, o)
      <3>1. CASE \E o \in Opps : BackfillVisit(r, o)
        BY <1>3, <3>1 DEF BackfillVisit
      <3> QED BY <1>1, <1>2, <1>3, <2>1, <3>1 DEF FindOrder, FindQuoteOrder, ValidateLinks,
              Recheck, Rollback
    <2>2. CASE LockOpportunity(r) \/ InsertOrder(r) \/ MatchOpportunity(r)
      BY <1>1, <2>2 DEF LockOpportunity, InsertOrder, MatchOpportunity, Rollback, TypeOK
    <2>3. CASE CommitOrder(r) \/ CommitUpdate(r) \/ CommitBackfill(r) \/ CommitDelete(r)
               \/ CommitLink(r)
      BY <1>1, <2>3 DEF CommitOrder, CommitUpdate, CommitBackfill, CommitDelete, CommitLink,
         Rollback
    <2> QED BY <1>5, <2>1, <2>2, <2>3 DEF Step
  <1> QED BY <1>1, <1>4, <1>5 DEF Fail, DeadlockVictim, Rollback

LEMMA ImmediateStay == Immediate => UNCHANGED sessions
  BY DEF Immediate, CreateOpportunity, CreateQuotation, DeleteQuotation, Renumber, DeleteOrder

LEMMA ReleasePlaced ==
  ASSUME TypeOK, NEW r \in Requests, Release(r)
  PROVE  /\ Placed(r)'
         /\ job'[r] = NoJob /\ pc'[r] = "idle" /\ snap'[r] = NoSnap /\ ins'[r] = {}
  BY DEF Release, TypeOK, Placed, NoJob

LEMMA StartPlaced ==
  ASSUME TypeOK, NEW r \in Requests, Start(r)
  PROVE  Placed(r)'
  <1> USE DEF Placed, TypeOK, NoJob
  <1>1. CASE \E o \in Opps, ask \in Asked : LoadOpportunity(r, o, ask)
    BY <1>1 DEF LoadOpportunity
  <1>2. CASE \E o \in Opps \cup {None}, q \in Quotes \cup {None}, n \in Numbers : StartOrder(r, o, q, n)
    BY <1>2 DEF StartOrder
  <1>3. CASE StartBackfill(r)
    BY <1>3 DEF StartBackfill
  <1>4. CASE \E o \in Opps : StartDelete(r, o)
    BY <1>4 DEF StartDelete, LoadToDelete
  <1>5. CASE \E q \in Quotes \cup {None} : StartLink(r, q)
    BY <1>5 DEF StartLink
  <1> QED BY <1>1, <1>2, <1>3, <1>4, <1>5 DEF Start

LEMMA ChosenPlaced ==
  ASSUME TypeOK, NEW r \in Requests, Placed(r), NEW o, NEW q, ChooseQuotation(r, o, q),
         pc[r] \in {"findOrder", "scan"}
  PROVE  Placed(r)'
  BY DEF ChooseQuotation, TypeOK, Jobs, Placed

LEMMA StepPlaced ==
  ASSUME TypeOK, NEW r \in Requests, Placed(r), Step(r)
  PROVE  Placed(r)'
  <1>1. CASE Release(r)
    BY <1>1, ReleasePlaced
  <1>2. ASSUME NEW point, Goto(r, point)
        PROVE  job'[r] = job[r] /\ pc'[r] = point
    BY <1>2 DEF Goto, TypeOK
  <1>3. CASE FindOrder(r) \/ \E o \in Opps : BackfillVisit(r, o)
    BY <1>1, <1>2, <1>3, ChosenPlaced DEF FindOrder, BackfillVisit, Rollback, Placed
  <1>4. CASE ValidateLinks(r) \/ Recheck(r)
    BY <1>1, <1>2, <1>4 DEF ValidateLinks, Recheck, Rollback, Placed
  <1>5. CASE FindQuoteOrder(r) \/ InsertOrder(r)
    <2>1. pc[r] \in {"findQuoteOrder", "insert"}
      BY <1>5 DEF FindQuoteOrder, InsertOrder
    <2>2. (job'[r] = job[r] /\ pc'[r] \in {"validate", AfterOrder(r)}) \/ Release(r)
      BY <1>2, <1>5 DEF FindQuoteOrder, InsertOrder, Rollback, TypeOK
    <2> QED BY <1>1, <2>1, <2>2 DEF AfterOrder, Placed
  <1>7. CASE LockOpportunity(r) \/ MatchOpportunity(r)
    <2>1. CASE Rollback(r)
      BY <1>1, <2>1 DEF Rollback
    <2>2. CASE ~ Rollback(r)
      <3>1. /\ job'[r].kind = job[r].kind
            /\ \/ pc[r] = "lock" /\ pc'[r] = "recheck"
               \/ pc[r] = "match" /\ pc'[r] = "link"
        <4>1. CASE LockOpportunity(r)
          BY <2>2, <4>1 DEF LockOpportunity, TypeOK
        <4>2. CASE MatchOpportunity(r)
          <5>1. pc[r] = "match" /\ pc'[r] = "link"
            BY <4>2 DEF MatchOpportunity, TypeOK
          <5>2. job'[r].kind = job[r].kind
            BY <4>2 DEF MatchOpportunity, TypeOK, Jobs
          <5> QED BY <5>1, <5>2
        <4> QED BY <1>7, <4>1, <4>2
      <3> QED BY <3>1 DEF Placed
    <2> QED BY <2>1, <2>2
  <1>6. CASE CommitOrder(r) \/ CommitUpdate(r) \/ CommitBackfill(r) \/ CommitDelete(r)
             \/ CommitLink(r)
    BY <1>1, <1>6 DEF CommitOrder, CommitUpdate, CommitBackfill, CommitDelete, CommitLink,
       Rollback
  <1> QED BY <1>3, <1>4, <1>5, <1>6, <1>7 DEF Step

LEMMA NextPlaced ==
  ASSUME TypeOK, AllPlaced, [Next]_vars
  PROVE  AllPlaced'
  <1>1. CASE UNCHANGED vars
    BY <1>1 DEF vars, AllPlaced, Placed
  <1>2. CASE Immediate
    BY <1>2, ImmediateStay DEF sessions, AllPlaced, Placed
  <1>3. ASSUME NEW r \in Requests, Start(r) \/ Step(r) \/ Fail(r) \/ DeadlockVictim(r)
        PROVE  AllPlaced'
    <2>1. Placed(r)'
      BY <1>3, StartPlaced, StepPlaced, ReleasePlaced DEF AllPlaced, Fail, DeadlockVictim, Rollback
    <2> QED BY <1>3, <2>1, OthersStay DEF AllPlaced, Placed
  <1> QED BY <1>1, <1>2, <1>3 DEF Next
-----------------------------------------------------------------------------
(* What no step does to the tables: an opportunity is not unborn twice, none  *)
(* comes back from deletion, and while orders are not deleted one leaves the  *)
(* page of an opportunity only with the opportunity.                          *)
HasOrder(o) == \E x \in orders : x.opp = o

Lasting ==
  \A o \in Opps : /\ oppState[o] # "unborn" => oppState'[o] # "unborn"
                  /\ LiveOpp(o)' => LiveOpp(o) \/ oppState[o] = "unborn"
                  /\ HasOrder(o) /\ LiveOpp(o)' => HasOrder(o)'

LEMMA NextLasting ==
  ASSUME TypeOK, AllPlaced, "deleteOrder" \notin Kinds, [Next]_vars
  PROVE  Lasting
  <1> USE DEF Lasting, LiveOpp, HasOrder
  <1>1. CASE UNCHANGED tables
    BY <1>1 DEF tables
  <1>2. CASE Immediate
    <2>1. CASE UNCHANGED oppState
      <3>1. \A x \in orders : \E y \in orders' : y.opp = x.opp
        <4>1. ASSUME NEW q \in Quotes, DeleteQuotation(q), NEW x \in orders
              PROVE  \E y \in orders' : y.opp = x.opp
          <5>1. [x EXCEPT !.quote = IF @ = q THEN None ELSE @] \in orders'
            BY <4>1 DEF DeleteQuotation
          <5> QED BY <5>1 DEF TypeOK, OrderRows
        <4>2. ASSUME NEW z \in orders, NEW n \in Numbers, Renumber(z, n), NEW x \in orders
              PROVE  \E y \in orders' : y.opp = x.opp
          <5>1. [z EXCEPT !.no = n] \in orders' /\ [z EXCEPT !.no = n].opp = z.opp
            BY <4>2 DEF Renumber, TypeOK, OrderRows
          <5> QED BY <4>2, <5>1 DEF Renumber
        <4> QED BY <1>2, <4>1, <4>2 DEF Immediate, CreateOpportunity, CreateQuotation, DeleteOrder
      <3> QED BY <2>1, <3>1
    <2>2. CASE \E o \in Opps, ask \in Asked : CreateOpportunity(o, ask)
      BY <2>2 DEF CreateOpportunity, TypeOK
    <2> QED BY <1>2, <2>1, <2>2 DEF Immediate, CreateQuotation, DeleteQuotation, Renumber, DeleteOrder
  <1>3. ASSUME NEW r \in Requests, Step(r), ~ Rollback(r)
        PROVE  Lasting
    <2>1. CASE CommitOrder(r) \/ CommitUpdate(r) \/ CommitBackfill(r)
      BY <1>3, <2>1 DEF CommitOrder, CommitUpdate, CommitBackfill
    <2>2. CASE CommitDelete(r)
      <3>1. job[r].opp \in Opps \cup {None}
        BY DEF TypeOK, Jobs
      <3>2. /\ oppState' = [oppState EXCEPT ![job[r].opp] = "deleted"]
            /\ orders' = {[x EXCEPT !.opp = IF @ = job[r].opp THEN None ELSE @] : x \in orders}
        BY <1>3, <2>2 DEF CommitDelete
      <3>3. ASSUME NEW x \in orders, x.opp # job[r].opp
            PROVE  \E y \in orders' : y.opp = x.opp
        <4>1. [x EXCEPT !.opp = IF @ = job[r].opp THEN None ELSE @] \in orders'
          BY <3>2
        <4> QED BY <3>3, <4>1 DEF TypeOK, OrderRows
      <3> QED BY <3>1, <3>2, <3>3 DEF TypeOK
    <2>3. CASE CommitLink(r)
      <3>1. PICK o \in Opps : /\ oppState' = [oppState EXCEPT ![o] = "live"]
                              /\ oppState[o] \in {"unborn", "live"} /\ orders' = orders
        BY <1>3, <2>3 DEF CommitLink
      <3> QED BY <3>1 DEF TypeOK
    <2>4. CASE FindOrder(r) \/ FindQuoteOrder(r) \/ ValidateLinks(r) \/ LockOpportunity(r)
               \/ Recheck(r) \/ InsertOrder(r) \/ (\E o \in Opps : BackfillVisit(r, o))
               \/ MatchOpportunity(r)
      BY <1>1, <1>3, <2>4 DEF FindOrder, FindQuoteOrder, ValidateLinks, LockOpportunity, Recheck,
         InsertOrder, BackfillVisit, MatchOpportunity, Goto
    <2> QED BY <1>3, <2>1, <2>2, <2>3, <2>4 DEF Step
  <1>4. ASSUME NEW r \in Requests, Start(r) \/ Fail(r) \/ DeadlockVictim(r) \/ Rollback(r)
        PROVE  UNCHANGED tables
    BY <1>4 DEF Start, LoadOpportunity, StartOrder, StartBackfill, StartDelete, LoadToDelete, StartLink,
                Fail, DeadlockVictim, Rollback
  <1> QED BY <1>1, <1>2, <1>3, <1>4 DEF Next, vars, tables
-----------------------------------------------------------------------------
(* The inductive invariant of winning.  A request that means to win goes on   *)
(* to its commit only with an order in sight, its own or one that was there.  *)
(* An opportunity that is Won without an order (as it was created, or found   *)
(* by the migrations) has all three columns Won, and so has what every        *)
(* request that is about to write it has read: one that has read less has an  *)
(* UPDATE that names one column and not another, and could win by accident.   *)
AllWon == OfSales("Won")

Pure(t) == IsWon(t) => t = AllWon

Wins(r) == EntersWon(snap[r].stage, job[r].target)

Working(r) ==
  LET o == job[r].opp IN
  /\ job[r].kind = "update" =>
       /\ o \in Opps /\ oppState[o] # "unborn" /\ Pure(job[r].target)
       /\ pc[r] = "commit" /\ Wins(r) /\ LiveOpp(o) => OpportunityHasOrder(r, o)
       /\ pc[r] # "commit" => Wins(r)
       /\ \A x \in ins[r] : Wins(r) /\ x.opp = o
  /\ job[r].kind = "link" /\ o # None =>
       /\ pc[r] = "link" /\ oppState[o] # "unborn"
       /\ ~ IsWon(snap[r].stage) /\ ~ IsWon(job[r].target)
  /\ job[r].kind = "none" => ins[r] = {}

Reads(r, o) == job[r].kind \in {"update", "link"} /\ job[r].opp = o

Untouched(o) ==
  \A r \in Requests : Reads(r, o) => Pure(snap[r].stage)
                                    /\ (IsWon(stageOf[o]) => snap[r].stage = AllWon)

WinInv ==
  /\ \A r \in Requests : Working(r)
  /\ \A o \in Opps : LiveOpp(o) /\ ~ HasOrder(o) => Pure(stageOf[o]) /\ Untouched(o)

(* What winning means column by column.                                       *)
LEMMA AllWonIs == /\ AllWon = [stage |-> "Won", sales |-> "Won", deal |-> "Won"]
                  /\ AllWon \in Triples /\ IsWon(AllWon)
  BY OfSalesTyped DEF AllWon, OfSales, SalesToLegacy, SalesToDeal, SalesStages, IsWon

LEMMA CoherentPure == \A s \in SalesStages : Pure(OfSales(s))
  BY DEF Pure, AllWon, IsWon, OfSales, SalesStages, SalesToLegacy, SalesToDeal

LEMMA AskedPure == ASSUME ConstantsAssumption, NEW ask \in Asked PROVE Pure(Resolve(ask))
  BY ResolveCoherent, CoherentPure DEF ConstantsAssumption

LEMMA NewLeadPure == ~ IsWon(NewLead) /\ Pure(NewLead)
  BY DEF Pure, IsWon, NewLead, OfSales, SalesToLegacy, SalesToDeal

(* An UPDATE by a request that has read the row as it is writes its target.   *)
LEMMA WrittenFresh ==
  \A row, target \in Triples : Written(row, row, target) = target
  BY DEF Written, LaterColumns, Triples

(* An UPDATE that does not enter Won leaves a row that is not Won so.         *)
LEMMA WrittenNotWon ==
  ASSUME NEW row \in Triples, NEW read \in Triples, NEW target \in Triples,
         ~ IsWon(row), Pure(read), Pure(target), ~ EntersWon(read, target)
  PROVE  ~ IsWon(Written(row, read, target))
  <1>1. CASE IsWon(target)
    <2>1. read = target
      BY <1>1, AllWonIs DEF Pure, EntersWon
    <2>2. Written(row, read, target) = row
      BY <2>1 DEF Written, LaterColumns, Triples
    <2> QED BY <2>2
  <1>2. CASE ~ IsWon(target)
    BY <1>2 DEF Written, LaterColumns, IsWon
  <1> QED BY <1>1, <1>2

(* One that does, over a row that is not Won, makes it Won altogether.        *)
LEMMA WrittenWon ==
  ASSUME NEW row \in Triples, NEW read \in Triples, NEW target \in Triples,
         Pure(target), EntersWon(read, target)
  PROVE  Written(row, read, target) = AllWon
  <1>1. target = AllWon
    BY DEF Pure, EntersWon, IsWon
  <1> QED BY <1>1, AllWonIs DEF EntersWon, IsWon, Written, LaterColumns

LEMMA InitWin == ConstantsAssumption /\ Init => WinInv
  <1> SUFFICES ASSUME ConstantsAssumption, Init PROVE WinInv
    OBVIOUS
  <1>1. \A r \in Requests : job[r].kind = "none" /\ ins[r] = {}
    BY DEF Init, NoJob
  <1>2. \A o \in Opps : Pure(stageOf[o])
    BY AskedPure, NewLeadPure DEF Init
  <1> QED BY <1>1, <1>2 DEF WinInv, Working, Untouched, Reads

(* What a request works with stays right while others move.                   *)
LEMMA WorkingStays ==
  ASSUME TypeOK, Lasting, NEW s \in Requests, Working(s),
         pc'[s] = pc[s], job'[s] = job[s], snap'[s] = snap[s], ins'[s] = ins[s]
  PROVE  Working(s)'
  <1> DEFINE o == job[s].opp
  <1>1. ASSUME job[s].kind = "update"
        PROVE  (pc[s] = "commit" /\ Wins(s) /\ LiveOpp(o) => OpportunityHasOrder(s, o))'
    BY <1>1 DEF Working, Lasting, Wins, OpportunityHasOrder, Visible, HasOrder
  <1>2. o \in Opps \cup {None} /\ (o \in Opps /\ oppState[o] # "unborn" => oppState'[o] # "unborn")
    BY DEF TypeOK, Jobs, Lasting
  <1>3. job[s].kind = "link" /\ o # None => oppState'[o] # "unborn"
    BY <1>2 DEF Working
  <1> QED BY <1>1, <1>2, <1>3 DEF Working, Wins

(* A step of r that changes no opportunity and brings r no new reading.       *)
LEMMA QuietWin ==
  ASSUME TypeOK, Lasting, WinInv, NEW r \in Requests, UNCHANGED <<oppState, stageOf>>,
         \A s \in Requests \ {r} : /\ pc'[s] = pc[s] /\ job'[s] = job[s]
                                   /\ snap'[s] = snap[s] /\ ins'[s] = ins[s],
         Working(r)',
         \A o \in Opps : Reads(r, o)' => Reads(r, o) /\ snap'[r].stage = snap[r].stage
  PROVE  WinInv'
  <1>1. \A s \in Requests : Working(s)'
    BY WorkingStays DEF WinInv
  <1>2. ASSUME NEW o \in Opps, LiveOpp(o)', ~ HasOrder(o)'
        PROVE  Pure(stageOf[o])' /\ Untouched(o)'
    <2>1. Pure(stageOf[o]) /\ Untouched(o)
      BY <1>2 DEF Lasting, WinInv, LiveOpp
    <2> QED BY <2>1 DEF Untouched, Reads
  <1> QED BY <1>1, <1>2 DEF WinInv

LEMMA UnbornUnread ==
  ASSUME WinInv, NEW o \in Opps, oppState[o] = "unborn"
  PROVE  \A s \in Requests : ~ Reads(s, o)
  <1> SUFFICES ASSUME NEW s \in Requests, Reads(s, o) PROVE FALSE
    OBVIOUS
  <1>1. Working(s) /\ o # None
    BY ConstantsAssumption DEF WinInv, ConstantsAssumption
  <1> QED BY <1>1 DEF Working, Reads

(* The end of a transaction that changes at most one opportunity.             *)
LEMMA ReleaseWin ==
  ASSUME TypeOK, AllPlaced, Lasting, WinInv, NEW r \in Requests, Release(r), NEW o,
         \A p \in Opps \ {o} : stageOf'[p] = stageOf[p] /\ (LiveOpp(p)' => LiveOpp(p)),
         o \in Opps /\ LiveOpp(o)' /\ ~ HasOrder(o)' =>
            /\ Pure(stageOf'[o])
            /\ LiveOpp(o) /\ IsWon(stageOf'[o]) => IsWon(stageOf[o])
  PROVE  WinInv'
  <1>1. \A s \in Requests \ {r} : /\ pc'[s] = pc[s] /\ job'[s] = job[s]
                                   /\ snap'[s] = snap[s] /\ ins'[s] = ins[s]
    BY DEF Release, TypeOK
  <1>2. job'[r].kind = "none" /\ ins'[r] = {}
    BY ReleasePlaced DEF NoJob
  <1>3. \A s \in Requests : Working(s)'
    <2>1. Working(r)'
      BY <1>2 DEF Working
    <2> QED BY <1>1, <2>1, WorkingStays DEF WinInv
  <1>4. ASSUME NEW p \in Opps, LiveOpp(p)', ~ HasOrder(p)'
        PROVE  Pure(stageOf[p])' /\ Untouched(p)'
    <2>1. \A s \in Requests : Reads(s, p)' => Reads(s, p) /\ snap'[s] = snap[s]
      BY <1>1, <1>2 DEF Reads
    <2>2. CASE LiveOpp(p)
      <3>1. Pure(stageOf[p]) /\ Untouched(p)
        BY <1>4, <2>2 DEF Lasting, WinInv
      <3>2. Pure(stageOf'[p]) /\ (IsWon(stageOf'[p]) => IsWon(stageOf[p]))
        BY <1>4, <2>2, <3>1
      <3> QED BY <2>1, <3>1, <3>2 DEF Untouched
    <2>3. CASE ~ LiveOpp(p)
      <3>1. p = o /\ oppState[p] = "unborn"
        BY <1>4, <2>3 DEF Lasting
      <3>2. \A s \in Requests : ~ Reads(s, p)
        BY <3>1, UnbornUnread
      <3> QED BY <1>4, <2>1, <3>1, <3>2 DEF Untouched
    <2> QED BY <2>2, <2>3
  <1> QED BY <1>3, <1>4 DEF WinInv

LEMMA StartWin ==
  ASSUME ConstantsAssumption, TypeOK, AllPlaced, Lasting, WinInv, NEW r \in Requests, Start(r)
  PROVE  WinInv'
  <1>0. /\ \A s \in Requests \ {r} : /\ pc'[s] = pc[s] /\ job'[s] = job[s]
                                      /\ snap'[s] = snap[s] /\ ins'[s] = ins[s]
        /\ UNCHANGED tables
    BY OthersStay DEF Start, LoadOpportunity, StartOrder, StartBackfill, StartDelete, LoadToDelete,
       StartLink
  <1>1. ins[r] = {} /\ ins' = ins
    BY DEF Start, LoadOpportunity, StartOrder, StartBackfill, StartDelete, LoadToDelete,
       StartLink, AllPlaced, Placed, WinInv, Working
  <1>2. ASSUME NEW o \in Opps, NEW ask \in Asked, LoadOpportunity(r, o, ask)
        PROVE  WinInv'
    <2>1. /\ job'[r].kind = "update" /\ job'[r].opp = o /\ job'[r].target = Resolve(ask)
          /\ snap'[r].stage = stageOf[o] /\ LiveOpp(o)
          /\ pc'[r] = IF EntersWon(stageOf[o], Resolve(ask)) THEN "findOrder" ELSE "commit"
      BY <1>2 DEF LoadOpportunity, TypeOK, NoJob
    <2>2. Working(r)'
      BY <1>0, <1>1, <2>1, AskedPure DEF Working, Wins, tables, LiveOpp
    <2>3. \A s \in Requests : Working(s)'
      BY <1>0, <2>2, WorkingStays DEF WinInv
    <2>4. ASSUME NEW p \in Opps, LiveOpp(p)', ~ HasOrder(p)'
          PROVE  Pure(stageOf[p])' /\ Untouched(p)'
      <3>1. Pure(stageOf[p]) /\ Untouched(p)
        BY <1>0, <2>4 DEF WinInv, LiveOpp, HasOrder, tables
      <3>2. Reads(r, p)' => p = o
        BY <2>1 DEF Reads
      <3> QED BY <1>0, <2>1, <3>1, <3>2 DEF Untouched, Reads, tables, Pure
    <2> QED BY <2>3, <2>4 DEF WinInv
  <1>3. ASSUME job'[r].kind \notin {"none", "update"}, job'[r].kind = "link" => job'[r].opp = None
        PROVE  WinInv'
    <2>1. Working(r)'
      BY <1>3 DEF Working
    <2>2. \A o \in Opps : ~ Reads(r, o)'
      BY <1>3 DEF Reads, ConstantsAssumption
    <2> QED BY <1>0, <2>1, <2>2, QuietWin DEF tables
  <1>4. ASSUME NEW o \in Opps \cup {None}, NEW q \in Quotes \cup {None}, NEW n \in Numbers,
               StartOrder(r, o, q, n)
        PROVE  WinInv'
    <2>1. job'[r].kind = "order"
      BY <1>4 DEF StartOrder, TypeOK, NoJob
    <2> QED BY <1>3, <2>1
  <1>5. CASE StartBackfill(r)
    BY <1>3, <1>5 DEF StartBackfill, TypeOK, NoJob
  <1>6. ASSUME NEW o \in Opps, StartDelete(r, o)
        PROVE  WinInv'
    <2>1. job'[r].kind = "deleteOpportunity"
      BY <1>6 DEF StartDelete, LoadToDelete, TypeOK, NoJob
    <2> QED BY <1>3, <2>1
  <1>7. CASE \E q \in Quotes \cup {None} : StartLink(r, q)
    BY <1>3, <1>7 DEF StartLink, TypeOK, NoJob
  <1> QED BY <1>2, <1>4, <1>5, <1>6, <1>7 DEF Start

LEMMA ChosenJob ==
  ASSUME TypeOK, NEW r \in Requests, NEW o, NEW q, ChooseQuotation(r, o, q)
  PROVE  job'[r].kind = job[r].kind /\ job'[r].target = job[r].target /\ job'[r].opp = o
  BY DEF ChooseQuotation, TypeOK, Jobs

(* A step of r on its way: it keeps what it read and what it was asked.       *)
LEMMA OnTheWayWin ==
  ASSUME TypeOK, Lasting, WinInv, NEW r \in Requests, Step(r),
         UNCHANGED <<oppState, stageOf, snap>>,
         job'[r].kind = job[r].kind /\ job'[r].target = job[r].target,
         job[r].kind \in {"update", "order", "backfill"} /\ pc[r] # "commit",
         job[r].kind = "update" =>
            /\ job'[r].opp = job[r].opp
            /\ \A x \in ins'[r] : x.opp = job[r].opp
            /\ pc'[r] = "commit" => OpportunityHasOrder(r, job[r].opp)'
  PROVE  WinInv'
  <1>1. \A s \in Requests \ {r} : /\ pc'[s] = pc[s] /\ job'[s] = job[s]
                                   /\ snap'[s] = snap[s] /\ ins'[s] = ins[s]
    BY OthersStay
  <1>2. Working(r)'
    BY DEF WinInv, Working, Wins
  <1> QED BY <1>1, <1>2, QuietWin DEF Reads

LEMMA StepWin ==
  ASSUME ConstantsAssumption, TypeOK, AllPlaced, Lasting, WinInv, NEW r \in Requests, Step(r)
  PROVE  WinInv'
  <1> USE DEF OpportunityHasOrder, Visible
  <1>0. Placed(r) /\ Working(r) /\ job[r] \in Jobs
    BY DEF AllPlaced, WinInv, TypeOK
  <1>1. CASE Release(r) /\ UNCHANGED <<oppState, stageOf>>
    <2>1. ASSUME NEW o \in Opps, LiveOpp(o)', ~ HasOrder(o)'
          PROVE  Pure(stageOf'[o])
      BY <1>1, <2>1 DEF Lasting, WinInv, LiveOpp
    <2> QED BY <1>1, <2>1, ReleaseWin DEF LiveOpp
  <1>2. CASE Rollback(r)
    BY <1>1, <1>2 DEF Rollback, tables
  <1>3. ASSUME NEW point, Goto(r, point), job[r].kind \in {"update", "order", "backfill"},
               pc[r] # "commit",
               job[r].kind = "update" /\ point = "commit" => OpportunityHasOrder(r, job[r].opp)
        PROVE  WinInv'
    <2>1. pc'[r] = point /\ UNCHANGED <<oppState, stageOf, orders, snap, job, ins>>
      BY <1>3 DEF Goto, TypeOK, tables
    <2> QED BY <1>0, <1>3, <2>1, OnTheWayWin DEF Working
  <1>4. CASE FindOrder(r)
    <2>1. CASE \E q \in Quotes : ChooseQuotation(r, job[r].opp, q) /\ UNCHANGED <<tables, snap, ins>>
      <3>1. PICK q \in Quotes : ChooseQuotation(r, job[r].opp, q) /\ UNCHANGED <<tables, snap, ins>>
        BY <2>1
      <3>2. pc'[r] = "findQuoteOrder" /\ pc[r] = "findOrder" /\ UNCHANGED <<oppState, stageOf, snap, ins>>
        BY <1>4, <3>1 DEF FindOrder, ChooseQuotation, TypeOK, tables
      <3>3. job'[r].kind = job[r].kind /\ job'[r].target = job[r].target /\ job'[r].opp = job[r].opp
        BY <1>0, <3>1, ChosenJob
      <3> QED BY <1>0, <3>2, <3>3, OnTheWayWin DEF Working, Placed
    <2> QED BY <1>0, <1>2, <1>3, <1>4, <2>1 DEF FindOrder, Placed
  <1>5. CASE FindQuoteOrder(r)
    BY <1>0, <1>2, <1>3, <1>5 DEF FindQuoteOrder, Placed, AfterOrder, SourceUsedHere
  <1>6. CASE ValidateLinks(r) \/ Recheck(r)
    BY <1>0, <1>2, <1>3, <1>6 DEF ValidateLinks, Recheck, Placed
  <1>7. CASE LockOpportunity(r) /\ ~ Rollback(r)
    <2>1. /\ pc'[r] = "recheck" /\ pc[r] = "lock"
          /\ UNCHANGED <<oppState, stageOf, snap, job, ins>>
      BY <1>7 DEF LockOpportunity, TypeOK, tables
    <2> QED BY <1>0, <2>1, OnTheWayWin DEF Working, Placed
  <1>8. CASE InsertOrder(r) /\ ~ Rollback(r)
    <2>1. /\ pc[r] = "insert" /\ ins'[r] = ins[r] \cup {NewRow(r)}
          /\ UNCHANGED <<oppState, stageOf, snap, job>>
      BY <1>8 DEF InsertOrder, TypeOK, tables
    <2>2. NewRow(r).opp = job[r].opp
      BY DEF NewRow
    <2>3. OpportunityHasOrder(r, job[r].opp)'
      BY <2>1, <2>2
    <2> QED BY <1>0, <2>1, <2>2, <2>3, OnTheWayWin DEF Working, Placed
  <1>9. CASE \E o \in Opps : BackfillVisit(r, o)
    <2>1. /\ pc[r] = "scan" /\ job[r].kind = "backfill"
          /\ UNCHANGED <<oppState, stageOf, snap, ins>>
      BY <1>0, <1>9 DEF BackfillVisit, Placed, tables
    <2>2. job'[r].kind = job[r].kind /\ job'[r].target = job[r].target
      BY <1>9, ChosenJob DEF BackfillVisit
    <2> QED BY <2>1, <2>2, OnTheWayWin
  <1>10. CASE CommitOrder(r) \/ CommitBackfill(r)
    BY <1>1, <1>10 DEF CommitOrder, CommitBackfill
  <1>11. CASE CommitUpdate(r) /\ ~ Rollback(r)
    <2> DEFINE read == snap[r].stage
               target == job[r].target
    <2> PICK o \in Opps : o = job[r].opp
      BY <1>0, <1>11 DEF Working, CommitUpdate
    <2>1. /\ Release(r) /\ UNCHANGED oppState /\ orders' = orders \cup ins[r] /\ LiveOpp(o)
          /\ stageOf' = [stageOf EXCEPT ![o] = Written(@, read, target)]
          /\ pc[r] = "commit" /\ job[r].kind = "update"
      BY <1>11 DEF CommitUpdate
    <2>2. stageOf[o] \in Triples /\ read \in Triples /\ target \in Triples /\ Pure(target)
      BY <1>0, <2>1 DEF Working, TypeOK, Jobs, Snapshots
    <2>3. ASSUME ~ HasOrder(o)'
          PROVE  Pure(stageOf'[o]) /\ (IsWon(stageOf'[o]) => IsWon(stageOf[o]))
      <3>1. ~ HasOrder(o) /\ ~ OpportunityHasOrder(r, o)
        BY <2>1, <2>3 DEF HasOrder
      <3>2. ~ EntersWon(read, target)
        BY <1>0, <2>1, <3>1 DEF Working, Wins
      <3>3. Pure(stageOf[o]) /\ Pure(read) /\ (IsWon(stageOf[o]) => read = AllWon)
        BY <2>1, <2>2, <3>1 DEF WinInv, Untouched, Reads
      <3>4. CASE IsWon(stageOf[o])
        <4>1. stageOf'[o] = target
          BY <2>1, <2>2, <3>3, <3>4, WrittenFresh DEF TypeOK, Pure
        <4> QED BY <2>2, <3>4, <4>1
      <3>5. CASE ~ IsWon(stageOf[o])
        <4>1. ~ IsWon(stageOf'[o])
          BY <2>1, <2>2, <3>2, <3>3, <3>5, WrittenNotWon DEF TypeOK
        <4> QED BY <4>1 DEF Pure
      <3> QED BY <3>4, <3>5
    <2>4. \A p \in Opps \ {o} : stageOf'[p] = stageOf[p] /\ (LiveOpp(p)' => LiveOpp(p))
      BY <2>1 DEF TypeOK, LiveOpp
    <2> QED BY <2>1, <2>3, <2>4, ReleaseWin
  <1>12. CASE CommitDelete(r) /\ ~ Rollback(r)
    <2> PICK o : o = job[r].opp
      OBVIOUS
    <2>1. /\ Release(r) /\ oppState' = [oppState EXCEPT ![o] = "deleted"]
          /\ stageOf' = [stageOf EXCEPT ![o] = NewLead]
      BY <1>12 DEF CommitDelete
    <2>2. o \in Opps => ~ LiveOpp(o)'
      BY <2>1 DEF LiveOpp, TypeOK
    <2>3. \A p \in Opps \ {o} : stageOf'[p] = stageOf[p] /\ (LiveOpp(p)' => LiveOpp(p))
      BY <2>1 DEF TypeOK, LiveOpp
    <2> QED BY <2>1, <2>2, <2>3, ReleaseWin
  <1>13. CASE MatchOpportunity(r)
    <2>1. /\ pc[r] = "match" /\ pc'[r] = "link" /\ job[r].kind = "link" /\ job[r].opp = None
          /\ UNCHANGED <<oppState, stageOf, orders, ins>>
      BY <1>0, <1>13 DEF MatchOpportunity, TypeOK, tables, Placed, Working
    <2>2. CASE UNCHANGED <<job, snap>>
      <3>1. Working(r)'
        BY <2>1, <2>2 DEF Working
      <3>2. \A o \in Opps : ~ Reads(r, o)'
        BY <2>1, <2>2 DEF Reads, ConstantsAssumption
      <3> QED BY <2>1, <3>1, <3>2, OthersStay, QuietWin
    <2>3. ASSUME NEW o \in Opps, LiveOpp(o), ~ IsClosed(stageOf[o]),
                 job' = [job EXCEPT ![r] = [@ EXCEPT !.opp = o, !.target = Advanced(stageOf[o])]],
                 snap' = [snap EXCEPT ![r] = [NoSnap EXCEPT !.stage = stageOf[o]]]
          PROVE  WinInv'
      <3>1. /\ job'[r].kind = "link" /\ job'[r].opp = o /\ job'[r].target = Advanced(stageOf[o])
            /\ snap'[r].stage = stageOf[o]
        BY <1>0, <2>1, <2>3 DEF TypeOK, Jobs, NoSnap
      <3>2. ~ IsWon(stageOf[o]) /\ ~ IsWon(Advanced(stageOf[o]))
        BY <2>3 DEF IsClosed, IsWon, Advanced, Quoted, OfSales, SalesToLegacy, SalesToDeal
      <3>3. Working(r)'
        BY <2>1, <2>3, <3>1, <3>2 DEF Working, LiveOpp
      <3>4. \A s \in Requests : Working(s)'
        BY <3>3, OthersStay, WorkingStays DEF WinInv
      <3>5. ASSUME NEW p \in Opps, LiveOpp(p)', ~ HasOrder(p)'
            PROVE  Pure(stageOf[p])' /\ Untouched(p)'
        <4>1. Pure(stageOf[p]) /\ Untouched(p)
          BY <2>1, <3>5 DEF WinInv, LiveOpp, HasOrder
        <4>2. Reads(r, p)' => p = o
          BY <3>1 DEF Reads
        <4>3. \A s \in Requests \ {r} : Reads(s, p)' => Reads(s, p) /\ snap'[s] = snap[s]
          BY OthersStay DEF Reads
        <4> QED BY <2>1, <3>1, <3>2, <4>1, <4>2, <4>3 DEF Untouched, Pure
      <3> QED BY <3>4, <3>5 DEF WinInv
    <2> QED BY <1>13, <2>2, <2>3 DEF MatchOpportunity
  <1>14. CASE CommitLink(r) /\ ~ Rollback(r)
    <2>1. PICK o \in Opps :
            /\ Release(r) /\ orders' = orders /\ oppState' = [oppState EXCEPT ![o] = "live"]
            /\ IF job[r].opp = None THEN oppState[o] = "unborn" ELSE o = job[r].opp /\ LiveOpp(o)
            /\ stageOf' = [stageOf EXCEPT ![o] =
                              IF job[r].opp = None THEN OfSales("QuotationSent")
                              ELSE Written(@, snap[r].stage, job[r].target)]
            /\ pc[r] = "link"
      BY <1>14 DEF CommitLink
    <2>2. \A p \in Opps \ {o} : stageOf'[p] = stageOf[p] /\ (LiveOpp(p)' => LiveOpp(p))
      BY <2>1 DEF TypeOK, LiveOpp
    <2>3. ASSUME ~ HasOrder(o)'
          PROVE  ~ IsWon(stageOf'[o])
      <3>1. CASE job[r].opp = None
        BY <2>1, <3>1 DEF TypeOK, IsWon, OfSales, SalesToLegacy, SalesToDeal
      <3>2. CASE job[r].opp # None
        <4>1. /\ job[r].kind = "link" /\ ~ IsWon(snap[r].stage) /\ ~ IsWon(job[r].target)
              /\ o = job[r].opp /\ LiveOpp(o)
          BY <1>0, <2>1, <3>2 DEF Working, Placed
        <4>2. ~ IsWon(stageOf[o])
          BY <2>1, <2>3, <4>1, AllWonIs DEF WinInv, Untouched, Reads, HasOrder
        <4>3. stageOf'[o] = Written(stageOf[o], snap[r].stage, job[r].target)
          BY <2>1, <3>2 DEF TypeOK
        <4> QED BY <4>1, <4>2, <4>3 DEF Written, LaterColumns, IsWon
      <3> QED BY <3>1, <3>2
    <2> QED BY <2>1, <2>2, <2>3, ReleaseWin DEF Pure
  <1> QED BY <1>2, <1>4, <1>5, <1>6, <1>7, <1>8, <1>9, <1>10, <1>11, <1>12, <1>13, <1>14 DEF Step

LEMMA ImmediateWin ==
  ASSUME ConstantsAssumption, TypeOK, Lasting, WinInv, Immediate
  PROVE  WinInv'
  <1>1. UNCHANGED sessions
    BY ImmediateStay
  <1>2. \A s \in Requests : Working(s)'
    BY <1>1, WorkingStays DEF WinInv, sessions
  <1>3. ASSUME NEW p \in Opps, LiveOpp(p)', ~ HasOrder(p)'
        PROVE  Pure(stageOf[p])' /\ Untouched(p)'
    <2>1. CASE LiveOpp(p)
      <3>1. Pure(stageOf[p]) /\ Untouched(p)
        BY <1>3, <2>1 DEF Lasting, WinInv
      <3>2. stageOf'[p] = stageOf[p]
        BY <2>1 DEF Immediate, CreateOpportunity, CreateQuotation, DeleteQuotation, Renumber,
           DeleteOrder, LiveOpp, TypeOK
      <3> QED BY <1>1, <3>1, <3>2 DEF Untouched, Reads, sessions
    <2>2. CASE ~ LiveOpp(p)
      <3>1. oppState[p] = "unborn"
        BY <1>3, <2>2 DEF Lasting
      <3>2. Pure(stageOf'[p])
        BY <1>3, <2>2, AskedPure DEF Immediate, CreateOpportunity, CreateQuotation, DeleteQuotation,
           Renumber, DeleteOrder, LiveOpp, TypeOK
      <3> QED BY <1>1, <3>1, <3>2, UnbornUnread DEF Untouched, Reads, sessions
    <2> QED BY <2>1, <2>2
  <1> QED BY <1>2, <1>3 DEF WinInv

LEMMA NextWin ==
  ASSUME ConstantsAssumption, TypeOK, AllPlaced, Lasting, WinInv, [Next]_vars
  PROVE  WinInv'
  <1>1. CASE UNCHANGED vars
    BY <1>1 DEF vars, WinInv, Working, Wins, Untouched, Reads, HasOrder, LiveOpp,
       OpportunityHasOrder, Visible
  <1>2. ASSUME NEW r \in Requests, Fail(r) \/ DeadlockVictim(r)
        PROVE  WinInv'
    <2>1. Release(r) /\ UNCHANGED <<oppState, stageOf>>
      BY <1>2 DEF Fail, DeadlockVictim, Rollback, tables
    <2>2. \A o \in Opps : LiveOpp(o)' /\ ~ HasOrder(o)' => Pure(stageOf'[o])
      BY <2>1 DEF Lasting, WinInv, LiveOpp
    <2> QED BY <2>1, <2>2, ReleaseWin DEF LiveOpp
  <1> QED BY <1>1, <1>2, StartWin, StepWin, ImmediateWin DEF Next

(* What the promises rest on together.                                        *)
PromiseInv == LinkInv /\ AllPlaced /\ WinInv

LEMMA InitPromise == Init => PromiseInv
  <1> SUFFICES ASSUME Init PROVE PromiseInv
    OBVIOUS
  <1>1. LinkInv
    BY ConstantsAssumption, InitOrderInv
       DEF Init, LinkInv, NoDanglingLinks, HeldIsLive, Held, LiveOpp
  <1>2. AllPlaced
    BY DEF Init, AllPlaced, Placed, NoJob
  <1> QED BY <1>1, <1>2, ConstantsAssumption, InitWin DEF PromiseInv

LEMMA NextPromise ==
  ASSUME "deleteOrder" \notin Kinds, PromiseInv, [Next]_vars
  PROVE  PromiseInv' /\ Lasting
  <1>1. Lasting
    BY NextLasting DEF PromiseInv, LinkInv, OrderInv
  <1>2. LinkInv'
    BY ConstantsAssumption, NextOrderInv, NextHeld DEF PromiseInv, LinkInv, OrderInv
  <1> QED BY <1>1, <1>2, ConstantsAssumption, NextPlaced, NextWin DEF PromiseInv, LinkInv, OrderInv
-----------------------------------------------------------------------------
(* A deal and its order.                                                      *)

(* The one step in which a deal turns Won commits its order with it or finds  *)
(* one committed.                                                             *)
LEMMA NextWinsOrdered ==
  ASSUME "deleteOrder" \notin Kinds, PromiseInv, [Next]_vars,
         NEW o \in Opps, LiveOpp(o), ~ IsWon(stageOf[o]), IsWon(stageOf'[o])
  PROVE  LiveOpp(o)' /\ HasOrder(o)'
  <1>0. TypeOK /\ AllPlaced /\ WinInv /\ Lasting
    BY NextPromise DEF PromiseInv, LinkInv, OrderInv
  <1>1. stageOf'[o] # stageOf[o]
    OBVIOUS
  <1>2. ~ Immediate
    BY <1>0, <1>1 DEF Immediate, CreateOpportunity, CreateQuotation, DeleteQuotation, Renumber,
       DeleteOrder, LiveOpp, TypeOK
  <1>3. PICK r \in Requests : CommitUpdate(r) \/ CommitDelete(r) \/ CommitLink(r)
    BY <1>1, <1>2 DEF Next, vars, tables, Start, LoadOpportunity, StartOrder, StartBackfill,
       StartDelete, LoadToDelete, StartLink, Fail, DeadlockVictim, Rollback, Step, FindOrder,
       FindQuoteOrder, ValidateLinks, LockOpportunity, Recheck, InsertOrder, CommitOrder,
       BackfillVisit, CommitBackfill, MatchOpportunity, Goto
  <1>4. ~ Rollback(r) /\ Working(r) /\ Placed(r)
    BY <1>0, <1>1 DEF Rollback, tables, WinInv, AllPlaced
  <1>5. /\ stageOf[o] \in Triples /\ snap[r].stage \in Triples /\ job[r].target \in Triples
        /\ job[r].opp \in Opps \cup {None}
    BY <1>0 DEF TypeOK, Snapshots, Jobs
  <1>6. CASE CommitUpdate(r)
    <2>1. /\ o = job[r].opp /\ job[r].kind = "update" /\ pc[r] = "commit"
          /\ stageOf'[o] = Written(stageOf[o], snap[r].stage, job[r].target)
          /\ orders' = orders \cup ins[r] /\ oppState' = oppState
      BY <1>0, <1>1, <1>4, <1>6 DEF CommitUpdate, TypeOK
    <2>2. ASSUME ~ HasOrder(o)' PROVE FALSE
      <3>1. ~ HasOrder(o) /\ ~ OpportunityHasOrder(r, o)
        BY <2>1, <2>2 DEF HasOrder, OpportunityHasOrder, Visible
      <3>2. Pure(snap[r].stage) /\ Pure(job[r].target) /\ ~ EntersWon(snap[r].stage, job[r].target)
        BY <1>0, <1>4, <2>1, <3>1 DEF WinInv, Untouched, Reads, Working, Wins
      <3> QED BY <1>5, <2>1, <3>2, WrittenNotWon
    <2> QED BY <2>1, <2>2 DEF LiveOpp
  <1>7. CASE CommitDelete(r)
    BY <1>0, <1>1, <1>4, <1>5, <1>7, NewLeadPure DEF CommitDelete, TypeOK
  <1>8. CASE CommitLink(r)
    <2>1. /\ o = job[r].opp /\ pc[r] = "link"
          /\ stageOf'[o] = Written(stageOf[o], snap[r].stage, job[r].target)
      BY <1>0, <1>1, <1>4, <1>8 DEF CommitLink, TypeOK, LiveOpp
    <2>2. ~ IsWon(job[r].target)
      BY <1>4, <2>1, ConstantsAssumption DEF Working, Placed, ConstantsAssumption
    <2> QED BY <2>1, <2>2 DEF Written, LaterColumns, IsWon
  <1> QED BY <1>3, <1>6, <1>7, <1>8

(* However stale the readings of the requests that write it, an opportunity   *)
(* is not falsely Won: update_opportunity wins it together with its order.    *)
THEOREM WinsAreOrdered ==
  ASSUME "deleteOrder" \notin Kinds
  PROVE  Spec => WinningLeavesAnOrder
  <1>1. Init => PromiseInv
    BY InitPromise
  <1>2. PromiseInv /\ [Next]_vars => PromiseInv'
    BY NextPromise
  <1>3. PromiseInv /\ [Next]_vars =>
          [\A o \in Opps : LiveOpp(o) /\ ~ IsWon(stageOf[o]) /\ IsWon(stageOf'[o])
             => \E x \in orders' : x.opp = o]_vars
    BY NextWinsOrdered DEF HasOrder
  <1> QED BY <1>1, <1>2, <1>3, PTL DEF Spec, WinningLeavesAnOrder
-----------------------------------------------------------------------------
(* The order book.                                                            *)

Page(o) == IF HasOrder(o) THEN 1 ELSE 0

(* With at most one order to an opportunity, its page holds none or one.      *)
LEMMA OneToAPage ==
  ASSUME NEW S, NEW o, o # None, \A x, y \in S : x.opp = y.opp /\ x.opp # None => x = y
  PROVE  Cardinality({x \in S : x.opp = o}) = IF \E x \in S : x.opp = o THEN 1 ELSE 0
  <1>1. CASE \E x \in S : x.opp = o
    <2>1. PICK x \in S : x.opp = o
      BY <1>1
    <2>2. {y \in S : y.opp = o} = {x}
      BY <2>1
    <2> QED BY <1>1, <2>2, FS_Singleton
  <1>2. CASE ~ \E x \in S : x.opp = o
    <2>1. {y \in S : y.opp = o} = {}
      BY <1>2
    <2> QED BY <1>2, <2>1, FS_EmptySet
  <1> QED BY <1>1, <1>2

BookPages == [o \in Opps |-> Cardinality({x \in orders : x.opp = o})]

LEMMA PagesAre ==
  ASSUME OneOrderPerOpportunity
  PROVE  BookPages = [o \in Opps |-> Page(o)]
  <1> SUFFICES ASSUME NEW o \in Opps
               PROVE  Cardinality({x \in orders : x.opp = o}) = Page(o)
    BY DEF BookPages
  <1>1. o # None
    BY ConstantsAssumption DEF ConstantsAssumption
  <1> QED BY <1>1, OneToAPage DEF OneOrderPerOpportunity, Page, HasOrder

LEMMA PagesAreNext ==
  ASSUME OneOrderPerOpportunity'
  PROVE  BookPages' = [o \in Opps |-> Page(o)']
  <1> SUFFICES ASSUME NEW o \in Opps
               PROVE  Cardinality({x \in orders' : x.opp = o}) = Page(o)'
    BY DEF BookPages
  <1>1. o # None
    BY ConstantsAssumption DEF ConstantsAssumption
  <1> QED BY <1>1, OneToAPage DEF OneOrderPerOpportunity, Page, HasOrder

(* A step that concerns at most the deal o is a step of the book.             *)
LEMMA OneDealStep ==
  ASSUME OneOrderPerOpportunity, OneOrderPerOpportunity', NEW o,
         \A p \in Opps \ {o} : DealOf(p)' = DealOf(p) /\ (HasOrder(p)' <=> HasOrder(p)),
         o \in Opps =>
           \/ DealOf(o)' = DealOf(o) /\ (HasOrder(o)' <=> HasOrder(o))
           \/ DealOf(o) = "absent" /\ DealOf(o)' \in {"open", "won"} /\ (HasOrder(o)' <=> HasOrder(o))
           \/ DealOf(o) = "open" /\ DealOf(o)' = "won" /\ HasOrder(o)'
           \/ DealOf(o) = "won" /\ DealOf(o)' = "open" /\ (HasOrder(o)' <=> HasOrder(o))
           \/ DealOf(o) # "absent" /\ DealOf(o)' = "absent" /\ ~ HasOrder(o)'
  PROVE  [Ledger!BookNext]_(Ledger!bookVars)
  <1> DEFINE D == [p \in Opps |-> DealOf(p)]
             B == [p \in Opps |-> Cardinality({x \in orders : x.opp = p})]
  <1>1. B = [p \in Opps |-> Page(p)] /\ B' = [p \in Opps |-> Page(p)']
    BY PagesAre, PagesAreNext DEF BookPages
  <1>2. \A p \in Opps \ {o} : Page(p)' = Page(p)
    BY DEF Page
  <1>3. CASE o \notin Opps \/ (DealOf(o)' = DealOf(o) /\ (HasOrder(o)' <=> HasOrder(o)))
    <2>1. \A p \in Opps : DealOf(p)' = DealOf(p) /\ Page(p)' = Page(p)
      BY <1>2, <1>3 DEF Page
    <2>2. D' = D /\ B' = B
      BY <1>1, <2>1
    <2> QED BY <2>2 DEF Ledger!bookVars
  <1>4. CASE o \in Opps /\ DealOf(o) = "absent" /\ DealOf(o)' \in {"open", "won"}
             /\ (HasOrder(o)' <=> HasOrder(o))
    <2>1. D[o] = "absent" /\ D' = [D EXCEPT ![o] = DealOf(o)'] /\ B' = B
      BY <1>1, <1>2, <1>4 DEF Page
    <2>2. Ledger!Enter(o)
      BY <1>4, <2>1 DEF Ledger!Enter
    <2> QED BY <1>4, <2>2 DEF Ledger!BookNext
  <1>5. CASE o \in Opps /\ DealOf(o) = "open" /\ DealOf(o)' = "won" /\ HasOrder(o)'
    <2>1. D[o] = "open" /\ D' = [D EXCEPT ![o] = "won"] /\ B' = [B EXCEPT ![o] = 1]
      BY <1>1, <1>2, <1>5 DEF Page
    <2>2. Ledger!Win(o)
      BY <2>1 DEF Ledger!Win
    <2> QED BY <1>5, <2>2 DEF Ledger!BookNext
  <1>6. CASE o \in Opps /\ DealOf(o) = "won" /\ DealOf(o)' = "open" /\ (HasOrder(o)' <=> HasOrder(o))
    <2>1. D[o] = "won" /\ D' = [D EXCEPT ![o] = "open"] /\ B' = B
      BY <1>1, <1>2, <1>6 DEF Page
    <2>2. Ledger!Reopen(o)
      BY <2>1 DEF Ledger!Reopen
    <2> QED BY <1>6, <2>2 DEF Ledger!BookNext
  <1>7. CASE o \in Opps /\ DealOf(o) # "absent" /\ DealOf(o)' = "absent" /\ ~ HasOrder(o)'
    <2>1. D[o] # "absent" /\ D' = [D EXCEPT ![o] = "absent"] /\ B' = [B EXCEPT ![o] = 0]
      BY <1>1, <1>2, <1>7 DEF Page
    <2>2. Ledger!Remove(o)
      BY <2>1 DEF Ledger!Remove
    <2> QED BY <1>7, <2>2 DEF Ledger!BookNext
  <1> QED BY <1>3, <1>4, <1>5, <1>6, <1>7

(* A commit that only adds orders books the pages that had none.              *)
LEMMA BookingStep ==
  ASSUME OneOrderPerOpportunity, OneOrderPerOpportunity',
         \A p \in Opps : /\ DealOf(p)' = DealOf(p)
                         /\ HasOrder(p) => HasOrder(p)'
                         /\ HasOrder(p)' => DealOf(p) # "absent"
  PROVE  [Ledger!BookNext]_(Ledger!bookVars)
  <1> DEFINE D == [p \in Opps |-> DealOf(p)]
             B == [p \in Opps |-> Cardinality({x \in orders : x.opp = p})]
             S == {p \in Opps : ~ HasOrder(p) /\ HasOrder(p)'}
  <1>1. B = [p \in Opps |-> Page(p)] /\ B' = [p \in Opps |-> Page(p)']
    BY PagesAre, PagesAreNext DEF BookPages
  <1>2. D' = D
    OBVIOUS
  <1>3. \A p \in S : D[p] # "absent" /\ B[p] = 0
    BY <1>1 DEF Page
  <1>4. B' = [p \in Opps |-> IF p \in S THEN 1 ELSE B[p]]
    BY <1>1 DEF Page
  <1>5. CASE S = {}
    <2>1. B' = B
      BY <1>1, <1>4, <1>5
    <2> QED BY <1>2, <2>1 DEF Ledger!bookVars
  <1>6. CASE S # {}
    <2>1. Ledger!Book(S)
      BY <1>2, <1>3, <1>4, <1>6 DEF Ledger!Book
    <2>2. S \in SUBSET Opps
      OBVIOUS
    <2> HIDE DEF S
    <2> QED BY <2>1, <2>2 DEF Ledger!BookNext
  <1> QED BY <1>5, <1>6

(* No page without its deal: the opportunities that are gone have no orders.  *)
LEMMA OrdersNeedDeals ==
  ASSUME NoDanglingLinks, NEW o \in Opps, HasOrder(o)
  PROVE  LiveOpp(o)
  BY ConstantsAssumption DEF NoDanglingLinks, HasOrder, ConstantsAssumption

LEMMA CommitUpdateBooks ==
  ASSUME PromiseInv, PromiseInv', Lasting, "deleteOrder" \notin Kinds, [Next]_vars,
         NEW r \in Requests, CommitUpdate(r), ~ Rollback(r)
  PROVE  [Ledger!BookNext]_(Ledger!bookVars)
  <1>0. /\ TypeOK /\ AllPlaced /\ WinInv /\ Working(r) /\ NoDanglingLinks
        /\ OneOrderPerOpportunity /\ OneOrderPerOpportunity'
    BY DEF PromiseInv, LinkInv, OrderInv, WinInv
  <1> PICK o \in Opps : o = job[r].opp
    BY <1>0 DEF Working, CommitUpdate
  <1>1. /\ job[r].kind = "update" /\ LiveOpp(o) /\ LiveOpp(o)' /\ oppState' = oppState
        /\ stageOf' = [stageOf EXCEPT ![o] = Written(@, snap[r].stage, job[r].target)]
        /\ orders' = orders \cup ins[r]
    BY DEF CommitUpdate, LiveOpp
  <1>2. \A x \in ins[r] : Wins(r) /\ x.opp = o
    BY <1>0, <1>1 DEF Working
  <1>3. \A p \in Opps \ {o} : DealOf(p)' = DealOf(p) /\ (HasOrder(p)' <=> HasOrder(p))
    BY <1>0, <1>1, <1>2 DEF DealOf, LiveOpp, HasOrder, TypeOK
  <1>4. DealOf(o) \in {"open", "won"} /\ DealOf(o)' \in {"open", "won"}
    BY <1>1 DEF DealOf
  <1>5. HasOrder(o) => HasOrder(o)'
    BY <1>1 DEF HasOrder
  <1>6. CASE HasOrder(o)' <=> HasOrder(o)
    <2>1. DealOf(o) = "open" /\ DealOf(o)' = "won" => HasOrder(o)'
      <3>1. LiveOpp(o) /\ ~ IsWon(stageOf[o]) /\ IsWon(stageOf'[o]) => HasOrder(o)'
        BY NextWinsOrdered
      <3> QED BY <1>1, <3>1 DEF DealOf
    <2> QED BY <1>0, <1>3, <1>4, <1>6, <2>1, OneDealStep
  <1>7. CASE ~ HasOrder(o) /\ HasOrder(o)'
    <2>1. Wins(r)
      BY <1>1, <1>2, <1>7 DEF HasOrder
    <2>2. ~ IsWon(stageOf[o])
      BY <1>0, <1>1, <1>7, <2>1, AllWonIs DEF WinInv, Untouched, Reads, Wins, EntersWon
    <2>3. IsWon(stageOf'[o])
      <3>1. stageOf'[o] = Written(stageOf[o], snap[r].stage, job[r].target)
        BY <1>0, <1>1 DEF TypeOK
      <3>2. stageOf[o] \in Triples /\ snap[r].stage \in Triples /\ job[r].target \in Triples
        BY <1>0 DEF TypeOK, Snapshots, Jobs
      <3>3. Pure(job[r].target)
        BY <1>0, <1>1 DEF Working
      <3> QED BY <2>1, <3>1, <3>2, <3>3, WrittenWon, AllWonIs DEF Wins
    <2>4. DealOf(o) = "open" /\ DealOf(o)' = "won"
      BY <1>1, <2>2, <2>3 DEF DealOf
    <2> QED BY <1>0, <1>3, <1>7, <2>4, OneDealStep
  <1> QED BY <1>5, <1>6, <1>7

LEMMA CommitDeleteBooks ==
  ASSUME PromiseInv, PromiseInv', Lasting, NEW r \in Requests, CommitDelete(r), ~ Rollback(r)
  PROVE  [Ledger!BookNext]_(Ledger!bookVars)
  <1>0. /\ TypeOK /\ NoDanglingLinks /\ NoDanglingLinks'
        /\ OneOrderPerOpportunity /\ OneOrderPerOpportunity'
    BY DEF PromiseInv, LinkInv, OrderInv
  <1> PICK o : o = job[r].opp
    OBVIOUS
  <1>1. /\ oppState' = [oppState EXCEPT ![o] = "deleted"]
        /\ stageOf' = [stageOf EXCEPT ![o] = NewLead]
    BY DEF CommitDelete
  <1>2. ASSUME NEW p \in Opps, p # o
        PROVE  DealOf(p)' = DealOf(p) /\ (HasOrder(p)' <=> HasOrder(p))
    <2>1. oppState'[p] = oppState[p] /\ stageOf'[p] = stageOf[p]
      BY <1>0, <1>1, <1>2 DEF TypeOK
    <2>2. HasOrder(p)' => HasOrder(p)
      BY <1>0, DeletedPages, ConstantsAssumption DEF HasOrder, ConstantsAssumption
    <2>3. HasOrder(p) => HasOrder(p)'
      BY <1>0, <2>1, OrdersNeedDeals DEF Lasting, LiveOpp
    <2> QED BY <2>1, <2>2, <2>3 DEF DealOf, LiveOpp
  <1>3. ASSUME o \in Opps
        PROVE  DealOf(o)' = "absent" /\ ~ HasOrder(o)'
    <2>1. ~ LiveOpp(o)'
      BY <1>0, <1>1, <1>3 DEF LiveOpp, TypeOK
    <2>2. ~ HasOrder(o)'
      BY <1>0, <1>3, <2>1, ConstantsAssumption DEF NoDanglingLinks, HasOrder, ConstantsAssumption
    <2> QED BY <2>1, <2>2 DEF DealOf
  <1>4. o \in Opps /\ HasOrder(o) => DealOf(o) # "absent"
    BY <1>0, OrdersNeedDeals DEF DealOf
  <1> QED BY <1>0, <1>2, <1>3, <1>4, OneDealStep

LEMMA CommitLinkBooks ==
  ASSUME PromiseInv, PromiseInv', "deleteOrder" \notin Kinds, [Next]_vars,
         NEW r \in Requests, CommitLink(r), ~ Rollback(r)
  PROVE  [Ledger!BookNext]_(Ledger!bookVars)
  <1>0. TypeOK /\ OneOrderPerOpportunity /\ OneOrderPerOpportunity'
    BY DEF PromiseInv, LinkInv, OrderInv
  <1>1. PICK o \in Opps :
          /\ orders' = orders /\ oppState' = [oppState EXCEPT ![o] = "live"]
          /\ oppState[o] \in {"unborn", "live"}
          /\ \A p \in Opps \ {o} : stageOf'[p] = stageOf[p]
    BY <1>0 DEF CommitLink, LiveOpp, TypeOK
  <1>2. \A p \in Opps \ {o} : DealOf(p)' = DealOf(p) /\ (HasOrder(p)' <=> HasOrder(p))
    BY <1>0, <1>1 DEF DealOf, LiveOpp, HasOrder, TypeOK
  <1>3. HasOrder(o)' <=> HasOrder(o)
    BY <1>1 DEF HasOrder
  <1>4. DealOf(o)' \in {"open", "won"} /\ DealOf(o) \in {"absent", "open", "won"}
    BY <1>0, <1>1 DEF DealOf, LiveOpp, TypeOK
  <1>5. DealOf(o) = "open" /\ DealOf(o)' = "won" => HasOrder(o)'
    <2>1. LiveOpp(o) /\ ~ IsWon(stageOf[o]) /\ IsWon(stageOf'[o]) => HasOrder(o)'
      BY NextWinsOrdered
    <2> QED BY <2>1 DEF DealOf
  <1> QED BY <1>0, <1>2, <1>3, <1>4, <1>5, OneDealStep

LEMMA ImmediateBooks ==
  ASSUME PromiseInv, PromiseInv', Lasting, Immediate
  PROVE  [Ledger!BookNext]_(Ledger!bookVars)
  <1>0. /\ TypeOK /\ NoDanglingLinks /\ NoDanglingLinks'
        /\ OneOrderPerOpportunity /\ OneOrderPerOpportunity'
    BY DEF PromiseInv, LinkInv, OrderInv
  <1>1. ASSUME NEW o \in Opps, NEW ask \in Asked, CreateOpportunity(o, ask)
        PROVE  [Ledger!BookNext]_(Ledger!bookVars)
    <2>1. \A p \in Opps \ {o} : DealOf(p)' = DealOf(p)
      BY <1>0, <1>1 DEF CreateOpportunity, DealOf, LiveOpp, TypeOK
    <2>2. \A p \in Opps : HasOrder(p)' <=> HasOrder(p)
      BY <1>1 DEF CreateOpportunity, HasOrder
    <2>3. DealOf(o) = "absent" /\ DealOf(o)' \in {"open", "won"}
      BY <1>0, <1>1 DEF CreateOpportunity, DealOf, LiveOpp, TypeOK
    <2> QED BY <1>0, <2>1, <2>2, <2>3, OneDealStep
  <1>2. CASE UNCHANGED <<oppState, stageOf>>
    <2>1. \A p \in Opps : DealOf(p)' = DealOf(p)
      BY <1>2 DEF DealOf, LiveOpp
    <2>2. ASSUME NEW p \in Opps
          PROVE  HasOrder(p)' <=> HasOrder(p)
      <3>1. HasOrder(p)' => HasOrder(p)
        BY <1>0, ImmediatePages, ConstantsAssumption DEF HasOrder, ConstantsAssumption
      <3>2. HasOrder(p) => HasOrder(p)'
        BY <1>0, <1>2, OrdersNeedDeals DEF Lasting, LiveOpp
      <3> QED BY <3>1, <3>2
    <2> QED BY <1>0, <2>1, <2>2, OneDealStep
  <1> QED BY <1>1, <1>2 DEF Immediate, CreateQuotation, DeleteQuotation, Renumber, DeleteOrder

LEMMA NextBooks ==
  ASSUME PromiseInv, "deleteOrder" \notin Kinds, [Next]_vars
  PROVE  [Ledger!BookNext]_(Ledger!bookVars)
  <1>0. PromiseInv' /\ Lasting
    BY NextPromise
  <1>1. /\ TypeOK /\ NoDanglingLinks /\ NoDanglingLinks'
        /\ OneOrderPerOpportunity /\ OneOrderPerOpportunity'
    BY <1>0 DEF PromiseInv, LinkInv, OrderInv
  <1>2. CASE UNCHANGED tables
    BY <1>2 DEF Ledger!bookVars, DealOf, LiveOpp, tables
  <1>3. ASSUME NEW r \in Requests, CommitOrder(r) \/ CommitBackfill(r)
        PROVE  [Ledger!BookNext]_(Ledger!bookVars)
    <2>1. UNCHANGED <<oppState, stageOf>> /\ orders' = orders \cup ins[r]
      BY <1>3 DEF CommitOrder, CommitBackfill
    <2>2. ASSUME NEW p \in Opps
          PROVE  /\ DealOf(p)' = DealOf(p)
                 /\ HasOrder(p) => HasOrder(p)'
                 /\ HasOrder(p)' => DealOf(p) # "absent"
      <3>1. HasOrder(p)' => LiveOpp(p)'
        BY <1>1, ConstantsAssumption DEF NoDanglingLinks, HasOrder, ConstantsAssumption
      <3> QED BY <2>1, <3>1 DEF DealOf, LiveOpp, HasOrder
    <2> QED BY <1>1, <2>2, BookingStep
  <1>4. ASSUME NEW r \in Requests, Start(r) \/ Step(r) \/ Fail(r) \/ DeadlockVictim(r)
        PROVE  UNCHANGED tables \/ CommitOrder(r) \/ CommitBackfill(r)
               \/ (~ Rollback(r) /\ (CommitUpdate(r) \/ CommitDelete(r) \/ CommitLink(r)))
    BY <1>4 DEF Start, LoadOpportunity, StartOrder, StartBackfill, StartDelete, LoadToDelete,
       StartLink, Fail, DeadlockVictim, Rollback, Step, FindOrder, FindQuoteOrder, ValidateLinks,
       LockOpportunity, Recheck, InsertOrder, BackfillVisit, MatchOpportunity, Goto
  <1> QED BY <1>0, <1>2, <1>3, <1>4, ImmediateBooks, CommitUpdateBooks, CommitDeleteBooks,
          CommitLinkBooks DEF Next, vars, tables

(* Behind its locks, flushes and stale readings the order workflow is the     *)
(* order book: every transaction that commits is one of the book's steps.     *)
THEOREM OrderBook ==
  ASSUME "deleteOrder" \notin Kinds
  PROVE  Spec => ImplementsDealBook
  <1>1. Init => PromiseInv
    BY InitPromise
  <1>2. Init => Ledger!BookInit
    <2> SUFFICES ASSUME Init PROVE Ledger!BookInit
      OBVIOUS
    <2>1. \A o \in Opps : DealOf(o) \in {"absent", "open", "won"}
      BY DEF DealOf
    <2>2. \A o \in Opps : {x \in orders : x.opp = o} = {}
      BY DEF Init
    <2> QED BY <2>1, <2>2, FS_EmptySet DEF Ledger!BookInit
  <1>3. PromiseInv /\ [Next]_vars => PromiseInv'
    BY NextPromise
  <1>4. PromiseInv /\ [Next]_vars => [Ledger!BookNext]_(Ledger!bookVars)
    BY NextBooks
  <1> QED BY <1>1, <1>2, <1>3, <1>4, PTL DEF Spec, ImplementsDealBook, Ledger!BookSpec
-----------------------------------------------------------------------------
(* One request at a time.  What overlapping requests break (StageDrift,       *)
(* LostTrail, LinkRegression) holds for as many requests as one likes when    *)
(* each ends before the next begins: then a request reads what it writes over.*)
OneAtATime == \A r, s \in Requests : r = s

Alone(r) ==
  /\ Coherent(job[r].target)
  /\ \A o \in Opps : Reads(r, o) =>
       /\ oppState[o] # "unborn" /\ snap[r].stage = stageOf[o]
       /\ job[r].kind = "link" => job[r].target = Advanced(stageOf[o])
  /\ pc[r] = "delete" => job[r].opp \in Opps /\ ~ HasOrder(job[r].opp)

AloneInv == (\A o \in Opps : Coherent(stageOf[o])) /\ \A r \in Requests : Alone(r)

LEMMA OfSalesCoherent == \A s \in SalesStages : Coherent(OfSales(s))
  BY DEF Coherent, OfSales

LEMMA AskedCoherent == ASSUME NEW ask \in Asked PROVE Coherent(Resolve(ask))
  BY ConstantsAssumption, ResolveCoherent, OfSalesCoherent DEF ConstantsAssumption

LEMMA NewLeadCoherent == Coherent(NewLead)
  BY OfSalesCoherent DEF NewLead, SalesStages

LEMMA AdvancedCoherent == ASSUME NEW t \in Triples, Coherent(t) PROVE Coherent(Advanced(t))
  BY OfSalesCoherent DEF Advanced, Quoted, SalesStages

(* Advancing never lowers the rank.                                           *)
LEMMA AdvancedRank ==
  ASSUME NEW t \in Triples
  PROVE  DealRank[Advanced(t).deal] >= DealRank[t.deal]
  BY DEF Advanced, Quoted, OfSales, SalesToDeal, DealRank, Triples, DealStages

LEMMA InitAlone == Init => AloneInv
  <1> SUFFICES ASSUME Init PROVE AloneInv
    OBVIOUS
  <1>1. \A o \in Opps : Coherent(stageOf[o])
    BY AskedCoherent, NewLeadCoherent DEF Init
  <1>2. \A r \in Requests : Alone(r)
    BY NewLeadCoherent DEF Init, Alone, Reads, NoJob
  <1> QED BY <1>1, <1>2 DEF AloneInv

LEMMA ReleaseAlone ==
  ASSUME TypeOK, NEW r \in Requests, Release(r)
  PROVE  Alone(r)'
  BY ReleasePlaced, NewLeadCoherent DEF Alone, Reads, NoJob

LEMMA StartAlone ==
  ASSUME TypeOK, AloneInv, NEW r \in Requests, Start(r)
  PROVE  Alone(r)' /\ UNCHANGED tables
  <1>1. ASSUME NEW o \in Opps, NEW ask \in Asked, LoadOpportunity(r, o, ask)
        PROVE  Alone(r)' /\ UNCHANGED tables
    <2>1. /\ job'[r].kind = "update" /\ job'[r].opp = o /\ job'[r].target = Resolve(ask)
          /\ snap'[r].stage = stageOf[o] /\ LiveOpp(o) /\ pc'[r] # "delete"
          /\ UNCHANGED tables
      BY <1>1 DEF LoadOpportunity, TypeOK, NoJob
    <2> QED BY <2>1, AskedCoherent DEF Alone, Reads, LiveOpp, tables
  <1>2. ASSUME NEW o \in Opps \cup {None}, NEW q \in Quotes \cup {None}, NEW n \in Numbers,
               StartOrder(r, o, q, n)
        PROVE  Alone(r)' /\ UNCHANGED tables
    <2>1. /\ job'[r].kind = "order" /\ job'[r].target = NewLead /\ pc'[r] # "delete"
          /\ UNCHANGED tables
      BY <1>2 DEF StartOrder, TypeOK, NoJob
    <2> QED BY <2>1, NewLeadCoherent DEF Alone, Reads
  <1>3. CASE StartBackfill(r)
    <2>1. /\ job'[r].kind = "backfill" /\ job'[r].target = NewLead /\ pc'[r] # "delete"
          /\ UNCHANGED tables
      BY <1>3 DEF StartBackfill, TypeOK, NoJob
    <2> QED BY <2>1, NewLeadCoherent DEF Alone, Reads
  <1>4. ASSUME NEW o \in Opps, StartDelete(r, o)
        PROVE  Alone(r)' /\ UNCHANGED tables
    <2>1. /\ job'[r].kind = "deleteOpportunity" /\ job'[r].target = NewLead /\ job'[r].opp = o
          /\ UNCHANGED tables
      BY <1>4 DEF StartDelete, LoadToDelete, TypeOK, NoJob
    <2>2. ~ HasOrder(o)
      BY <1>4 DEF StartDelete, OpportunityHasOrder, Visible, HasOrder
    <2> QED BY <2>1, <2>2, NewLeadCoherent DEF Alone, Reads, HasOrder, tables
  <1>5. ASSUME NEW q \in Quotes \cup {None}, StartLink(r, q)
        PROVE  Alone(r)' /\ UNCHANGED tables
    <2>1. /\ job'[r].target = NewLead /\ job'[r].opp = None /\ pc'[r] # "delete"
          /\ UNCHANGED tables
      BY <1>5 DEF StartLink, TypeOK, NoJob
    <2> QED BY <2>1, NewLeadCoherent, ConstantsAssumption DEF Alone, Reads, ConstantsAssumption
  <1> QED BY <1>1, <1>2, <1>3, <1>4, <1>5 DEF Start

LEMMA StepAlone ==
  ASSUME TypeOK, AllPlaced, AloneInv, NEW r \in Requests, Step(r)
  PROVE  Alone(r)' /\ \A o \in Opps : Coherent(stageOf'[o])
  <1>0. Placed(r) /\ Alone(r) /\ \A o \in Opps : Coherent(stageOf[o]) /\ stageOf[o] \in Triples
    BY DEF AllPlaced, AloneInv, TypeOK
  <1>1. CASE Release(r) /\ UNCHANGED stageOf
    BY <1>0, <1>1, ReleaseAlone
  <1>2. CASE Rollback(r)
    BY <1>1, <1>2 DEF Rollback, tables
  <1>3. ASSUME pc'[r] # "delete", UNCHANGED <<oppState, stageOf, snap>>, job'[r].kind = job[r].kind,
               job'[r].target = job[r].target,
               job[r].kind \in {"update", "link"} => job'[r].opp = job[r].opp
        PROVE  Alone(r)' /\ \A o \in Opps : Coherent(stageOf'[o])
    BY <1>0, <1>3 DEF Alone, Reads
  <1>4. ASSUME NEW point, Goto(r, point), point # "delete"
        PROVE  Alone(r)' /\ \A o \in Opps : Coherent(stageOf'[o])
    BY <1>3, <1>4 DEF Goto, TypeOK, tables
  <1>5. CASE FindOrder(r)
    <2>1. ASSUME NEW q, ChooseQuotation(r, job[r].opp, q), UNCHANGED <<tables, snap>>
          PROVE  Alone(r)' /\ \A o \in Opps : Coherent(stageOf'[o])
      <3>1. pc'[r] = "findQuoteOrder"
        BY <2>1 DEF ChooseQuotation, TypeOK
      <3> QED BY <1>3, <2>1, <3>1, ChosenJob DEF tables
    <2> QED BY <1>2, <1>4, <1>5, <2>1 DEF FindOrder
  <1>6. CASE FindQuoteOrder(r) \/ ValidateLinks(r) \/ Recheck(r)
    BY <1>2, <1>4, <1>6 DEF FindQuoteOrder, ValidateLinks, Recheck, AfterOrder
  <1>7. CASE LockOpportunity(r) \/ InsertOrder(r)
    <2>1. CASE ~ Rollback(r)
      <3>1. pc'[r] # "delete" /\ UNCHANGED <<oppState, stageOf, snap, job>>
        BY <1>7, <2>1 DEF LockOpportunity, InsertOrder, AfterOrder, TypeOK, tables
      <3> QED BY <1>3, <3>1
    <2> QED BY <1>2, <2>1
  <1>8. CASE \E o \in Opps : BackfillVisit(r, o)
    <2>1. job[r].kind = "backfill" /\ UNCHANGED <<oppState, stageOf, snap>>
      BY <1>0, <1>8 DEF BackfillVisit, Placed, tables
    <2>2. pc'[r] # "delete"
      BY <1>8 DEF BackfillVisit, ChooseQuotation, TypeOK
    <2>3. job'[r].kind = job[r].kind /\ job'[r].target = job[r].target
      BY <1>8, ChosenJob DEF BackfillVisit
    <2> QED BY <1>3, <2>1, <2>2, <2>3
  <1>9. CASE CommitOrder(r) \/ CommitBackfill(r)
    BY <1>1, <1>9 DEF CommitOrder, CommitBackfill
  (* What r writes over the row it read is its target.                        *)
  <1>10. ASSUME NEW o \in Opps, Reads(r, o)
         PROVE  Coherent(Written(stageOf[o], snap[r].stage, job[r].target))
    <2>1. snap[r].stage = stageOf[o] /\ job[r].target \in Triples /\ Coherent(job[r].target)
      BY <1>0, <1>10 DEF Alone, TypeOK, Jobs
    <2> QED BY <1>0, <2>1, WrittenFresh
  <1>11. CASE CommitUpdate(r) /\ ~ Rollback(r)
    <2>1. /\ Release(r) /\ job[r].kind = "update"
          /\ stageOf' = [stageOf EXCEPT ![job[r].opp] =
                            Written(@, snap[r].stage, job[r].target)]
      BY <1>11 DEF CommitUpdate
    <2> QED BY <1>0, <1>10, <2>1, ReleaseAlone DEF Reads, TypeOK
  <1>12. CASE CommitDelete(r) /\ ~ Rollback(r)
    <2>1. Release(r) /\ stageOf' = [stageOf EXCEPT ![job[r].opp] = NewLead]
      BY <1>12 DEF CommitDelete
    <2> QED BY <1>0, <2>1, ReleaseAlone, NewLeadCoherent DEF TypeOK
  <1>13. CASE MatchOpportunity(r)
    <2>1. pc'[r] = "link" /\ job[r].kind = "link" /\ UNCHANGED <<oppState, stageOf>>
      BY <1>0, <1>13 DEF MatchOpportunity, TypeOK, tables, Placed
    <2>2. CASE UNCHANGED <<job, snap>>
      BY <1>3, <2>1, <2>2
    <2>3. ASSUME NEW o \in Opps, LiveOpp(o),
                 job' = [job EXCEPT ![r] = [@ EXCEPT !.opp = o, !.target = Advanced(stageOf[o])]],
                 snap' = [snap EXCEPT ![r] = [NoSnap EXCEPT !.stage = stageOf[o]]]
          PROVE  Alone(r)'
      <3>1. /\ job'[r].opp = o /\ job'[r].target = Advanced(stageOf[o])
            /\ snap'[r].stage = stageOf[o]
        BY <2>3 DEF TypeOK, Jobs, NoSnap
      <3> QED BY <1>0, <2>1, <2>3, <3>1, AdvancedCoherent DEF Alone, Reads, LiveOpp
    <2> QED BY <1>0, <1>13, <2>1, <2>2, <2>3 DEF MatchOpportunity
  <1>14. CASE CommitLink(r) /\ ~ Rollback(r)
    <2>1. PICK o \in Opps :
            /\ Release(r)
            /\ job[r].opp # None => o = job[r].opp
            /\ stageOf' = [stageOf EXCEPT ![o] =
                              IF job[r].opp = None THEN OfSales("QuotationSent")
                              ELSE Written(@, snap[r].stage, job[r].target)]
            /\ pc[r] = "link"
      BY <1>14 DEF CommitLink
    <2>2. Coherent(OfSales("QuotationSent"))
      BY OfSalesCoherent DEF SalesStages
    <2>3. job[r].opp # None => Reads(r, o)
      BY <1>0, <2>1 DEF Reads, Placed
    <2> QED BY <1>0, <1>10, <2>1, <2>2, <2>3, ReleaseAlone DEF TypeOK
  <1> QED BY <1>2, <1>5, <1>6, <1>7, <1>8, <1>9, <1>11, <1>12, <1>13, <1>14 DEF Step

LEMMA ImmediateAlone ==
  ASSUME TypeOK, AloneInv, Immediate
  PROVE  AloneInv'
  <1>1. UNCHANGED sessions
    BY ImmediateStay
  <1>2. \A o \in Opps : Coherent(stageOf'[o])
    BY AskedCoherent DEF Immediate, CreateOpportunity, CreateQuotation, DeleteQuotation,
       Renumber, DeleteOrder, AloneInv, TypeOK
  <1>3. \A o \in Opps : oppState[o] # "unborn" => oppState'[o] # "unborn" /\ stageOf'[o] = stageOf[o]
    BY DEF Immediate, CreateOpportunity, CreateQuotation, DeleteQuotation, Renumber, DeleteOrder, TypeOK
  <1>4. \A o \in Opps : HasOrder(o)' => HasOrder(o)
    BY ImmediatePages, ConstantsAssumption DEF HasOrder, ConstantsAssumption
  <1>5. ASSUME NEW r \in Requests
        PROVE  Alone(r)'
    <2>1. Alone(r) /\ job'[r] = job[r] /\ snap'[r] = snap[r] /\ pc'[r] = pc[r]
      BY <1>1 DEF AloneInv, sessions
    <2> QED BY <1>3, <1>4, <2>1 DEF Alone, Reads
  <1> QED BY <1>2, <1>5 DEF AloneInv

LEMMA NextAlone ==
  ASSUME OneAtATime, TypeOK, AllPlaced, AloneInv, [Next]_vars
  PROVE  AloneInv'
  <1>1. CASE UNCHANGED vars
    BY <1>1 DEF vars, AloneInv, Alone, Reads, HasOrder
  <1>2. ASSUME NEW r \in Requests, Start(r) \/ Step(r) \/ Fail(r) \/ DeadlockVictim(r)
        PROVE  AloneInv'
    <2>1. Alone(r)' /\ \A o \in Opps : Coherent(stageOf'[o])
      BY <1>2, StartAlone, StepAlone, ReleaseAlone DEF AloneInv, Fail, DeadlockVictim, Rollback, tables
    <2> QED BY <2>1 DEF AloneInv, OneAtATime
  <1> QED BY <1>1, <1>2, ImmediateAlone DEF Next

(* The inductive invariant of a server that takes one request at a time.      *)
SoleInv == TypeOK /\ NumberChosen /\ AllPlaced /\ AloneInv

LEMMA InitSole == Init => SoleInv
  BY ConstantsAssumption, InitTyped, InitPromise, InitAlone
     DEF SoleInv, Init, NumberChosen, PromiseInv

LEMMA NextSole == ASSUME OneAtATime, SoleInv, [Next]_vars PROVE SoleInv'
  BY ConstantsAssumption, NextTyped, NextNumberChosen, NextPlaced, NextAlone DEF SoleInv

(* The three stage columns stay in step.                                      *)
THEOREM AloneStagesAgree ==
  ASSUME OneAtATime
  PROVE  Spec => []StagesAgree
  <1>1. Init => SoleInv
    BY InitSole
  <1>2. SoleInv /\ [Next]_vars => SoleInv'
    BY NextSole
  <1>3. SoleInv => StagesAgree
    BY DEF SoleInv, AloneInv, StagesAgree
  <1> QED BY <1>1, <1>2, <1>3, PTL DEF Spec

(* A deletion finds no order: the check that lets it go is still true when    *)
(* the row goes.                                                              *)
LEMMA NextKeepsTrail ==
  ASSUME SoleInv, [Next]_vars, NEW o \in Opps, LiveOpp(o), oppState'[o] = "deleted"
  PROVE  \A x \in orders : x.opp # o
  <1>1. ~ Immediate /\ oppState'[o] # oppState[o]
    BY DEF Immediate, CreateOpportunity, CreateQuotation, DeleteQuotation, Renumber, DeleteOrder,
       SoleInv, TypeOK, LiveOpp
  <1>2. PICK r \in Requests : CommitDelete(r) \/ CommitLink(r)
    BY <1>1 DEF Next, vars, tables, Start, LoadOpportunity, StartOrder, StartBackfill,
       StartDelete, LoadToDelete, StartLink, Fail, DeadlockVictim, Rollback, Step, FindOrder,
       FindQuoteOrder, ValidateLinks, LockOpportunity, Recheck, InsertOrder, CommitOrder,
       CommitUpdate, BackfillVisit, CommitBackfill, MatchOpportunity, Goto
  <1>3. CommitDelete(r) /\ o = job[r].opp
    BY <1>1, <1>2 DEF CommitDelete, CommitLink, Rollback, tables, SoleInv, TypeOK, LiveOpp
  <1> QED BY <1>3 DEF SoleInv, AloneInv, Alone, CommitDelete, HasOrder

(* One request after another, no opportunity that has an order is deleted.    *)
THEOREM AloneKeepsTrail ==
  ASSUME OneAtATime
  PROVE  Spec => DeletionKeepsTheTrail
  <1>1. Init => SoleInv
    BY InitSole
  <1>2. SoleInv /\ [Next]_vars => SoleInv'
    BY NextSole
  <1>3. SoleInv /\ [Next]_vars =>
          [\A o \in Opps : LiveOpp(o) /\ oppState'[o] = "deleted"
             => \A x \in orders : x.opp # o]_vars
    BY NextKeepsTrail
  <1> QED BY <1>1, <1>2, <1>3, PTL DEF Spec, DeletionKeepsTheTrail

(* Saving a quotation writes what advancing the stage it read gives, and that *)
(* stage is the row's.                                                        *)
LEMMA NextNeverBack ==
  ASSUME OneAtATime, SoleInv, [Next]_vars, NEW r \in Requests, NEW o \in Opps,
         pc[r] = "link", pc'[r] = "idle", job[r].opp = o
  PROVE  DealRank[stageOf'[o].deal] >= DealRank[stageOf[o].deal]
  <1>0. /\ stageOf \in [Opps -> Triples] /\ job[r].target \in Triples /\ snap[r].stage \in Triples
        /\ Placed(r) /\ Alone(r)
    BY DEF SoleInv, TypeOK, Jobs, Snapshots, AllPlaced, AloneInv
  <1>1. job[r].kind = "link" /\ Reads(r, o)
    BY <1>0 DEF Placed, Reads
  <1>2. ASSUME UNCHANGED stageOf
        PROVE  DealRank[stageOf'[o].deal] >= DealRank[stageOf[o].deal]
    BY <1>0, <1>2 DEF DealRank, Triples, DealStages
  <1>3. ~ Immediate /\ ~ UNCHANGED vars
    BY ImmediateStay DEF sessions, vars
  <1>4. Start(r) \/ Step(r) \/ Fail(r) \/ DeadlockVictim(r)
    BY <1>3 DEF Next, OneAtATime
  <1>5. UNCHANGED stageOf \/ CommitLink(r)
    BY <1>4 DEF Start, LoadOpportunity, StartOrder, StartBackfill, StartDelete, LoadToDelete,
       StartLink, Step, FindOrder, FindQuoteOrder, ValidateLinks, LockOpportunity, Recheck,
       InsertOrder, CommitOrder, CommitUpdate, BackfillVisit, CommitBackfill, CommitDelete,
       MatchOpportunity, Fail, DeadlockVictim, Rollback, tables
  <1>6. CASE CommitLink(r) /\ ~ UNCHANGED stageOf
    <2>1. stageOf'[o] = Written(stageOf[o], snap[r].stage, job[r].target)
      BY <1>0, <1>6, ConstantsAssumption DEF CommitLink, Rollback, tables, ConstantsAssumption
    <2>2. snap[r].stage = stageOf[o] /\ job[r].target = Advanced(stageOf[o])
      BY <1>0, <1>1 DEF Alone
    <2>3. stageOf'[o] = Advanced(stageOf[o])
      BY <1>0, <2>1, <2>2, WrittenFresh
    <2> QED BY <1>0, <2>3, AdvancedRank
  <1> QED BY <1>2, <1>5, <1>6

(* One request after another, saving a quotation never moves its opportunity  *)
(* to an earlier stage.                                                       *)
THEOREM AloneNeverBack ==
  ASSUME OneAtATime
  PROVE  Spec => LinkingNeverMovesBack
  <1>1. Init => SoleInv
    BY InitSole
  <1>2. SoleInv /\ [Next]_vars => SoleInv'
    BY NextSole
  <1>3. SoleInv /\ [Next]_vars =>
          [\A r \in Requests, o \in Opps :
             pc[r] = "link" /\ pc'[r] = "idle" /\ job[r].opp = o
               => DealRank[stageOf'[o].deal] >= DealRank[stageOf[o].deal]]_vars
    BY NextNeverBack
  <1> QED BY <1>1, <1>2, <1>3, PTL DEF Spec, LinkingNeverMovesBack
=============================================================================
