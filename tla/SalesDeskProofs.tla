-------------------------- MODULE SalesDeskProofs ---------------------------
(* Proofs about quotations (no number is given twice and no version is        *)
(* skipped) and the other parts of the sales desk, for any sets of            *)
(* quotations, customers, tags, records, texts and requests.  Each part has   *)
(* an invariant of its own for requests that overlap and a stronger one for   *)
(* requests one after another; a step of the desk is a step of one part in    *)
(* one setting, and leaves the other parts alone.                             *)
EXTENDS SalesDesk, FiniteSetTheorems, WellFoundedInduction, TLAPS, Sequences

LEMMA HasLeast ==
  ASSUME NEW S \in SUBSET Nat, S # {}
  PROVE  \E u \in S : \A v \in S : u <= v
  <1>1. PICK u \in S : \A v \in S : ~ (<<v, u>> \in OpToRel(<, Nat))
    BY NatLessThanWellFounded, WFMin
  <1>2. \A v \in S : ~ (v < u)
    BY <1>1 DEF OpToRel
  <1> QED BY <1>2

(* A finite set of numbers has a greatest one: a smallest set without would   *)
(* have one as soon as one of its elements is taken out.                      *)
LEMMA HasGreatest ==
  ASSUME NEW S \in SUBSET Nat, S # {}, IsFiniteSet(S)
  PROVE  \E n \in S : \A m \in S : m <= n
  <1> DEFINE Bad(T) == T # {} /\ \A n \in T : \E m \in T : ~ (m <= n)
             Sizes == {k \in Nat : \E T \in SUBSET S : Bad(T) /\ Cardinality(T) = k}
  <1>1. ASSUME Bad(S) PROVE FALSE
    <2>1. Sizes \in SUBSET Nat /\ Sizes # {}
      BY <1>1, FS_CardinalityType
    <2>2. PICK k \in Sizes : \A j \in Sizes : k <= j
      <3> HIDE DEF Sizes
      <3> QED BY <2>1, HasLeast
    <2>3. PICK T \in SUBSET S : Bad(T) /\ Cardinality(T) = k
      BY <2>2
    <2>4. PICK x \in T : TRUE
      BY <2>3
    <2>5. IsFiniteSet(T) /\ k \in Nat
      BY <2>2, FS_Subset
    <2>6. IsFiniteSet(T \ {x}) /\ Cardinality(T \ {x}) = k - 1 /\ Cardinality(T \ {x}) \in Nat
      BY <2>3, <2>4, <2>5, FS_RemoveElement, FS_CardinalityType
    <2>7. ~ Bad(T \ {x})
      <3>1. k - 1 \notin Sizes
        <4> HIDE DEF Sizes
        <4> QED BY <2>2, <2>5
      <3> QED BY <2>6, <3>1
    <2>8. x \in Nat /\ T \in SUBSET Nat
      BY <2>4
    <2>9. CASE T \ {x} = {}
      BY <2>3, <2>4, <2>8, <2>9
    <2>10. CASE T \ {x} # {}
      <3>1. PICK n \in T \ {x} : \A m \in T \ {x} : m <= n
        BY <2>7, <2>10
      <3>2. \A m \in T : m <= n \/ m <= x
        BY <3>1, <2>8
      <3>3. n <= x \/ x <= n
        BY <3>1, <2>8
      <3> QED BY <2>3, <2>4, <2>8, <3>1, <3>2, <3>3
    <2> QED BY <2>9, <2>10
  <1> QED BY <1>1
-----------------------------------------------------------------------------
(* What a session at work knows: which quotation it is about, and that the    *)
(* one it makes is not there yet, or the one it loaded was.                   *)
Loading == {"update", "createVersion", "markSent"}

Working(s) ==
  /\ pc[s] = "idle" => job[s].kind = "none"
  /\ pc[s] = "link" => job[s].kind \in {"create", "update"}
  /\ pc[s] \in {"number", "insert"} => job[s].kind = "create"
  /\ pc[s] = "commit" => job[s].kind \in Loading
  /\ job[s].kind = "create" => job[s].quote \in Quotes /\ rowState[job[s].quote] = "unborn"
  /\ job[s].kind \in Loading => /\ job[s].quote \in Quotes /\ rowState[job[s].quote] # "unborn"
                                /\ Live(job[s].quote) => snap[s].current <= current[job[s].quote]
  /\ job[s].kind = "createVersion" => snap[s].current < MaxVersion
  /\ job[s].opp \in opps \cup {None} \/ (linkLock = s /\ job[s].serial # 0)
  /\ snap[s].link \in opps \cup {None}

OneCreator ==
  \A s, r \in Sessions : s # r /\ job[s].kind = "create" => job[r].quote # job[s].quote

(* What the tables hold: versions only of live quotations, links only to      *)
(* opportunities there are.                                                   *)
NoStrays ==
  /\ \A q \in Quotes : ~ Live(q) => \A n \in 1..MaxVersion : versions[q][n] = None
  /\ 0 \in opps /\ \A q \in Quotes : link[q] \in opps \cup {None}

QuoteInv ==
  TypeOK /\ VersionsContiguous /\ NoStrays /\ OneCreator /\ \A s \in Sessions : Working(s)

RowsTyped ==
  /\ rowState \in [Quotes -> {"unborn", "live", "deleted"}]
  /\ number \in [Quotes -> Nat]
  /\ status \in [Quotes -> {"Draft", "Sent"}]
  /\ current \in [Quotes -> 1..MaxVersion]
  /\ link \in [Quotes -> 0..MaxSave \cup {None}]
  /\ versions \in [Quotes -> [1..MaxVersion -> VersionRows \cup {None}]]
  /\ opps \subseteq 0..MaxSave /\ due \subseteq opps
  /\ oppLines \in [0..MaxSave -> Lines]

SessionsTyped ==
  /\ saves \in 0..MaxSave
  /\ dayLock \in Sessions \cup {None} /\ linkLock \in Sessions \cup {None}
  /\ pc \in [Sessions -> {"idle", "link", "number", "insert", "commit"}]
  /\ job \in [Sessions -> Jobs]
  /\ snap \in [Sessions -> Snapshots]

LEMMA TypeOKSplit == TypeOK <=> RowsTyped /\ SessionsTyped
  BY DEF TypeOK, RowsTyped, SessionsTyped

LEMMA RecordsTyped ==
  /\ NoVersion \in VersionRows /\ NoJob \in Jobs /\ NoSnap \in Snapshots
  /\ NoSnap.link = None /\ NoJob.kind = "none" /\ NoJob.opp = None /\ NoJob.quote = None
  <1>1. NoVersion \in VersionRows
    BY BoundsAssumption DEF NoVersion, VersionRows, Lines
  <1>2. NoJob \in Jobs
    BY BoundsAssumption DEF NoJob, Jobs, AllKinds
  <1>3. NoSnap \in Snapshots
    BY <1>1, BoundsAssumption DEF NoSnap, Snapshots, Lines
  <1> QED BY <1>1, <1>2, <1>3 DEF NoSnap, NoJob

LEMMA InitQuoteInv == Init => QuoteInv
  <1> SUFFICES ASSUME Init PROVE QuoteInv
    OBVIOUS
  <1>1. TypeOK
    BY RecordsTyped, BoundsAssumption DEF Init, TypeOK, Lines
  <1>2. VersionsContiguous /\ NoStrays
    BY DEF Init, VersionsContiguous, NoStrays, Committed, Live
  <1>3. OneCreator /\ \A s \in Sessions : Working(s)
    BY RecordsTyped DEF Init, OneCreator, Working, Loading
  <1> QED BY <1>1, <1>2, <1>3 DEF QuoteInv

(* A session that does not move keeps what it knows as long as nobody makes   *)
(* its quotation, brings it back or takes its versions away.                  *)
LEMMA StillWorking ==
  ASSUME QuoteInv, NEW t \in Sessions,
         pc'[t] = pc[t], job'[t] = job[t], snap'[t] = snap[t],
         RowsTyped', linkLock = t => linkLock' = t, opps \subseteq opps',
         \A q \in Quotes : rowState[q] = "unborn" /\ rowState'[q] # "unborn" => job[t].quote # q,
         \A q \in Quotes : rowState[q] # "unborn" =>
            /\ rowState'[q] # "unborn"
            /\ rowState'[q] = "live" => rowState[q] = "live" /\ current[q] <= current'[q]
  PROVE  Working(t)'
  <1>1. Working(t)
    BY DEF QuoteInv
  <1>2. snap[t].current \in Nat
    BY BoundsAssumption DEF QuoteInv, TypeOK, Snapshots
  <1>3. job[t].kind = "create" => job[t].quote \in Quotes /\ rowState'[job[t].quote] = "unborn"
    BY <1>1 DEF Working
  <1>4. ASSUME job[t].kind \in Loading
        PROVE  /\ job[t].quote \in Quotes /\ rowState'[job[t].quote] # "unborn"
               /\ rowState'[job[t].quote] = "live" => snap[t].current <= current'[job[t].quote]
    <2> DEFINE q == job[t].quote
    <2>1. q \in Quotes /\ rowState[q] # "unborn" /\ (rowState[q] = "live" => snap[t].current <= current[q])
      BY <1>1, <1>4 DEF Working, Live
    <2>2. /\ rowState'[q] # "unborn"
          /\ rowState'[q] = "live" => rowState[q] = "live" /\ current[q] <= current'[q]
      BY <2>1
    <2>3. current[q] \in Nat /\ current'[q] \in Nat
      BY <2>1, BoundsAssumption DEF QuoteInv, TypeOK, RowsTyped
    <2> HIDE DEF q
    <2> QED BY <1>2, <2>1, <2>2, <2>3 DEF q
  <1>5. /\ job[t].opp \in opps' \cup {None} \/ (linkLock' = t /\ job[t].serial # 0)
        /\ snap[t].link \in opps' \cup {None}
    BY <1>1 DEF Working
  <1> QED BY <1>1, <1>3, <1>4, <1>5 DEF Working, Live

-----------------------------------------------------------------------------
(* The steps of a session that write nothing.                                 *)
LEMMA OnlySession ==
  ASSUME QuoteInv, NEW s \in Sessions, UNCHANGED <<rows, deals>>, SessionsTyped', Working(s)',
         \A t \in Sessions \ {s} : /\ pc'[t] = pc[t] /\ job'[t] = job[t] /\ snap'[t] = snap[t]
                                   /\ linkLock = t => linkLock' = t,
         OneCreator'
  PROVE  QuoteInv'
  <1>1. RowsTyped /\ RowsTyped'
    BY DEF QuoteInv, TypeOK, RowsTyped, rows, deals
  <1>2. \A t \in Sessions \ {s} : Working(t)'
    <2>1. \A q \in Quotes : current'[q] = current[q] /\ current[q] \in Nat
      BY <1>1, BoundsAssumption DEF RowsTyped, rows
    <2> QED BY <1>1, <2>1, StillWorking DEF rows, deals
  <1>3. VersionsContiguous' /\ NoStrays'
    BY DEF QuoteInv, VersionsContiguous, NoStrays, Committed, Live, rows, deals
  <1>4. TypeOK'
    BY <1>1 DEF TypeOK, RowsTyped, SessionsTyped
  <1> QED BY <1>2, <1>3, <1>4 DEF QuoteInv

(* The end of a transaction, whatever it has written.                         *)
LEMMA ReleaseTyped ==
  ASSUME QuoteInv, NEW s \in Sessions, Release(s), opps \subseteq opps', saves' = saves
  PROVE  /\ SessionsTyped' /\ Working(s)' /\ OneCreator'
         /\ \A t \in Sessions \ {s} : /\ pc'[t] = pc[t] /\ job'[t] = job[t] /\ snap'[t] = snap[t]
                                      /\ linkLock = t => linkLock' = t
  <1>1. /\ pc' = [pc EXCEPT ![s] = "idle"] /\ job' = [job EXCEPT ![s] = NoJob]
        /\ snap' = [snap EXCEPT ![s] = NoSnap]
    BY DEF Release
  <1>2. SessionsTyped'
    BY <1>1, RecordsTyped DEF QuoteInv, TypeOK, SessionsTyped, Release
  <1>3. Working(s)'
    BY <1>1, RecordsTyped DEF QuoteInv, TypeOK, Working, Loading
  <1>4. OneCreator'
    <2>1. \A t \in Sessions : job[t].kind = "create" => job[t].quote \in Quotes
      BY DEF QuoteInv, Working
    <2> QED BY <1>1, <2>1, RecordsTyped, BoundsAssumption DEF QuoteInv, TypeOK, OneCreator
  <1>5. \A t \in Sessions \ {s} : /\ pc'[t] = pc[t] /\ job'[t] = job[t] /\ snap'[t] = snap[t]
                                  /\ linkLock = t => linkLock' = t
    BY <1>1 DEF QuoteInv, TypeOK, Release
  <1> QED BY <1>2, <1>3, <1>4, <1>5

LEMMA RollbackHolds ==
  ASSUME QuoteInv, NEW s \in Sessions, Rollback(s)
  PROVE  QuoteInv'
  <1>1. Release(s) /\ UNCHANGED <<rows, deals, saves>>
    BY DEF Rollback
  <1>2. opps' = opps
    BY <1>1 DEF deals
  <1> QED BY <1>1, <1>2, ReleaseTyped, OnlySession

(* A commit that deletes nothing, and makes nobody else's quotation.          *)
LEMMA CommitHolds ==
  ASSUME QuoteInv, NEW s \in Sessions, Release(s), saves' = saves, opps \subseteq opps',
         RowsTyped', VersionsContiguous', NoStrays',
         \A q \in Quotes : rowState[q] = "unborn" /\ rowState'[q] # "unborn" =>
            job[s].kind = "create" /\ job[s].quote = q,
         \A q \in Quotes : rowState[q] # "unborn" =>
            /\ rowState'[q] # "unborn"
            /\ rowState'[q] = "live" => rowState[q] = "live" /\ current[q] <= current'[q]
  PROVE  QuoteInv'
  <1>1. /\ SessionsTyped' /\ Working(s)' /\ OneCreator'
        /\ \A t \in Sessions \ {s} : /\ pc'[t] = pc[t] /\ job'[t] = job[t] /\ snap'[t] = snap[t]
                                     /\ linkLock = t => linkLock' = t
    BY ReleaseTyped
  <1>2. ASSUME NEW t \in Sessions \ {s} PROVE Working(t)'
    <2>1. \A q \in Quotes : rowState[q] = "unborn" /\ rowState'[q] # "unborn" => job[t].quote # q
      BY DEF QuoteInv, OneCreator
    <2> QED BY <1>1, <2>1, StillWorking
  <1>3. TypeOK'
    BY <1>1 DEF TypeOK, RowsTyped, SessionsTyped
  <1> QED BY <1>1, <1>2, <1>3 DEF QuoteInv
-----------------------------------------------------------------------------
LEMMA LoadedTyped ==
  ASSUME QuoteInv, NEW q \in Quotes, Live(q)
  PROVE  Loaded(q) \in Snapshots /\ Loaded(q).current = current[q] /\ Loaded(q).link \in opps \cup {None}
  <1> DEFINE n == current[q]
  <1>0. n \in 1..MaxVersion /\ n \in Nat /\ versions[q][n] \in VersionRows \cup {None}
    BY BoundsAssumption DEF QuoteInv, TypeOK
  <1>1. versions[q][n] \in VersionRows
    BY <1>0 DEF QuoteInv, VersionsContiguous, Committed
  <1>2. oppLines[link[q]] \in Lines \/ link[q] = None
    BY DEF QuoteInv, TypeOK
  <1>3. Loaded(q) \in Snapshots
    BY <1>1, <1>2 DEF QuoteInv, TypeOK, Loaded, Snapshots, Lines
  <1> QED BY <1>3 DEF Loaded, QuoteInv, NoStrays

LEMMA StartCreateHolds ==
  ASSUME QuoteInv, NEW s \in Sessions, NEW q \in Quotes, NEW o \in opps \cup {None},
         NEW withItems \in BOOLEAN, StartCreate(s, q, o, withItems)
  PROVE  QuoteInv'
  <1> DEFINE j == [kind |-> "create", quote |-> q, opp |-> o, no |-> 0, serial |-> NextSerial(withItems)]
  <1>1. saves' \in 0..MaxSave /\ NextSerial(withItems) \in 0..MaxSave
    BY BoundsAssumption DEF QuoteInv, TypeOK, StartCreate, NextSerial
  <1>2. j \in Jobs /\ j.kind = "create" /\ j.quote = q /\ j.opp = o
    BY <1>1, BoundsAssumption DEF QuoteInv, TypeOK, Jobs, AllKinds
  <1>3. /\ job' = [job EXCEPT ![s] = j] /\ pc'[s] \in {"link", "number"}
        /\ pc' \in [Sessions -> {"idle", "link", "number", "insert", "commit"}]
        /\ \A t \in Sessions \ {s} : pc'[t] = pc[t]
        /\ UNCHANGED <<rows, deals, locks, snap>>
        /\ rowState[q] = "unborn" /\ \A r \in Sessions : job[r].quote # q
    BY DEF QuoteInv, TypeOK, StartCreate
  <1> HIDE DEF j
  <1>4. SessionsTyped'
    BY <1>1, <1>2, <1>3 DEF QuoteInv, TypeOK, SessionsTyped, locks
  <1>5. Working(s)'
    BY <1>2, <1>3 DEF QuoteInv, TypeOK, Working, Loading, rows, deals
  <1>6. OneCreator'
    BY <1>2, <1>3 DEF QuoteInv, TypeOK, OneCreator
  <1> QED BY <1>3, <1>4, <1>5, <1>6, OnlySession DEF QuoteInv, TypeOK, locks

(* Loading a live quotation for a job of another kind.                        *)
LEMMA LoadHolds ==
  ASSUME QuoteInv, NEW s \in Sessions, NEW q \in Quotes, Live(q), NEW j \in Jobs,
         j.kind \in Loading, j.quote = q, j.opp \in opps \cup {None},
         j.kind = "createVersion" => current[q] < MaxVersion,
         job' = [job EXCEPT ![s] = j], snap' = [snap EXCEPT ![s] = Loaded(q)],
         NEW p \in {"link", "commit"}, pc' = [pc EXCEPT ![s] = p], p = "link" => j.kind = "update",
         saves' \in 0..MaxSave, UNCHANGED <<rows, deals, locks>>
  PROVE  QuoteInv'
  <1>1. Loaded(q) \in Snapshots /\ Loaded(q).current = current[q] /\ Loaded(q).link \in opps \cup {None}
    BY LoadedTyped
  <1>2. SessionsTyped'
    BY <1>1 DEF QuoteInv, TypeOK, SessionsTyped, locks
  <1>3. current[q] \in Nat
    BY BoundsAssumption DEF QuoteInv, TypeOK
  <1>4. Working(s)'
    BY <1>1, <1>3 DEF QuoteInv, TypeOK, Working, Loading, Live, rows, deals
  <1>5. OneCreator'
    <2>1. \A t \in Sessions : job[t].kind = "create" => job[t].quote # q
      BY DEF QuoteInv, Working, Live
    <2> QED BY <2>1 DEF QuoteInv, TypeOK, OneCreator, Loading
  <1> QED BY <1>2, <1>4, <1>5, OnlySession DEF QuoteInv, TypeOK, locks

LEMMA StartHolds ==
  ASSUME QuoteInv, NEW s \in Sessions, Start(s)
  PROVE  QuoteInv'
  <1>1. ASSUME NEW q \in Quotes, NEW withItems \in BOOLEAN, StartUpdate(s, q, withItems)
        PROVE  QuoteInv'
    <2> DEFINE j == [kind |-> "update", quote |-> q, opp |-> link[q], no |-> 0,
                     serial |-> NextSerial(withItems)]
    <2>1. saves' \in 0..MaxSave /\ NextSerial(withItems) \in 0..MaxSave
      BY <1>1, BoundsAssumption DEF QuoteInv, TypeOK, StartUpdate, EditAnything, NextSerial
    <2>2. j \in Jobs /\ j.kind = "update" /\ j.quote = q /\ j.opp \in opps \cup {None}
      BY <2>1 DEF QuoteInv, TypeOK, NoStrays, Jobs, AllKinds
    <2>3. /\ Live(q) /\ job' = [job EXCEPT ![s] = j] /\ snap' = [snap EXCEPT ![s] = Loaded(q)]
          /\ \E p \in {"link", "commit"} : pc' = [pc EXCEPT ![s] = p]
          /\ UNCHANGED <<rows, deals, locks>>
      BY <1>1 DEF StartUpdate, EditAnything
    <2> HIDE DEF j
    <2> QED BY <2>1, <2>2, <2>3, LoadHolds DEF Loading
  <1>2. ASSUME NEW q \in Quotes, NEW kind \in {"createVersion", "markSent"}, LoadFor(kind, s, q),
               kind = "createVersion" => current[q] < MaxVersion
        PROVE  QuoteInv'
    <2> DEFINE j == [NoJob EXCEPT !.kind = kind, !.quote = q]
    <2>1. j \in Jobs /\ j.kind = kind /\ j.quote = q /\ j.opp = None
      BY RecordsTyped DEF Jobs, AllKinds
    <2>2. /\ Live(q) /\ job' = [job EXCEPT ![s] = j] /\ snap' = [snap EXCEPT ![s] = Loaded(q)]
          /\ pc' = [pc EXCEPT ![s] = "commit"] /\ saves' = saves
          /\ UNCHANGED <<rows, deals, locks>>
      BY <1>2 DEF LoadFor
    <2> HIDE DEF j
    <2> QED BY <1>2, <2>1, <2>2, LoadHolds DEF Loading, QuoteInv, TypeOK
  <1> QED BY <1>1, <1>2, StartCreateHolds DEF Start, StartVersion, StartSend

LEMMA LinkHolds ==
  ASSUME QuoteInv, NEW s \in Sessions, Link(s)
  PROVE  QuoteInv'
  <1>1. job[s] \in Jobs /\ snap[s] \in Snapshots /\ Working(s) /\ job[s].serial \in 0..MaxSave
    BY DEF QuoteInv, TypeOK, Jobs
  <1>2. PICK o \in opps \cup {job[s].serial} :
          /\ job' = [job EXCEPT ![s].opp = o]
          /\ snap' = [snap EXCEPT ![s].oppLines = oppLines[o]]
    BY DEF Link
  <1> DEFINE j == [job[s] EXCEPT !.opp = o]
             k == [snap[s] EXCEPT !.oppLines = oppLines[o]]
  <1>3. o \in 0..MaxSave /\ (o \in opps \/ (o = job[s].serial /\ job[s].serial # 0))
    BY <1>1 DEF QuoteInv, TypeOK, NoStrays
  <1>4. oppLines[o] \in Lines
    BY <1>3 DEF QuoteInv, TypeOK
  <1>5. /\ j \in Jobs /\ j.kind = job[s].kind /\ j.quote = job[s].quote
        /\ j.opp = o /\ j.serial = job[s].serial
    BY <1>1, <1>3 DEF Jobs
  <1>6. k \in Snapshots /\ k.current = snap[s].current /\ k.link = snap[s].link
    BY <1>1, <1>4 DEF Snapshots
  <1>7. /\ job' = [job EXCEPT ![s] = j] /\ snap' = [snap EXCEPT ![s] = k]
        /\ pc' = [pc EXCEPT ![s] = IF job[s].kind = "create" THEN "number" ELSE "commit"]
        /\ pc[s] = "link" /\ linkLock = None /\ linkLock' = s
        /\ UNCHANGED <<rows, deals, saves, dayLock>>
    BY <1>2 DEF Link
  <1> HIDE DEF j, k
  <1>8. SessionsTyped'
    BY <1>5, <1>6, <1>7 DEF QuoteInv, TypeOK, SessionsTyped
  <1>9. Working(s)'
    BY <1>1, <1>3, <1>5, <1>6, <1>7 DEF QuoteInv, TypeOK, Working, Loading, Live, rows, deals
  <1>10. OneCreator'
    BY <1>5, <1>7 DEF QuoteInv, TypeOK, OneCreator
  <1>11. \A t \in Sessions \ {s} : /\ pc'[t] = pc[t] /\ job'[t] = job[t] /\ snap'[t] = snap[t]
                                   /\ linkLock = t => linkLock' = t
    BY <1>7, BoundsAssumption DEF QuoteInv, TypeOK
  <1> QED BY <1>7, <1>8, <1>9, <1>10, <1>11, OnlySession

(* The day's lock and the number after the highest one committed.             *)
LEMMA HighestNumberIs ==
  ASSUME QuoteInv
  PROVE  HighestNumber \in Nat /\ \A q \in Committed : number[q] <= HighestNumber
  <1> DEFINE S == {0} \cup {number[q] : q \in Committed}
  <1>1. S \in SUBSET Nat /\ S # {}
    BY DEF QuoteInv, TypeOK, Committed
  <1>2. IsFiniteSet(S)
    <2>1. IsFiniteSet(Committed)
      BY BoundsAssumption, FS_Subset DEF Committed
    <2>2. IsFiniteSet({number[q] : q \in Committed})
      <3> DEFINE f == [q \in Committed |-> number[q]]
      <3>1. f \in Surjection(Committed, {number[q] : q \in Committed})
        BY DEF Surjection
      <3> QED BY <2>1, <3>1, FS_Surjection
    <2> QED BY <2>2, FS_EmptySet, FS_AddElement, FS_Union
  <1>3. \E n \in S : \A m \in S : m <= n
    <2> HIDE DEF S
    <2> QED BY <1>1, <1>2, HasGreatest
  <1>4. \E n \in S : \A q \in Committed : number[q] <= n
    BY <1>3
  <1> QED BY <1>1, <1>4 DEF HighestNumber

LEMMA TakeNumberHolds ==
  ASSUME QuoteInv, NEW s \in Sessions, TakeNumber(s)
  PROVE  QuoteInv'
  <1> DEFINE j == [job[s] EXCEPT !.no = NextNumber(s)]
  <1>1. job[s] \in Jobs /\ Working(s) /\ NextNumber(s) \in Nat
    BY HighestNumberIs DEF QuoteInv, TypeOK, NextNumber
  <1>2. /\ j \in Jobs /\ j.kind = job[s].kind /\ j.quote = job[s].quote
        /\ j.opp = job[s].opp /\ j.serial = job[s].serial
    BY <1>1 DEF Jobs
  <1>3. /\ job' = [job EXCEPT ![s] = j] /\ pc' = [pc EXCEPT ![s] = "insert"] /\ pc[s] = "number"
        /\ dayLock' = s /\ UNCHANGED <<rows, deals, saves, linkLock, snap>>
    BY DEF TakeNumber
  <1> HIDE DEF j
  <1>4. SessionsTyped'
    BY <1>2, <1>3 DEF QuoteInv, TypeOK, SessionsTyped
  <1>5. Working(s)'
    BY <1>1, <1>2, <1>3 DEF QuoteInv, TypeOK, Working, Loading, Live, rows, deals
  <1>6. OneCreator'
    BY <1>2, <1>3 DEF QuoteInv, TypeOK, OneCreator
  <1> QED BY <1>3, <1>4, <1>5, <1>6, OnlySession DEF QuoteInv, TypeOK
-----------------------------------------------------------------------------
(* The opportunity a session writes exists afterwards.                        *)
LEMMA SyncDealTyped ==
  ASSUME QuoteInv, NEW s \in Sessions, NEW o \in 0..MaxSave \cup {None}, NEW lines \in Lines,
         SyncDeal(s, o, lines)
  PROVE  /\ opps' \subseteq 0..MaxSave /\ oppLines' \in [0..MaxSave -> Lines] /\ opps \subseteq opps'
         /\ lines # {} => o \in opps' \cup {None}
  <1>1. CASE o = None \/ lines = {}
    BY <1>1 DEF QuoteInv, TypeOK, SyncDeal
  <1>2. CASE o # None /\ lines # {}
    <2>1. snap[s].oppLines \in Lines
      BY DEF QuoteInv, TypeOK, Snapshots
    <2>2. oppLines[o] \in Lines
      BY <1>2 DEF QuoteInv, TypeOK
    <2>3. Replaced(oppLines[o], snap[s].oppLines, lines) \in Lines
      BY <2>1, <2>2 DEF Replaced, Lines
    <2>4. /\ opps' = opps \cup {o}
          /\ oppLines' = [oppLines EXCEPT ![o] = Replaced(oppLines[o], snap[s].oppLines, lines)]
      BY <1>2 DEF SyncDeal
    <2> QED BY <1>2, <2>3, <2>4 DEF QuoteInv, TypeOK
  <1> QED BY <1>1, <1>2

LEMMA BatchTyped ==
  ASSUME NEW serial \in 0..MaxSave
  PROVE  OfBatch(serial) \in Lines /\ (serial # 0 => OfBatch(serial) # {})
  BY BoundsAssumption DEF OfBatch, Lines, Serials

LEMMA CommitCreateHolds ==
  ASSUME QuoteInv, NEW s \in Sessions, CommitCreate(s)
  PROVE  QuoteInv'
  <1> DEFINE q == job[s].quote
             v == [lines |-> OfBatch(job[s].serial), total |-> job[s].serial, pdf |-> FALSE]
  <1>1. CASE Rollback(s)
    BY <1>1, RollbackHolds
  <1>2. CASE ~ Rollback(s)
    <2>1. /\ rowState' = [rowState EXCEPT ![q] = "live"]
          /\ number' = [number EXCEPT ![q] = job[s].no]
          /\ status' = [status EXCEPT ![q] = "Draft"]
          /\ current' = [current EXCEPT ![q] = 1]
          /\ link' = [link EXCEPT ![q] = job[s].opp]
          /\ versions' = [versions EXCEPT ![q] = [versions[q] EXCEPT ![1] = v]]
          /\ IF linkLock = s THEN SyncDeal(s, job[s].opp, OfBatch(job[s].serial))
                             ELSE UNCHANGED <<opps, oppLines>>
          /\ Release(s) /\ due' = due /\ saves' = saves
      BY <1>2 DEF CommitCreate
    <2>2. /\ q \in Quotes /\ rowState[q] = "unborn" /\ job[s].kind = "create"
          /\ job[s].opp \in opps \cup {None} \/ (linkLock = s /\ job[s].serial # 0)
      BY DEF QuoteInv, Working, CommitCreate
    <2>3. job[s].no \in Nat /\ job[s].serial \in 0..MaxSave /\ job[s].opp \in 0..MaxSave \cup {None}
      BY DEF QuoteInv, TypeOK, Jobs
    <2>4. v \in VersionRows
      BY <2>3, BatchTyped DEF VersionRows
    <2>5. /\ opps' \subseteq 0..MaxSave /\ oppLines' \in [0..MaxSave -> Lines] /\ opps \subseteq opps'
          /\ job[s].opp \in opps' \cup {None}
      <3>1. CASE linkLock = s
        BY <2>1, <2>2, <2>3, <3>1, BatchTyped, SyncDealTyped
      <3>2. CASE linkLock # s
        BY <2>1, <2>2, <3>2 DEF QuoteInv, TypeOK
      <3> QED BY <3>1, <3>2
    <2> HIDE DEF q, v
    <2>6. 1 \in 1..MaxVersion
      BY BoundsAssumption
    <2>7. RowsTyped'
      BY <2>1, <2>2, <2>3, <2>4, <2>5, <2>6 DEF QuoteInv, TypeOK, RowsTyped
    <2>8. \A n \in 1..MaxVersion : versions'[q][n] # None <=> n <= 1
      <3>1. \A n \in 1..MaxVersion : versions[q][n] = None
        BY <2>2 DEF QuoteInv, NoStrays, Live
      <3>2. versions'[q] = [versions[q] EXCEPT ![1] = v] /\ DOMAIN versions[q] = 1..MaxVersion
        BY <2>1, <2>2 DEF QuoteInv, TypeOK
      <3>3. \A n \in 1..MaxVersion : n <= 1 <=> n = 1
        BY BoundsAssumption
      <3> QED BY <2>4, <3>1, <3>2, <3>3, NoneAssumption
    <2>9. VersionsContiguous' /\ NoStrays'
      <3>1. \A p \in Quotes : p # q => /\ rowState'[p] = rowState[p] /\ versions'[p] = versions[p]
                                       /\ current'[p] = current[p] /\ link'[p] = link[p]
        BY <2>1 DEF QuoteInv, TypeOK
      <3>2. rowState'[q] = "live" /\ current'[q] = 1 /\ link'[q] = job[s].opp
        BY <2>1, <2>2 DEF QuoteInv, TypeOK
      <3>3. VersionsContiguous'
        BY <2>8, <3>1, <3>2 DEF QuoteInv, VersionsContiguous, Committed, Live
      <3>4. NoStrays'
        BY <2>5, <3>1, <3>2 DEF QuoteInv, NoStrays, Live
      <3> QED BY <3>3, <3>4
    <2>10. /\ \A p \in Quotes : rowState[p] = "unborn" /\ rowState'[p] # "unborn" => p = q
           /\ \A p \in Quotes : rowState[p] # "unborn" =>
                rowState'[p] = rowState[p] /\ current'[p] = current[p] /\ current[p] \in Nat
      BY <2>1, <2>2, BoundsAssumption DEF QuoteInv, TypeOK
    <2> QED BY <2>1, <2>2, <2>5, <2>7, <2>9, <2>10, CommitHolds DEF q
  <1> QED BY <1>1, <1>2

(* A live quotation has the version a session loaded of it.                   *)
LEMMA VersionThere ==
  ASSUME QuoteInv, NEW s \in Sessions, job[s].kind \in Loading, Live(job[s].quote)
  PROVE  /\ job[s].quote \in Quotes /\ snap[s].current \in 1..current[job[s].quote]
         /\ snap[s].current \in 1..MaxVersion
         /\ versions[job[s].quote][snap[s].current] \in VersionRows
  <1> DEFINE q == job[s].quote
             n == snap[s].current
  <1>1. q \in Quotes /\ n <= current[q] /\ Live(q)
    BY DEF QuoteInv, Working
  <1>2. n \in 1..MaxVersion /\ current[q] \in 1..MaxVersion
    BY <1>1 DEF QuoteInv, TypeOK, Snapshots
  <1> HIDE DEF q, n
  <1>3. versions[q][n] \in VersionRows \cup {None}
    <2>1. versions[q] \in [1..MaxVersion -> VersionRows \cup {None}]
      BY <1>1 DEF QuoteInv, TypeOK
    <2> QED BY <1>2, <2>1
  <1>4. versions[q][n] # None
    BY <1>1, <1>2 DEF QuoteInv, VersionsContiguous, Committed
  <1>5. n \in 1..current[q]
    BY <1>1, <1>2, BoundsAssumption
  <1> QED BY <1>1, <1>2, <1>3, <1>4, <1>5 DEF q, n

(* A version of a live quotation that was there is written anew.              *)
LEMMA VersionRewritten ==
  ASSUME QuoteInv, NEW q \in Quotes, Live(q), NEW n \in 1..MaxVersion,
         versions[q][n] # None, NEW v \in VersionRows,
         versions' = [versions EXCEPT ![q] = [versions[q] EXCEPT ![n] = v]],
         rowState' = rowState, current' = current
  PROVE  /\ versions' \in [Quotes -> [1..MaxVersion -> VersionRows \cup {None}]]
         /\ VersionsContiguous'
         /\ \A p \in Quotes : ~ Live(p) => versions'[p] = versions[p]
  <1>1. versions' \in [Quotes -> [1..MaxVersion -> VersionRows \cup {None}]]
    BY DEF QuoteInv, TypeOK
  <1>2. /\ \A p \in Quotes : p # q => versions'[p] = versions[p]
        /\ versions'[q] = [versions[q] EXCEPT ![n] = v] /\ versions[q] \in [1..MaxVersion -> VersionRows \cup {None}]
    BY DEF QuoteInv, TypeOK
  <1>3. \A m \in 1..MaxVersion : versions'[q][m] # None <=> versions[q][m] # None
    BY <1>2, NoneAssumption
  <1>4. VersionsContiguous'
    BY <1>2, <1>3 DEF QuoteInv, VersionsContiguous, Committed, Live
  <1> QED BY <1>1, <1>2, <1>4

LEMMA CommitUpdateHolds ==
  ASSUME QuoteInv, NEW s \in Sessions, CommitUpdate(s)
  PROVE  QuoteInv'
  <1> DEFINE q == job[s].quote
             n == snap[s].current
             loaded == snap[s].version
             v == Edited(versions[q][n], loaded, job[s].serial)
             lines == LinesToSave(job[s].serial, loaded)
  <1>1. CASE Rollback(s)
    BY <1>1, RollbackHolds
  <1>2. CASE ~ Rollback(s)
    <2>1. /\ Live(q)
          /\ versions' = [versions EXCEPT ![q] = [versions[q] EXCEPT ![n] = v]]
          /\ link' = IF linkLock = s THEN [link EXCEPT ![q] = job[s].opp] ELSE link
          /\ SyncDeal(s, job[s].opp, lines)
          /\ Release(s) /\ UNCHANGED <<rowState, number, status, current, due, saves>>
      BY <1>2 DEF CommitUpdate
    <2>2. job[s].kind = "update"
      BY DEF CommitUpdate
    <2>3. q \in Quotes /\ n \in 1..MaxVersion /\ versions[q][n] \in VersionRows
      BY <2>1, <2>2, VersionThere DEF Loading
    <2>4. /\ job[s].serial \in 0..MaxSave /\ job[s].opp \in 0..MaxSave \cup {None}
          /\ loaded \in VersionRows
          /\ job[s].opp \in opps \cup {None} \/ (linkLock = s /\ job[s].serial # 0)
      BY DEF QuoteInv, TypeOK, Jobs, Snapshots, Working
    <2>5. v \in VersionRows /\ lines \in Lines /\ (job[s].serial # 0 => lines # {})
      BY <2>3, <2>4, BoundsAssumption DEF Edited, LinesToSave, Replaced, VersionRows, Lines, Serials
    <2> HIDE DEF q, n, loaded, v, lines
    <2>6. /\ opps' \subseteq 0..MaxSave /\ oppLines' \in [0..MaxSave -> Lines] /\ opps \subseteq opps'
          /\ job[s].opp \in opps' \cup {None}
      <3>1. /\ opps' \subseteq 0..MaxSave /\ oppLines' \in [0..MaxSave -> Lines] /\ opps \subseteq opps'
            /\ lines # {} => job[s].opp \in opps' \cup {None}
        BY <2>1, <2>4, <2>5, SyncDealTyped
      <3> QED BY <2>4, <2>5, <3>1
    <2>7. /\ versions' \in [Quotes -> [1..MaxVersion -> VersionRows \cup {None}]]
          /\ VersionsContiguous'
          /\ \A p \in Quotes : ~ Live(p) => versions'[p] = versions[p]
      BY <2>1, <2>3, <2>5, VersionRewritten, NoneAssumption
    <2>8. /\ link' \in [Quotes -> 0..MaxSave \cup {None}]
          /\ \A p \in Quotes : link'[p] = link[p] \/ link'[p] = job[s].opp
      BY <2>1, <2>3, <2>4 DEF QuoteInv, TypeOK
    <2>9. RowsTyped'
      BY <2>1, <2>6, <2>7, <2>8 DEF QuoteInv, TypeOK, RowsTyped
    <2>10. NoStrays'
      BY <2>1, <2>6, <2>7, <2>8 DEF QuoteInv, NoStrays, Live
    <2>11. \A p \in Quotes : rowState'[p] = rowState[p] /\ current'[p] = current[p] /\ current[p] \in Nat
      BY <2>1, BoundsAssumption DEF QuoteInv, TypeOK
    <2> QED BY <2>1, <2>6, <2>7, <2>9, <2>10, <2>11, CommitHolds
  <1> QED BY <1>1, <1>2

(* Two that chose the same number meet at the unique constraint; the winner's *)
(* is the one after the current version, since no session has loaded a number *)
(* the quotation has not reached.                                             *)
LEMMA CommitVersionHolds ==
  ASSUME QuoteInv, NEW s \in Sessions, CommitVersion(s)
  PROVE  QuoteInv'
  <1> DEFINE q == job[s].quote
             n == snap[s].current + 1
             v == [snap[s].version EXCEPT !.pdf = FALSE]
  <1>1. CASE Rollback(s)
    BY <1>1, RollbackHolds
  <1>2. CASE ~ Rollback(s)
    <2>1. /\ Live(q) /\ versions[q][n] = None
          /\ versions' = [versions EXCEPT ![q] = [versions[q] EXCEPT ![n] = v]]
          /\ current' = [current EXCEPT ![q] = n] /\ status' = [status EXCEPT ![q] = "Draft"]
          /\ Release(s) /\ UNCHANGED <<rowState, number, link, deals, saves>>
      BY <1>2 DEF CommitVersion, VersionFree
    <2>2. job[s].kind = "createVersion" /\ snap[s].current < MaxVersion
      BY DEF CommitVersion, QuoteInv, Working
    <2>3. /\ q \in Quotes /\ snap[s].current \in 1..current[q] /\ snap[s].current \in 1..MaxVersion
      BY <2>1, <2>2, VersionThere DEF Loading
    <2>4. v \in VersionRows
      <3>1. snap[s].version \in VersionRows
        BY DEF QuoteInv, TypeOK, Snapshots
      <3> QED BY <3>1 DEF VersionRows
    <2>5. current[q] \in 1..MaxVersion
      BY <2>3 DEF QuoteInv, TypeOK
    <2>6. n \in 1..MaxVersion
      BY <2>2, <2>3, BoundsAssumption
    <2>7. n = current[q] + 1
      <3>1. ~ (n <= current[q])
        BY <2>1, <2>3, <2>6 DEF QuoteInv, VersionsContiguous, Committed
      <3> QED BY <2>3, <2>5, <3>1, BoundsAssumption
    <2> HIDE DEF q, n, v
    <2>8. RowsTyped'
      BY <2>1, <2>3, <2>4, <2>6 DEF QuoteInv, TypeOK, RowsTyped, deals
    <2>9. /\ \A p \in Quotes : /\ rowState'[p] = rowState[p] /\ link'[p] = link[p]
                               /\ p # q => versions'[p] = versions[p] /\ current'[p] = current[p]
          /\ current'[q] = n /\ versions'[q] = [versions[q] EXCEPT ![n] = v]
          /\ versions[q] \in [1..MaxVersion -> VersionRows \cup {None}]
      BY <2>1, <2>3 DEF QuoteInv, TypeOK
    <2>10. \A m \in 1..MaxVersion : versions'[q][m] # None <=> m <= n
      <3>1. \A m \in 1..MaxVersion : versions[q][m] # None <=> m <= current[q]
        BY <2>1, <2>3 DEF QuoteInv, VersionsContiguous, Committed
      <3>2. \A m \in 1..MaxVersion : m <= n <=> m <= current[q] \/ m = n
        BY <2>5, <2>7, BoundsAssumption
      <3> QED BY <2>4, <2>6, <2>9, <3>1, <3>2, NoneAssumption
    <2>11. VersionsContiguous'
      <3>1. \A p \in Quotes : p # q /\ rowState[p] = "live" =>
              \A m \in 1..MaxVersion : versions'[p][m] # None <=> m <= current'[p]
        <4>1. \A p \in Quotes : rowState[p] = "live" =>
                \A m \in 1..MaxVersion : versions[p][m] # None <=> m <= current[p]
          BY DEF QuoteInv, VersionsContiguous, Committed, Live
        <4> QED BY <2>9, <4>1
      <3>2. \A p \in Quotes : rowState[p] = "live" =>
              \A m \in 1..MaxVersion : versions'[p][m] # None <=> m <= current'[p]
        BY <2>9, <2>10, <3>1
      <3>3. rowState' = rowState
        BY <2>1
      <3> QED BY <3>2, <3>3 DEF VersionsContiguous, Committed, Live
    <2>12. NoStrays'
      BY <2>1, <2>9 DEF QuoteInv, NoStrays, Live, deals
    <2>13. \A p \in Quotes : rowState'[p] = rowState[p] /\ current[p] <= current'[p]
      <3>1. \A p \in Quotes : current[p] \in Nat
        BY BoundsAssumption DEF QuoteInv, TypeOK
      <3>2. current[q] <= n
        BY <2>3, <2>7, <3>1
      <3>3. \A p \in Quotes : p # q => current[p] <= current'[p]
        BY <2>9, <3>1
      <3> QED BY <2>9, <3>2, <3>3
    <2> QED BY <2>1, <2>8, <2>11, <2>12, <2>13, CommitHolds DEF deals
  <1> QED BY <1>1, <1>2

LEMMA CommitSendHolds ==
  ASSUME QuoteInv, NEW s \in Sessions, CommitSend(s)
  PROVE  QuoteInv'
  <1> DEFINE q == job[s].quote
             n == snap[s].current
             v == [versions[q][n] EXCEPT !.pdf = @ \/ ~ snap[s].version.pdf]
  <1>1. CASE Rollback(s)
    BY <1>1, RollbackHolds
  <1>2. CASE ~ Rollback(s)
    <2>1. /\ Live(q)
          /\ versions' = [versions EXCEPT ![q] = [versions[q] EXCEPT ![n] = v]]
          /\ status' = [status EXCEPT ![q] = "Sent"] /\ due' = due \cup TaskOf(snap[s].link)
          /\ Release(s) /\ UNCHANGED <<rowState, number, current, link, opps, oppLines, saves>>
      BY <1>2 DEF CommitSend
    <2>2. job[s].kind = "markSent"
      BY DEF CommitSend
    <2>3. q \in Quotes /\ n \in 1..MaxVersion /\ versions[q][n] \in VersionRows
      BY <2>1, <2>2, VersionThere DEF Loading
    <2>4. v \in VersionRows
      <3>1. snap[s].version.pdf \in BOOLEAN
        BY DEF QuoteInv, TypeOK, Snapshots, VersionRows
      <3> QED BY <2>3, <3>1 DEF VersionRows
    <2>5. due' \subseteq opps
      BY <2>1 DEF QuoteInv, TypeOK, Working, TaskOf
    <2> HIDE DEF q, n, v
    <2>6. /\ versions' \in [Quotes -> [1..MaxVersion -> VersionRows \cup {None}]]
          /\ VersionsContiguous'
          /\ \A p \in Quotes : ~ Live(p) => versions'[p] = versions[p]
      BY <2>1, <2>3, <2>4, VersionRewritten, NoneAssumption
    <2>7. RowsTyped'
      BY <2>1, <2>3, <2>5, <2>6 DEF QuoteInv, TypeOK, RowsTyped
    <2>8. NoStrays'
      BY <2>1, <2>6 DEF QuoteInv, NoStrays, Live
    <2>9. \A p \in Quotes : rowState'[p] = rowState[p] /\ current'[p] = current[p] /\ current[p] \in Nat
      BY <2>1, BoundsAssumption DEF QuoteInv, TypeOK
    <2> QED BY <2>1, <2>6, <2>7, <2>8, <2>9, CommitHolds
  <1> QED BY <1>1, <1>2
-----------------------------------------------------------------------------
(* Steps outside the sessions.                                                *)
LEMMA PdfHolds ==
  ASSUME QuoteInv, NEW q \in Quotes, NEW n \in 1..MaxVersion, GeneratePdf(q, n)
  PROVE  QuoteInv'
  <1> DEFINE v == [versions[q][n] EXCEPT !.pdf = TRUE]
  <1>1. /\ Live(q) /\ versions[q][n] # None
        /\ versions' = [versions EXCEPT ![q] = [versions[q] EXCEPT ![n] = v]]
        /\ UNCHANGED <<rowState, number, status, current, link, deals, saves, locks, sessions>>
    BY DEF GeneratePdf
  <1>2. v \in VersionRows
    <2>1. versions[q] \in [1..MaxVersion -> VersionRows \cup {None}]
      BY DEF QuoteInv, TypeOK
    <2>2. versions[q][n] \in VersionRows
      BY <1>1, <2>1
    <2> QED BY <2>2 DEF VersionRows
  <1> HIDE DEF v
  <1>3. /\ versions' \in [Quotes -> [1..MaxVersion -> VersionRows \cup {None}]]
        /\ VersionsContiguous'
        /\ \A p \in Quotes : ~ Live(p) => versions'[p] = versions[p]
    BY <1>1, <1>2, VersionRewritten
  <1>4. TypeOK'
    BY <1>1, <1>3 DEF QuoteInv, TypeOK, deals, locks, sessions
  <1>5. NoStrays'
    BY <1>1, <1>3 DEF QuoteInv, NoStrays, Live, deals
  <1>6. OneCreator' /\ \A s \in Sessions : Working(s)'
    BY <1>1 DEF QuoteInv, OneCreator, Working, Live, deals, locks, sessions
  <1> QED BY <1>3, <1>4, <1>5, <1>6 DEF QuoteInv

LEMMA DeleteHolds ==
  ASSUME QuoteInv, NEW q \in Quotes, DeleteQuotation(q)
  PROVE  QuoteInv'
  <1>1. /\ rowState[q] = "live" /\ rowState' = [rowState EXCEPT ![q] = "deleted"]
        /\ number' = [number EXCEPT ![q] = 0] /\ link' = [link EXCEPT ![q] = None]
        /\ status' = [status EXCEPT ![q] = "Draft"] /\ current' = [current EXCEPT ![q] = 1]
        /\ versions' = [versions EXCEPT ![q] = [n \in 1..MaxVersion |-> None]]
        /\ UNCHANGED <<deals, saves, locks, sessions>>
    BY DEF DeleteQuotation, QuoteInv, TypeOK, Live
  <1>2. RowsTyped'
    BY <1>1, BoundsAssumption DEF QuoteInv, TypeOK, RowsTyped, deals
  <1>3. TypeOK'
    BY <1>1, <1>2 DEF QuoteInv, TypeOK, RowsTyped, locks, sessions
  <1>4. \A p \in Quotes : p # q => /\ rowState'[p] = rowState[p] /\ link'[p] = link[p]
                                   /\ versions'[p] = versions[p] /\ current'[p] = current[p]
    BY <1>1 DEF QuoteInv, TypeOK
  <1>5. rowState'[q] = "deleted" /\ link'[q] = None /\ \A n \in 1..MaxVersion : versions'[q][n] = None
    BY <1>1 DEF QuoteInv, TypeOK
  <1>6. VersionsContiguous' /\ NoStrays'
    BY <1>1, <1>4, <1>5 DEF QuoteInv, VersionsContiguous, NoStrays, Committed, Live, deals
  <1>7. OneCreator'
    BY <1>1 DEF QuoteInv, OneCreator, sessions
  <1>8. ASSUME NEW s \in Sessions PROVE Working(s)'
    <2>1. /\ pc'[s] = pc[s] /\ job'[s] = job[s] /\ snap'[s] = snap[s] /\ linkLock' = linkLock /\ opps' = opps
      BY <1>1 DEF deals, locks, sessions
    <2>2. \A p \in Quotes : rowState[p] = "unborn" => rowState'[p] = "unborn"
      BY <1>1, <1>4
    <2>3. \A p \in Quotes : rowState[p] # "unborn" =>
            /\ rowState'[p] # "unborn"
            /\ rowState'[p] = "live" => rowState[p] = "live" /\ current[p] <= current'[p]
      <3>1. \A p \in Quotes : current[p] \in Nat
        BY BoundsAssumption DEF QuoteInv, TypeOK
      <3> QED BY <1>4, <1>5, <3>1
    <2> QED BY <1>2, <2>1, <2>2, <2>3, StillWorking
  <1> QED BY <1>3, <1>6, <1>7, <1>8 DEF QuoteInv

LEMMA NextQuoteInv == QuoteInv /\ [Next]_vars => QuoteInv'
  <1> SUFFICES ASSUME QuoteInv, [Next]_vars PROVE QuoteInv'
    OBVIOUS
  <1>1. ASSUME NEW s \in Sessions, Start(s) \/ Step(s) \/ Fail(s)
        PROVE  QuoteInv'
    BY <1>1, StartHolds, LinkHolds, TakeNumberHolds, CommitCreateHolds, CommitUpdateHolds,
       CommitVersionHolds, CommitSendHolds, RollbackHolds DEF Step, Fail
  <1>2. CASE UNCHANGED vars
    BY <1>2 DEF QuoteInv, TypeOK, VersionsContiguous, NoStrays, OneCreator, Working, Committed, Live,
                vars, rows, deals, locks, sessions
  <1> QED BY <1>1, <1>2, PdfHolds, DeleteHolds DEF Next

(* Every variable keeps its type; every due task is of an opportunity there   *)
(* is, also when its sender had loaded the quotation long before.             *)
THEOREM QuotationsTyped == Spec => []TypeOK
  <1>1. QuoteInv => TypeOK
    BY DEF QuoteInv
  <1> QED BY <1>1, InitQuoteInv, NextQuoteInv, PTL DEF Spec

(* A live quotation has exactly the versions 1 to current_version, however    *)
(* many requests create versions, edit, send and delete at a time.            *)
THEOREM VersionsInOrder == Spec => []VersionsContiguous
  <1>1. QuoteInv => VersionsContiguous
    BY DEF QuoteInv
  <1> QED BY <1>1, InitQuoteInv, NextQuoteInv, PTL DEF Spec
-----------------------------------------------------------------------------
LEMMA NextNumberAbove ==
  ASSUME QuoteInv, NumberAboveAll, [Next]_vars
  PROVE  NumberAboveAll'
  <1> USE DEF NumberAboveAll
  <1>1. ASSUME UNCHANGED <<pc, job, dayLock>>,
               \A q \in Committed' : q \in Committed /\ number'[q] = number[q]
        PROVE  NumberAboveAll'
    BY <1>1
  <1>2. ASSUME NEW s \in Sessions, pc'[s] # "insert", dayLock # s => dayLock' = dayLock,
               \A t \in Sessions : t # s => pc'[t] = pc[t] /\ job'[t] = job[t],
               dayLock = s \/ \A q \in Committed' : q \in Committed /\ number'[q] = number[q]
        PROVE  NumberAboveAll'
    BY <1>2
  <1>3. ASSUME NEW s \in Sessions, Release(s),
               dayLock = s \/ \A q \in Committed' : q \in Committed /\ number'[q] = number[q]
        PROVE  NumberAboveAll'
    BY <1>2, <1>3 DEF Release, QuoteInv, TypeOK
  <1>4. ASSUME NEW s \in Sessions, Rollback(s) PROVE NumberAboveAll'
    BY <1>3, <1>4 DEF Rollback, rows, Committed, Live
  <1>5. ASSUME NEW s \in Sessions, TakeNumber(s) PROVE NumberAboveAll'
    <2>1. HighestNumber \in Nat /\ \A q \in Committed : number[q] <= HighestNumber
      BY HighestNumberIs
    <2>2. \A q \in Committed : number[q] < HighestNumber + 1
      BY <2>1 DEF QuoteInv, TypeOK, Committed
    <2>3. /\ dayLock' = s /\ dayLock = None /\ pc'[s] = "insert" /\ job'[s].no = HighestNumber + 1
          /\ \A t \in Sessions : t # s => pc'[t] = pc[t]
          /\ Committed' = Committed /\ number' = number
      BY <1>5 DEF TakeNumber, NextNumber, QuoteInv, TypeOK, Jobs, rows, Committed, Live
    <2>4. \A t \in Sessions : t # s => pc'[t] # "insert"
      BY <2>3, BoundsAssumption
    <2> QED BY <2>2, <2>3, <2>4
  <1>6. ASSUME NEW s \in Sessions, CommitCreate(s) PROVE NumberAboveAll'
    <2>1. dayLock = s
      BY <1>6 DEF CommitCreate
    <2> QED BY <1>3, <1>4, <1>6, <2>1 DEF CommitCreate
  <1>7. ASSUME NEW s \in Sessions, CommitUpdate(s) \/ CommitVersion(s) \/ CommitSend(s)
        PROVE  NumberAboveAll'
    BY <1>3, <1>4, <1>7 DEF CommitUpdate, CommitVersion, CommitSend, Committed, Live
  <1>8. ASSUME NEW s \in Sessions, Start(s) \/ Link(s) PROVE NumberAboveAll'
    <2>1. /\ UNCHANGED <<rows, dayLock>> /\ pc'[s] # "insert"
          /\ \A t \in Sessions : t # s => pc'[t] = pc[t] /\ job'[t] = job[t]
      BY <1>8 DEF Start, StartCreate, StartUpdate, EditAnything, StartVersion, StartSend, LoadFor, Link,
                  QuoteInv, TypeOK, locks
    <2> QED BY <1>2, <2>1 DEF rows, Committed, Live
  <1>9. ASSUME NEW q \in Quotes, NEW n \in 1..MaxVersion, GeneratePdf(q, n) PROVE NumberAboveAll'
    BY <1>1, <1>9 DEF GeneratePdf, sessions, locks, Committed, Live
  <1>10. ASSUME NEW q \in Quotes, DeleteQuotation(q) PROVE NumberAboveAll'
    BY <1>1, <1>10 DEF DeleteQuotation, sessions, locks, Committed, Live, QuoteInv, TypeOK
  <1>11. CASE UNCHANGED vars
    BY <1>1, <1>11 DEF vars, sessions, locks, rows, Committed, Live
  <1> QED BY <1>4, <1>5, <1>6, <1>7, <1>8, <1>9, <1>10, <1>11 DEF Next, Step, Fail

(* A number taken for a new quotation stays above every number in use until   *)
(* the quotation is inserted, so two creations never clash.                   *)
THEOREM NumbersStayAbove == Spec => []NumberAboveAll
  <1>1. Init => QuoteInv /\ NumberAboveAll
    BY InitQuoteInv DEF Init, NumberAboveAll
  <1>2. QuoteInv /\ NumberAboveAll /\ [Next]_vars => QuoteInv' /\ NumberAboveAll'
    BY NextQuoteInv, NextNumberAbove
  <1> QED BY <1>1, <1>2, PTL DEF Spec
-----------------------------------------------------------------------------
(* Requests that do not overlap.  What the one at work has loaded is what is  *)
(* recorded, but for a PDF rendered meanwhile: a Draft is edited and sent as  *)
(* it is, and a quotation that is being linked has no opportunity yet.        *)
Turn(s) ==
  \/ Start(s) \/ Step(s) \/ Fail(s)
  \/ \E q \in Quotes, n \in 1..MaxVersion : GeneratePdf(q, n)
  \/ \E q \in Quotes : DeleteQuotation(q)

InForce(q, version) ==
  /\ version.lines = versions[q][current[q]].lines
  /\ version.total = versions[q][current[q]].total
  /\ version.pdf => versions[q][current[q]].pdf

KnowsRecord(s) ==
  job[s].kind \in Loading /\ Live(job[s].quote) =>
    /\ snap[s].current = current[job[s].quote]
    /\ snap[s].link = link[job[s].quote]
    /\ InForce(job[s].quote, snap[s].version)
    /\ status[job[s].quote] = (IF job[s].kind = "createVersion" THEN "Sent" ELSE "Draft")

LinksUnlinked(s) ==
  /\ pc[s] = "idle" => linkLock # s
  /\ job[s].kind = "update" /\ Live(job[s].quote) /\ (pc[s] = "link" \/ linkLock = s)
       => link[job[s].quote] = None

InTurn(s) == KnowsRecord(s) /\ LinksUnlinked(s) /\ TotalsAddUp /\ SentIsDelivered

LEMMA InTurnFirst ==
  ASSUME Init, NEW s \in Sessions
  PROVE  InTurn(s)
  BY RecordsTyped, BoundsAssumption
     DEF Init, InTurn, KnowsRecord, LinksUnlinked, TotalsAddUp, SentIsDelivered, Committed, Live, Loading

(* Steps that leave the tables as they are.                                   *)
LEMMA TablesKept ==
  ASSUME QuoteInv, NEW s \in Sessions, UNCHANGED <<rows, due>>,
         TotalsAddUp, SentIsDelivered
  PROVE  TotalsAddUp' /\ SentIsDelivered' /\ SentStays /\ LinkStays
  BY DEF TotalsAddUp, SentIsDelivered, SentStays, LinkStays, Committed, Live, rows

(* A request that has just loaded a quotation knows it.                       *)
LEMMA LoadInTurn ==
  ASSUME QuoteInv, NEW s \in Sessions, InTurn(s), NEW q \in Quotes, Live(q),
         NEW j \in Jobs, j.kind \in Loading, j.quote = q, NEW p \in {"link", "commit"},
         status[q] = (IF j.kind = "createVersion" THEN "Sent" ELSE "Draft"),
         p = "link" => link[q] = None, pc[s] = "idle",
         job' = [job EXCEPT ![s] = j], snap' = [snap EXCEPT ![s] = Loaded(q)], pc' = [pc EXCEPT ![s] = p],
         UNCHANGED <<rows, deals, locks>>
  PROVE  InTurn(s)' /\ SentStays /\ LinkStays
  <1>1. /\ job'[s] = j /\ snap'[s] = Loaded(q) /\ pc'[s] = p /\ linkLock' = linkLock /\ linkLock # s
    BY DEF QuoteInv, TypeOK, InTurn, LinksUnlinked, locks
  <1>2. KnowsRecord(s)'
    BY <1>1 DEF KnowsRecord, InForce, Loaded, Live, rows
  <1>3. LinksUnlinked(s)'
    BY <1>1 DEF LinksUnlinked, Live, rows
  <1>4. UNCHANGED <<rows, due>>
    BY DEF deals
  <1> QED BY <1>2, <1>3, <1>4, TablesKept DEF InTurn

LEMMA StartInTurn ==
  ASSUME QuoteInv, NEW s \in Sessions, InTurn(s), Start(s)
  PROVE  InTurn(s)' /\ SentStays /\ LinkStays
  <1>1. ASSUME NEW q \in Quotes, NEW o \in opps \cup {None}, NEW b \in BOOLEAN, StartCreate(s, q, o, b)
        PROVE  InTurn(s)' /\ SentStays /\ LinkStays
    <2>1. /\ job'[s].kind = "create" /\ pc'[s] # "idle" /\ UNCHANGED <<rows, due>>
      BY <1>1 DEF StartCreate, QuoteInv, TypeOK, deals
    <2>2. KnowsRecord(s)' /\ LinksUnlinked(s)'
      BY <2>1 DEF KnowsRecord, LinksUnlinked, Loading
    <2> QED BY <2>1, <2>2, TablesKept DEF InTurn
  <1>2. ASSUME NEW q \in Quotes, NEW b \in BOOLEAN, StartUpdate(s, q, b)
        PROVE  InTurn(s)' /\ SentStays /\ LinkStays
    <2> DEFINE j == [kind |-> "update", quote |-> q, opp |-> link[q], no |-> 0, serial |-> NextSerial(b)]
               p == IF NeedsDeal(q, NextSerial(b)) THEN "link" ELSE "commit"
    <2>1. /\ Live(q) /\ status[q] = "Draft" /\ pc[s] = "idle"
          /\ job' = [job EXCEPT ![s] = j] /\ snap' = [snap EXCEPT ![s] = Loaded(q)]
          /\ pc' = [pc EXCEPT ![s] = p] /\ UNCHANGED <<rows, deals, locks>>
      BY <1>2 DEF StartUpdate, EditAnything
    <2>2. NextSerial(b) \in 0..MaxSave
      BY <1>2, BoundsAssumption DEF QuoteInv, TypeOK, StartUpdate, EditAnything, NextSerial
    <2>3. j \in Jobs /\ j.kind = "update" /\ j.quote = q
      BY <2>2 DEF QuoteInv, TypeOK, Jobs, AllKinds
    <2>4. p \in {"link", "commit"} /\ (p = "link" => link[q] = None)
      BY DEF NeedsDeal
    <2> HIDE DEF j, p
    <2> QED BY <2>1, <2>3, <2>4, LoadInTurn DEF Loading
  <1>3. ASSUME NEW q \in Quotes, NEW kind \in {"createVersion", "markSent"}, LoadFor(kind, s, q),
               status[q] = (IF kind = "createVersion" THEN "Sent" ELSE "Draft")
        PROVE  InTurn(s)' /\ SentStays /\ LinkStays
    <2> DEFINE j == [NoJob EXCEPT !.kind = kind, !.quote = q]
    <2>1. /\ Live(q) /\ pc[s] = "idle"
          /\ job' = [job EXCEPT ![s] = j] /\ snap' = [snap EXCEPT ![s] = Loaded(q)]
          /\ pc' = [pc EXCEPT ![s] = "commit"] /\ UNCHANGED <<rows, deals, locks>>
      BY <1>3 DEF LoadFor
    <2>2. j \in Jobs /\ j.kind = kind /\ j.quote = q
      BY RecordsTyped DEF Jobs, AllKinds
    <2> HIDE DEF j
    <2> QED BY <1>3, <2>1, <2>2, LoadInTurn DEF Loading
  <1>4. \A q \in Quotes : status[q] # "Draft" => status[q] = "Sent"
    BY DEF QuoteInv, TypeOK
  <1> QED BY <1>1, <1>2, <1>3, <1>4 DEF Start, StartVersion, StartSend

LEMMA BetweenInTurn ==
  ASSUME QuoteInv, NEW s \in Sessions, InTurn(s), Link(s) \/ TakeNumber(s)
  PROVE  InTurn(s)' /\ SentStays /\ LinkStays
  <1>1. UNCHANGED <<rows, due>> /\ pc'[s] # "idle"
    BY DEF Link, TakeNumber, QuoteInv, TypeOK, deals
  <1>2. /\ job'[s].kind = job[s].kind /\ job'[s].quote = job[s].quote
        /\ snap'[s].current = snap[s].current /\ snap'[s].link = snap[s].link
        /\ snap'[s].version = snap[s].version
    <2>1. job[s] \in Jobs /\ snap[s] \in Snapshots
      BY DEF QuoteInv, TypeOK
    <2>2. CASE Link(s)
      <3>1. PICK o \in opps \cup {job[s].serial} :
              /\ job' = [job EXCEPT ![s].opp = o] /\ snap' = [snap EXCEPT ![s].oppLines = oppLines[o]]
        BY <2>2 DEF Link
      <3> QED BY <2>1, <3>1 DEF QuoteInv, TypeOK, Jobs, Snapshots
    <2>3. CASE TakeNumber(s)
      BY <2>1, <2>3 DEF TakeNumber, QuoteInv, TypeOK, Jobs
    <2> QED BY <2>2, <2>3
  <1>3. KnowsRecord(s)'
    BY <1>1, <1>2 DEF InTurn, KnowsRecord, InForce, Live, rows
  <1>4. LinksUnlinked(s)'
    <2>1. Link(s) => pc[s] = "link"
      BY DEF Link
    <2>2. TakeNumber(s) => job[s].kind = "create"
      BY DEF TakeNumber, QuoteInv, Working
    <2> QED BY <1>1, <1>2, <2>1, <2>2 DEF InTurn, LinksUnlinked, Live, rows
  <1> QED BY <1>1, <1>3, <1>4, TablesKept DEF InTurn

(* A transaction that has ended knows nothing.                                *)
LEMMA ReleasedInTurn ==
  ASSUME QuoteInv, NEW s \in Sessions, Release(s)
  PROVE  KnowsRecord(s)' /\ LinksUnlinked(s)'
  <1>1. job'[s].kind = "none" /\ linkLock' # s
    BY RecordsTyped, BoundsAssumption DEF Release, QuoteInv, TypeOK
  <1> QED BY <1>1 DEF KnowsRecord, LinksUnlinked, Loading

LEMMA RollbackInTurn ==
  ASSUME QuoteInv, NEW s \in Sessions, InTurn(s), Rollback(s)
  PROVE  InTurn(s)' /\ SentStays /\ LinkStays
  BY ReleasedInTurn, TablesKept DEF Rollback, InTurn, deals

(* A commit that writes one version of a quotation that is there.             *)
LEMMA VersionInTurn ==
  ASSUME QuoteInv, TotalsAddUp, NEW q \in Quotes, Live(q), NEW n \in 1..MaxVersion, NEW v \in VersionRows,
         versions' = [versions EXCEPT ![q] = [versions[q] EXCEPT ![n] = v]], rowState' = rowState,
         v.lines = OfBatch(v.total),
         Locked(q, n) => v.lines = versions[q][n].lines /\ v.total = versions[q][n].total
  PROVE  TotalsAddUp' /\ SentStays
  <1>1. \A p \in Quotes, m \in 1..MaxVersion :
          versions'[p][m] = IF p = q /\ m = n THEN v ELSE versions[p][m]
    BY DEF QuoteInv, TypeOK
  <1>2. TotalsAddUp'
    BY <1>1 DEF TotalsAddUp, Committed, Live
  <1>3. SentStays
    BY <1>1 DEF SentStays
  <1> QED BY <1>2, <1>3

LEMMA CreateInTurn ==
  ASSUME QuoteInv, NEW s \in Sessions, InTurn(s), CommitCreate(s)
  PROVE  InTurn(s)' /\ SentStays /\ LinkStays
  <1> DEFINE q == job[s].quote
             v == [lines |-> OfBatch(job[s].serial), total |-> job[s].serial, pdf |-> FALSE]
  <1>1. CASE Rollback(s)
    BY <1>1, RollbackInTurn
  <1>2. CASE ~ Rollback(s)
    <2>1. /\ rowState' = [rowState EXCEPT ![q] = "live"]
          /\ status' = [status EXCEPT ![q] = "Draft"]
          /\ current' = [current EXCEPT ![q] = 1]
          /\ link' = [link EXCEPT ![q] = job[s].opp]
          /\ versions' = [versions EXCEPT ![q] = [versions[q] EXCEPT ![1] = v]]
          /\ Release(s) /\ due' = due
      BY <1>2 DEF CommitCreate
    <2>2. q \in Quotes /\ rowState[q] = "unborn"
      BY DEF QuoteInv, Working, CommitCreate
    <2>3. v.lines = OfBatch(v.total)
      OBVIOUS
    <2> HIDE DEF q, v
    <2>4. \A p \in Quotes : p # q => /\ rowState'[p] = rowState[p] /\ versions'[p] = versions[p]
                                     /\ status'[p] = status[p] /\ current'[p] = current[p]
                                     /\ link'[p] = link[p]
      BY <2>1 DEF QuoteInv, TypeOK
    <2>5. \A n \in 1..MaxVersion : versions'[q][n] = IF n = 1 THEN v ELSE None
      BY <2>1, <2>2 DEF QuoteInv, TypeOK, NoStrays, Live
    <2>6. TotalsAddUp'
      BY <2>3, <2>4, <2>5 DEF InTurn, TotalsAddUp, Committed, Live
    <2>7. SentIsDelivered'
      BY <2>1, <2>2, <2>4 DEF InTurn, SentIsDelivered, Committed, Live, QuoteInv, TypeOK
    <2>8. SentStays /\ LinkStays
      BY <2>2, <2>4 DEF SentStays, LinkStays, Locked, Live
    <2> QED BY <2>1, <2>6, <2>7, <2>8, ReleasedInTurn DEF InTurn
  <1> QED BY <1>1, <1>2

LEMMA UpdateInTurn ==
  ASSUME QuoteInv, NEW s \in Sessions, InTurn(s), CommitUpdate(s)
  PROVE  InTurn(s)' /\ SentStays /\ LinkStays
  <1> DEFINE q == job[s].quote
             n == snap[s].current
             v == Edited(versions[q][n], snap[s].version, job[s].serial)
  <1>1. CASE Rollback(s)
    BY <1>1, RollbackInTurn
  <1>2. CASE ~ Rollback(s)
    <2>1. /\ Live(q) /\ job[s].kind = "update"
          /\ versions' = [versions EXCEPT ![q] = [versions[q] EXCEPT ![n] = v]]
          /\ link' = (IF linkLock = s THEN [link EXCEPT ![q] = job[s].opp] ELSE link)
          /\ Release(s) /\ UNCHANGED <<rowState, status, current, due>>
      BY <1>2 DEF CommitUpdate
    <2>2. q \in Quotes /\ n \in 1..MaxVersion /\ versions[q][n] \in VersionRows
      BY <2>1, VersionThere DEF Loading
    <2>3. /\ n = current[q] /\ status[q] = "Draft" /\ InForce(q, snap[s].version)
          /\ linkLock = s => link[q] = None
      BY <2>1 DEF InTurn, KnowsRecord, LinksUnlinked, Loading
    <2>4. versions[q][n].lines = OfBatch(versions[q][n].total)
      BY <2>1, <2>2, NoneAssumption DEF InTurn, TotalsAddUp, Committed
    <2>5. v.lines = OfBatch(v.total) /\ v \in VersionRows
      <3>1. /\ snap[s].version.lines = versions[q][n].lines
            /\ snap[s].version.total = versions[q][n].total
            /\ snap[s].version \in VersionRows /\ job[s].serial \in 0..MaxSave
        BY <2>3 DEF InForce, QuoteInv, TypeOK, Snapshots, Jobs
      <3>2. CASE job[s].serial = 0
        BY <2>2, <2>4, <3>1, <3>2 DEF Edited, VersionRows
      <3>3. CASE job[s].serial # 0
        <4>1. v.lines = {job[s].serial} /\ v.total = job[s].serial /\ v.pdf \in BOOLEAN
          BY <2>2, <3>1, <3>3 DEF Edited, Replaced, VersionRows
        <4>2. {job[s].serial} = OfBatch(job[s].serial)
          BY <3>3 DEF OfBatch
        <4>3. OfBatch(job[s].serial) \in Lines
          BY <3>1, BatchTyped
        <4>4. v = [lines |-> v.lines, total |-> v.total, pdf |-> v.pdf]
          BY DEF Edited
        <4> HIDE DEF v
        <4> QED BY <3>1, <4>1, <4>2, <4>3, <4>4 DEF VersionRows
      <3> QED BY <3>2, <3>3
    <2> HIDE DEF q, n, v
    <2>6. ~ Locked(q, n)
      <3>1. n \in Nat
        BY <2>2, BoundsAssumption
      <3> QED BY <2>3, <3>1 DEF Locked
    <2>7. TotalsAddUp' /\ SentStays
      BY <2>1, <2>2, <2>5, <2>6, VersionInTurn DEF InTurn
    <2>8. \A p \in Quotes : p # q => link'[p] = link[p] /\ versions'[p] = versions[p]
      BY <2>1 DEF QuoteInv, TypeOK
    <2>9. SentIsDelivered'
      BY <2>1, <2>3, <2>8 DEF InTurn, SentIsDelivered, Committed, Live
    <2>10. LinkStays
      BY <2>1, <2>3, <2>8 DEF LinkStays
    <2> QED BY <2>1, <2>7, <2>9, <2>10, ReleasedInTurn DEF InTurn
  <1> QED BY <1>1, <1>2

LEMMA NewVersionInTurn ==
  ASSUME QuoteInv, NEW s \in Sessions, InTurn(s), CommitVersion(s)
  PROVE  InTurn(s)' /\ SentStays /\ LinkStays
  <1> DEFINE q == job[s].quote
             n == snap[s].current + 1
             v == [snap[s].version EXCEPT !.pdf = FALSE]
  <1>1. CASE Rollback(s)
    BY <1>1, RollbackInTurn
  <1>2. CASE ~ Rollback(s)
    <2>1. /\ Live(q) /\ versions[q][n] = None /\ job[s].kind = "createVersion"
          /\ versions' = [versions EXCEPT ![q] = [versions[q] EXCEPT ![n] = v]]
          /\ current' = [current EXCEPT ![q] = n] /\ status' = [status EXCEPT ![q] = "Draft"]
          /\ Release(s) /\ UNCHANGED <<rowState, link, due>>
      BY <1>2 DEF CommitVersion, VersionFree, deals
    <2>2. snap[s].current < MaxVersion
      BY <2>1 DEF QuoteInv, Working
    <2>3. q \in Quotes /\ snap[s].current \in 1..MaxVersion /\ versions[q][snap[s].current] \in VersionRows
      BY <2>1, VersionThere DEF Loading
    <2>4. snap[s].current = current[q] /\ InForce(q, snap[s].version)
      BY <2>1 DEF InTurn, KnowsRecord, Loading
    <2>5. v \in VersionRows /\ v.lines = snap[s].version.lines /\ v.total = snap[s].version.total
      <3>1. snap[s].version \in VersionRows
        BY DEF QuoteInv, TypeOK, Snapshots
      <3> QED BY <3>1 DEF VersionRows
    <2>6. v.lines = OfBatch(v.total)
      BY <2>1, <2>3, <2>4, <2>5, NoneAssumption DEF InTurn, TotalsAddUp, Committed, InForce
    <2>7. n \in 1..MaxVersion /\ ~ Locked(q, n)
      BY <2>2, <2>3, <2>4, BoundsAssumption DEF Locked
    <2> HIDE DEF q, n, v
    <2>8. TotalsAddUp' /\ SentStays
      BY <2>1, <2>3, <2>5, <2>6, <2>7, VersionInTurn DEF InTurn
    <2>9. SentIsDelivered'
      <3>1. /\ status'[q] = "Draft"
            /\ \A p \in Quotes : p # q => /\ status'[p] = status[p] /\ versions'[p] = versions[p]
                                          /\ current'[p] = current[p]
        BY <2>1, <2>3 DEF QuoteInv, TypeOK
      <3> QED BY <2>1, <3>1 DEF InTurn, SentIsDelivered, Committed, Live
    <2>10. LinkStays
      BY <2>1 DEF LinkStays
    <2> QED BY <2>1, <2>8, <2>9, <2>10, ReleasedInTurn DEF InTurn
  <1> QED BY <1>1, <1>2

LEMMA SendInTurn ==
  ASSUME QuoteInv, NEW s \in Sessions, InTurn(s), CommitSend(s)
  PROVE  InTurn(s)' /\ SentStays /\ LinkStays
  <1> DEFINE q == job[s].quote
             n == snap[s].current
             v == [versions[q][n] EXCEPT !.pdf = @ \/ ~ snap[s].version.pdf]
  <1>1. CASE Rollback(s)
    BY <1>1, RollbackInTurn
  <1>2. CASE ~ Rollback(s)
    <2>1. /\ Live(q) /\ job[s].kind = "markSent"
          /\ versions' = [versions EXCEPT ![q] = [versions[q] EXCEPT ![n] = v]]
          /\ status' = [status EXCEPT ![q] = "Sent"] /\ due' = due \cup TaskOf(snap[s].link)
          /\ Release(s) /\ UNCHANGED <<rowState, current, link>>
      BY <1>2 DEF CommitSend
    <2>2. q \in Quotes /\ n \in 1..MaxVersion /\ versions[q][n] \in VersionRows
      BY <2>1, VersionThere DEF Loading
    <2>3. n = current[q] /\ snap[s].link = link[q] /\ InForce(q, snap[s].version)
      BY <2>1 DEF InTurn, KnowsRecord, Loading
    <2>4. /\ v \in VersionRows /\ v.lines = versions[q][n].lines /\ v.total = versions[q][n].total
          /\ v.pdf
      <3>1. snap[s].version.pdf \in BOOLEAN /\ (snap[s].version.pdf => versions[q][n].pdf)
        BY <2>3 DEF InForce, QuoteInv, TypeOK, Snapshots, VersionRows
      <3> QED BY <2>2, <3>1 DEF VersionRows
    <2>5. v.lines = OfBatch(v.total)
      BY <2>1, <2>2, <2>4, NoneAssumption DEF InTurn, TotalsAddUp, Committed
    <2> HIDE DEF q, n, v
    <2>6. TotalsAddUp' /\ SentStays
      BY <2>1, <2>2, <2>4, <2>5, VersionInTurn DEF InTurn
    <2>7. SentIsDelivered'
      <3>1. /\ versions'[q][n] = v
            /\ \A p \in Quotes : p # q => status'[p] = status[p] /\ versions'[p] = versions[p]
        BY <2>1, <2>2 DEF QuoteInv, TypeOK
      <3>2. link[q] # None => link[q] \in due'
        BY <2>1, <2>3 DEF TaskOf
      <3> QED BY <2>1, <2>3, <2>4, <3>1, <3>2 DEF InTurn, SentIsDelivered, Committed, Live
    <2>8. LinkStays
      BY <2>1 DEF LinkStays
    <2> QED BY <2>1, <2>6, <2>7, <2>8, ReleasedInTurn DEF InTurn
  <1> QED BY <1>1, <1>2

(* A PDF rendered or a quotation deleted while a request is at work.          *)
LEMMA PdfInTurn ==
  ASSUME QuoteInv, NEW s \in Sessions, InTurn(s), NEW q \in Quotes, NEW n \in 1..MaxVersion, GeneratePdf(q, n)
  PROVE  InTurn(s)' /\ SentStays /\ LinkStays
  <1> DEFINE v == [versions[q][n] EXCEPT !.pdf = TRUE]
  <1>1. /\ Live(q) /\ versions[q][n] # None
        /\ versions' = [versions EXCEPT ![q] = [versions[q] EXCEPT ![n] = v]]
        /\ UNCHANGED <<rowState, status, current, link, due, linkLock, pc, job, snap>>
    BY DEF GeneratePdf, deals, locks, sessions
  <1>2. v \in VersionRows /\ v.lines = versions[q][n].lines /\ v.total = versions[q][n].total /\ v.pdf
    <2>1. versions[q] \in [1..MaxVersion -> VersionRows \cup {None}]
      BY DEF QuoteInv, TypeOK
    <2>2. versions[q][n] \in VersionRows
      BY <1>1, <2>1
    <2> QED BY <2>2 DEF VersionRows
  <1>3. v.lines = OfBatch(v.total)
    BY <1>1, <1>2 DEF InTurn, TotalsAddUp, Committed
  <1> HIDE DEF v
  <1>4. TotalsAddUp' /\ SentStays
    BY <1>1, <1>2, <1>3, VersionInTurn DEF InTurn
  <1>5. \A p \in Quotes, m \in 1..MaxVersion :
          /\ versions'[p][m].lines = versions[p][m].lines /\ versions'[p][m].total = versions[p][m].total
          /\ versions[p][m].pdf => versions'[p][m].pdf
    BY <1>1, <1>2 DEF QuoteInv, TypeOK
  <1>6. SentIsDelivered'
    BY <1>1, <1>5 DEF InTurn, SentIsDelivered, Committed, Live, QuoteInv, TypeOK
  <1>7. KnowsRecord(s)'
    <2> SUFFICES ASSUME job[s].kind \in Loading, Live(job[s].quote)
                 PROVE  InForce(job[s].quote, snap[s].version)'
      BY <1>1 DEF InTurn, KnowsRecord, Live
    <2>1. job[s].quote \in Quotes /\ InForce(job[s].quote, snap[s].version)
      BY DEF InTurn, KnowsRecord, QuoteInv, Working
    <2>2. current[job[s].quote] \in 1..MaxVersion
      BY <2>1 DEF QuoteInv, TypeOK
    <2> QED BY <1>1, <1>5, <2>1, <2>2 DEF InForce
  <1>8. LinksUnlinked(s)' /\ LinkStays
    BY <1>1 DEF InTurn, LinksUnlinked, LinkStays, Live
  <1> QED BY <1>4, <1>6, <1>7, <1>8 DEF InTurn

LEMMA DeleteInTurn ==
  ASSUME QuoteInv, NEW s \in Sessions, InTurn(s), NEW q \in Quotes, DeleteQuotation(q)
  PROVE  InTurn(s)' /\ SentStays /\ LinkStays
  <1>1. /\ rowState'[q] = "deleted" /\ UNCHANGED <<due, linkLock, pc, job, snap>>
        /\ \A p \in Quotes : p # q => /\ rowState'[p] = rowState[p] /\ versions'[p] = versions[p]
                                      /\ status'[p] = status[p] /\ current'[p] = current[p]
                                      /\ link'[p] = link[p]
    BY DEF DeleteQuotation, QuoteInv, TypeOK, deals, locks, sessions
  <1>2. TotalsAddUp' /\ SentIsDelivered' /\ SentStays /\ LinkStays
    BY <1>1 DEF InTurn, TotalsAddUp, SentIsDelivered, SentStays, LinkStays, Committed, Live
  <1>3. job[s].kind \in Loading => job[s].quote \in Quotes
    BY DEF QuoteInv, Working
  <1>4. KnowsRecord(s)'
    BY <1>1, <1>3 DEF InTurn, KnowsRecord, InForce, Live
  <1>5. LinksUnlinked(s)'
    BY <1>1, <1>3 DEF InTurn, LinksUnlinked, Live, Loading
  <1> QED BY <1>2, <1>4, <1>5 DEF InTurn

LEMMA TurnInTurn ==
  ASSUME QuoteInv, NEW s \in Sessions, InTurn(s), Turn(s) \/ UNCHANGED vars
  PROVE  InTurn(s)' /\ SentStays /\ LinkStays
  <1>1. CASE UNCHANGED vars
    <2>1. KnowsRecord(s)' /\ LinksUnlinked(s)' /\ UNCHANGED <<rows, due>>
      BY <1>1 DEF InTurn, KnowsRecord, LinksUnlinked, InForce, Live, vars, rows, deals, locks, sessions
    <2> QED BY <2>1, TablesKept DEF InTurn
  <1>2. ASSUME Start(s) \/ Step(s) \/ Fail(s)
        PROVE  InTurn(s)' /\ SentStays /\ LinkStays
    BY <1>2, StartInTurn, BetweenInTurn, CreateInTurn, UpdateInTurn, NewVersionInTurn, SendInTurn,
       RollbackInTurn DEF Step, Fail
  <1> QED BY <1>1, <1>2, PdfInTurn, DeleteInTurn DEF Turn
-----------------------------------------------------------------------------
(* Tags and categories.  A request that writes one has its name, and the row  *)
(* it renames.                                                                *)
TagWork(s) ==
  [job : {"idle", "create", "rename", "done", "refused", "removed"},
   name : Names \cup {None}, on : Tags(s)!Ids \cup {None}]

TagsTyped(s) ==
  /\ tag \in [Tags(s)!Ids -> Tags(s)!TagRows \cup {None}]
  /\ links \subseteq Tagged \X Tags(s)!Rows
  /\ namings \in [Clients -> TagWork(s)]
  /\ \A r \in Clients :
       /\ namings[r].job = "create" => namings[r].name \in Names /\ namings[r].on = None
       /\ namings[r].job = "rename" => namings[r].name \in Names /\ namings[r].on \in Tags(s)!Rows

TagInv(s) == TagsTyped(s) /\ Tags(s)!SpellingsDistinct

(* One after another, nobody takes the name that was found free.              *)
TakenBy(s, name, i) == \E j \in Tags(s)!Rows \ {i} : LowerCase[tag[j].name] = LowerCase[name]
FoundFree(s) == \A r \in Clients :
  namings[r].job \in {"create", "rename"} =>
    /\ ~ TakenBy(s, namings[r].name, namings[r].on)
    /\ \A q \in Clients \ {r} : namings[q].job \notin {"create", "rename"}
TagsInTurn(s) == FoundFree(s) /\ Tags(s)!NamesDistinct

TagsAssumed(s) == Tags(s)!TagAssumption
Together(s) == s = "together"

LEMMA TagsFirst ==
  ASSUME NEW s, TagsAssumed(s), Tags(s)!Init
  PROVE  TagInv(s) /\ TagsInTurn(s)
PROOF
  <1>1. TagsTyped(s)
    BY DEF TagsTyped, TagWork, Tags!Init, Tags!NoRequest, Tags!Rows
  <1>2. FoundFree(s)
    BY DEF FoundFree, Tags!Init, Tags!NoRequest
  <1>3. Tags(s)!SpellingsDistinct /\ Tags(s)!NamesDistinct
    BY DEF Tags!Init, Tags!Rows, Tags!SpellingsDistinct, Tags!NamesDistinct
  <1> QED BY <1>1, <1>2, <1>3 DEF TagInv, TagsInTurn

(* A step that leaves the rows alone, but for switching them off.             *)
SameNames(s) ==
  /\ tag' \in [Tags(s)!Ids -> Tags(s)!TagRows \cup {None}]
  /\ \A i \in Tags(s)!Ids : (tag'[i] = None <=> tag[i] = None) /\ (tag[i] # None => tag'[i].name = tag[i].name)

LEMMA SameNamesKeep ==
  ASSUME NEW s, TagsAssumed(s), TagInv(s), SameNames(s),
         links' \subseteq Tagged \X Tags(s)!Rows,
         namings' \in [Clients -> TagWork(s)],
         \A r \in Clients :
           /\ namings'[r].job = "create" => namings'[r].name \in Names /\ namings'[r].on = None
           /\ namings'[r].job = "rename" => namings'[r].name \in Names /\ namings'[r].on \in Tags(s)!Rows
  PROVE  TagInv(s)'
PROOF
  <1>1. Tags(s)!Rows' = Tags(s)!Rows
    BY DEF SameNames, Tags!Rows
  <1>2. TagsTyped(s)'
    BY <1>1 DEF SameNames, TagsTyped, TagWork, Tags!Ids, Tags!TagRows
  <1>3. \A i \in Tags(s)!Rows : tag'[i].name = tag[i].name
    BY DEF SameNames, Tags!Rows
  <1>4. Tags(s)!SpellingsDistinct'
    BY <1>1, <1>3 DEF TagInv, Tags!SpellingsDistinct
  <1> QED BY <1>2, <1>4 DEF TagInv

LEMMA TagsKeptIdle ==
  ASSUME NEW s, TagsAssumed(s), TagInv(s), NEW r \in Clients,
         \/ Tags(s)!CreateTag(r) \/ Tags(s)!UpdateTag(r) \/ Tags(s)!DeactivateTag(r)
         \/ Tags(s)!AssignTag(r) \/ Tags(s)!RemoveTag(r)
  PROVE  TagInv(s)' /\ SameNames(s)
PROOF
  <1>1. SameNames(s)
    <2>1. CASE UNCHANGED tag
      BY <2>1 DEF SameNames, TagInv, TagsTyped
    <2>2. ASSUME NEW i \in Tags(s)!Rows, tag' = [tag EXCEPT ![i] = Tags(s)!Off(@)] PROVE SameNames(s)
      <3>1. i \in Tags(s)!Ids /\ tag[i] # None /\ tag \in [Tags(s)!Ids -> Tags(s)!TagRows \cup {None}]
        BY DEF Tags!Rows, TagInv, TagsTyped
      <3>2. PICK row \in Tags(s)!TagRows : row = Tags(s)!Off(tag[i]) /\ row.name = tag[i].name
        <4>1. tag[i] \in Tags(s)!TagRows
          BY <3>1
        <4>2. ASSUME NEW row \in Tags(s)!TagRows
              PROVE  Tags(s)!Off(row) \in Tags(s)!TagRows /\ Tags(s)!Off(row).name = row.name
          BY DEF Tags!Off, Tags!TagRows
        <4> QED BY <4>1, <4>2
      <3>3. row # None /\ tag' = [tag EXCEPT ![i] = row]
        BY <2>2, <3>2 DEF TagsAssumed, Tags!TagAssumption
      <3> QED BY <3>1, <3>2, <3>3 DEF SameNames
    <2> QED BY <2>1, <2>2 DEF Tags!CreateTag, Tags!UpdateTag, Tags!DeactivateTag, Tags!AssignTag, Tags!RemoveTag
  <1>2. links' \subseteq Tagged \X Tags(s)!Rows
    BY DEF TagInv, TagsTyped, Tags!CreateTag, Tags!UpdateTag, Tags!DeactivateTag, Tags!AssignTag,
       Tags!RemoveTag, Tags!KeepLinks
  <1>3. PICK what \in {"create", "rename", "done", "refused", "removed"}, name \in Names \cup {None},
             on \in Tags(s)!Ids \cup {None} :
          /\ namings' = [namings EXCEPT ![r] = [job |-> what, name |-> name, on |-> on]]
          /\ what = "create" => name \in Names /\ on = None
          /\ what = "rename" => name \in Names /\ on \in Tags(s)!Rows
    <2>1. \A i \in Tags(s)!Rows : i \in Tags(s)!Ids
      BY DEF Tags!Rows
    <2>2. ASSUME NEW name, NEW i \in Tags(s)!Taken(name, Tags(s)!Rows) PROVE i \in Tags(s)!Ids
      BY <2>1 DEF Tags!Taken
    <2>3. CASE Tags(s)!CreateTag(r)
      BY <2>1, <2>2, <2>3 DEF Tags!CreateTag, Tags!Step
    <2>4. CASE Tags(s)!UpdateTag(r)
      BY <2>1, <2>4 DEF Tags!UpdateTag, Tags!Step
    <2>5. CASE Tags(s)!DeactivateTag(r)
      BY <2>1, <2>5 DEF Tags!DeactivateTag, Tags!Step
    <2>6. CASE Tags(s)!AssignTag(r)
      BY <2>1, <2>6 DEF Tags!AssignTag, Tags!Step
    <2>7. CASE Tags(s)!RemoveTag(r)
      BY <2>1, <2>7 DEF Tags!RemoveTag, Tags!Step, TagInv, TagsTyped
    <2> QED BY <2>3, <2>4, <2>5, <2>6, <2>7
  <1>4. /\ namings' \in [Clients -> TagWork(s)]
        /\ \A q \in Clients :
             /\ namings'[q].job = "create" => namings'[q].name \in Names /\ namings'[q].on = None
             /\ namings'[q].job = "rename" => namings'[q].name \in Names /\ namings'[q].on \in Tags(s)!Rows
    BY <1>3 DEF TagInv, TagsTyped, TagWork
  <1> QED BY <1>1, <1>2, <1>4, SameNamesKeep

(* A commit: the new row, or the new name of a row.                           *)
LEMMA CommitTagCases ==
  ASSUME NEW s, TagsAssumed(s), TagInv(s), NEW r \in Clients, Tags(s)!CommitTag(r)
  PROVE  /\ links' = links /\ namings[r].job \in {"create", "rename"} /\ namings[r].name \in Names
         /\ \/ \E i \in Tags(s)!Ids, row \in Tags(s)!TagRows :
                 /\ tag' = [tag EXCEPT ![i] = row] /\ row.name = namings[r].name
                 /\ namings' = [namings EXCEPT ![r] = [job |-> "done", name |-> namings[r].name, on |-> i]]
                 /\ \A j \in Tags(s)!Rows \ {i} : tag[j].name # namings[r].name
                 /\ IF namings[r].job = "create" THEN i \notin Tags(s)!Rows ELSE i = namings[r].on
            \/ /\ tag' = tag
               /\ namings' = [namings EXCEPT ![r] = [job |-> "refused", name |-> namings[r].name, on |-> None]]
PROOF
  <1> DEFINE name == namings[r].name
             free == Tags(s)!Ids \ Tags(s)!Rows
             i == CHOOSE k \in free : \A j \in free : k <= j
  <1>1. links' = links /\ namings[r].job \in {"create", "rename"} /\ name \in Names
    BY DEF Tags!CommitTag, TagInv, TagsTyped
  <1>2. free # {} => i \in free
    <2> HAVE free # {}
    <2>1. free \in SUBSET Nat
      BY DEF Tags!Ids
    <2>2. \E k \in free : \A j \in free : k <= j
      BY <2>1, HasLeast
    <2> QED BY <2>2
  <1>3. CASE /\ namings[r].job = "create" /\ free # {} /\ Tags(s)!UniqueIndex(name, Tags(s)!Rows)
             /\ tag' = [tag EXCEPT ![i] = [name |-> name, active |-> TRUE]] /\ Tags(s)!Step(r, "done", name, i)
    BY <1>1, <1>2, <1>3 DEF Tags!UniqueIndex, Tags!Step, Tags!TagRows
  <1>4. CASE /\ namings[r].job = "rename" /\ Tags(s)!UniqueIndex(name, Tags(s)!Rows \ {namings[r].on})
             /\ tag' = [tag EXCEPT ![namings[r].on].name = name] /\ Tags(s)!Step(r, "done", name, namings[r].on)
    <2>1. PICK k \in Tags(s)!Ids : k = namings[r].on /\ tag[k] \in Tags(s)!TagRows
      BY <1>4 DEF TagInv, TagsTyped, Tags!Rows
    <2>2. PICK row \in Tags(s)!TagRows : row = [tag[k] EXCEPT !.name = name]
      BY <1>1, <2>1 DEF Tags!TagRows
    <2>3. tag' = [tag EXCEPT ![k] = row] /\ row.name = name
      BY <1>4, <2>1, <2>2 DEF Tags!TagRows
    <2> QED BY <1>1, <1>4, <2>1, <2>3 DEF Tags!UniqueIndex, Tags!Step
  <1>5. CASE ~Tags(s)!UniqueIndex(name, Tags(s)!Rows \ {namings[r].on}) /\ Tags(s)!Step(r, "refused", name, None)
             /\ UNCHANGED tag
    BY <1>1, <1>5 DEF Tags!Step
  <1> QED BY <1>3, <1>4, <1>5 DEF Tags!CommitTag

LEMMA TagsKeptCommit ==
  ASSUME NEW s, TagsAssumed(s), TagInv(s), NEW r \in Clients, Tags(s)!CommitTag(r)
  PROVE  TagInv(s)'
PROOF
  <1>1. CASE tag' = tag /\ links' = links /\
             namings' = [namings EXCEPT ![r] = [job |-> "refused", name |-> namings[r].name, on |-> None]]
    <2>1. SameNames(s) /\ links' \subseteq Tagged \X Tags(s)!Rows
      BY <1>1 DEF SameNames, TagInv, TagsTyped
    <2>2. namings' \in [Clients -> TagWork(s)]
      BY <1>1 DEF TagInv, TagsTyped, TagWork
    <2>3. \A q \in Clients :
             /\ namings'[q].job = "create" => namings'[q].name \in Names /\ namings'[q].on = None
             /\ namings'[q].job = "rename" => namings'[q].name \in Names /\ namings'[q].on \in Tags(s)!Rows
      BY <1>1 DEF TagInv, TagsTyped
    <2> QED BY <2>1, <2>2, <2>3, SameNamesKeep
  <1>2. ASSUME NEW i \in Tags(s)!Ids, NEW row \in Tags(s)!TagRows, links' = links,
               tag' = [tag EXCEPT ![i] = row], row.name = namings[r].name, namings[r].name \in Names,
               namings' = [namings EXCEPT ![r] = [job |-> "done", name |-> namings[r].name, on |-> i]],
               \A j \in Tags(s)!Rows \ {i} : tag[j].name # namings[r].name
        PROVE  TagInv(s)'
    <2>0. row # None
      BY DEF TagsAssumed, Tags!TagAssumption
    <2>1. tag' \in [Tags(s)!Ids -> Tags(s)!TagRows \cup {None}]
      BY <1>2 DEF TagInv, TagsTyped
    <2>2. Tags(s)!Rows' = Tags(s)!Rows \cup {i}
      BY <1>2, <2>0 DEF Tags!Rows, TagInv, TagsTyped
    <2>3. namings' \in [Clients -> TagWork(s)]
      BY <1>2 DEF TagInv, TagsTyped, TagWork
    <2>4. TagsTyped(s)'
      BY <1>2, <2>1, <2>2, <2>3 DEF TagInv, TagsTyped, TagWork, Tags!Ids, Tags!TagRows
    <2>5. Tags(s)!SpellingsDistinct'
      BY <1>2, <2>2 DEF TagInv, TagsTyped, Tags!SpellingsDistinct, Tags!Rows
    <2> QED BY <2>4, <2>5 DEF TagInv
  <1> QED BY <1>1, <1>2, CommitTagCases

LEMMA TagsKept ==
  ASSUME NEW s, TagsAssumed(s), TagInv(s), Tags(s)!Next \/ UNCHANGED tagVars
  PROVE  TagInv(s)'
PROOF
  <1>1. CASE UNCHANGED tagVars
    BY <1>1 DEF tagVars, TagInv, TagsTyped, TagWork, Tags!Ids, Tags!TagRows, Tags!Rows, Tags!SpellingsDistinct
  <1> QED BY <1>1, TagsKeptIdle, TagsKeptCommit DEF Tags!Next

(* Links go only when somebody removes them.                                  *)
LEMMA LinksKept ==
  ASSUME NEW s, TagsAssumed(s), TagInv(s), Tags(s)!Next \/ UNCHANGED tagVars
  PROVE  Tags(s)!LinksRemain
PROOF
  <1>1. ASSUME NEW r \in Clients, Tags(s)!RemoveTag(r) PROVE namings[r].job # "removed" /\ namings'[r].job = "removed"
    BY <1>1 DEF Tags!RemoveTag, Tags!MayStart, Tags!Step, TagInv, TagsTyped
  <1>2. ASSUME NEW r \in Clients, ~Tags(s)!RemoveTag(r), Tags(s)!Next PROVE links \subseteq links' \/ \E q \in Clients : Tags(s)!RemoveTag(q)
    BY <1>2 DEF Tags!Next, Tags!CreateTag, Tags!UpdateTag, Tags!CommitTag, Tags!DeactivateTag, Tags!AssignTag,
       Tags!KeepLinks
  <1>3. CASE UNCHANGED tagVars
    BY <1>3 DEF tagVars, Tags!LinksRemain
  <1>4. CASE Tags(s)!Next
    <2>1. links \subseteq links' \/ \E q \in Clients : Tags(s)!RemoveTag(q)
      BY <1>2, <1>4 DEF Tags!Next
    <2> QED BY <1>1, <2>1 DEF Tags!LinksRemain
  <1> QED BY <1>3, <1>4

(* One after another.                                                         *)
LEMMA TagsInTurnKept ==
  ASSUME NEW s, TagsAssumed(s), ~Together(s), TagInv(s), TagsInTurn(s), Tags(s)!Next \/ UNCHANGED tagVars
  PROVE  TagsInTurn(s)'
PROOF
  <1>0. TagInv(s)'
    BY TagsKept
  <1>1. CASE UNCHANGED tagVars
    BY <1>1 DEF tagVars, TagsInTurn, FoundFree, TakenBy, Tags!Rows, Tags!NamesDistinct
  <1>2. ASSUME NEW r \in Clients,
               \/ Tags(s)!CreateTag(r) \/ Tags(s)!UpdateTag(r) \/ Tags(s)!DeactivateTag(r)
               \/ Tags(s)!AssignTag(r) \/ Tags(s)!RemoveTag(r)
        PROVE  TagsInTurn(s)'
    <2>1. SameNames(s) /\ Tags(s)!Rows' = Tags(s)!Rows
      BY <1>2, TagsKeptIdle DEF SameNames, Tags!Rows
    <2>2. \A q \in Clients : namings[q].job \notin {"create", "rename"}
      BY <1>2 DEF Together, Tags!CreateTag, Tags!UpdateTag, Tags!DeactivateTag, Tags!AssignTag, Tags!RemoveTag,
         Tags!MayStart, Tags!Busy
    <2>3. \A q \in Clients \ {r} : namings'[q] = namings[q]
      BY <1>2 DEF Tags!CreateTag, Tags!UpdateTag, Tags!DeactivateTag, Tags!AssignTag, Tags!RemoveTag, Tags!Step,
         TagInv, TagsTyped
    <2>4. namings'[r].job \in {"create", "rename"} => ~ TakenBy(s, namings'[r].name, namings'[r].on)
      BY <1>2 DEF Tags!CreateTag, Tags!UpdateTag, Tags!DeactivateTag, Tags!AssignTag, Tags!RemoveTag, Tags!Step,
         TagInv, TagsTyped, TagsAssumed, Tags!TagAssumption, Tags!Taken, Tags!SameName, TakenBy, Tags!Rows, Tags!Ids
    <2>5. \A i \in Tags(s)!Rows : tag'[i].name = tag[i].name
      BY <2>1 DEF SameNames, Tags!Rows
    <2>6. FoundFree(s)'
      BY <2>1, <2>2, <2>3, <2>4, <2>5 DEF FoundFree, TakenBy
    <2>7. Tags(s)!NamesDistinct'
      BY <2>1, <2>5 DEF TagsInTurn, Tags!NamesDistinct
    <2> QED BY <2>6, <2>7 DEF TagsInTurn
  <1>3. ASSUME NEW r \in Clients, Tags(s)!CommitTag(r) PROVE TagsInTurn(s)'
    <2>1. namings[r].job \in {"create", "rename"} /\ links' = links
      BY <1>3, CommitTagCases
    <2>2. \A q \in Clients \ {r} : namings'[q] = namings[q] /\ namings[q].job \notin {"create", "rename"}
      BY <1>3, <2>1, CommitTagCases DEF TagsInTurn, FoundFree, TagInv, TagsTyped
    <2>3. namings'[r].job \notin {"create", "rename"}
      BY <1>3, CommitTagCases DEF TagInv, TagsTyped
    <2>4. FoundFree(s)'
      BY <2>2, <2>3 DEF FoundFree
    <2>5. ~ TakenBy(s, namings[r].name, namings[r].on)
      BY <2>1 DEF TagsInTurn, FoundFree
    <2>6. ASSUME NEW i \in Tags(s)!Ids, NEW row \in Tags(s)!TagRows,
                 tag' = [tag EXCEPT ![i] = row], row.name = namings[r].name,
                 IF namings[r].job = "create" THEN i \notin Tags(s)!Rows ELSE i = namings[r].on
          PROVE  Tags(s)!NamesDistinct'
      <3>1. \A j \in Tags(s)!Rows \ {i} : LowerCase[tag[j].name] # LowerCase[row.name]
        BY <2>1, <2>5, <2>6 DEF TakenBy, TagInv, TagsTyped, TagsAssumed, Tags!TagAssumption, Tags!Rows, Tags!Ids
      <3>2. /\ tag'[i] = row /\ \A j \in Tags(s)!Ids \ {i} : tag'[j] = tag[j]
            /\ Tags(s)!Rows' \subseteq Tags(s)!Rows \cup {i}
        BY <2>6 DEF TagInv, TagsTyped, Tags!Rows
      <3> QED BY <3>1, <3>2 DEF TagsInTurn, Tags!NamesDistinct, Tags!Rows
    <2>7. tag' = tag => Tags(s)!NamesDistinct'
      BY DEF TagsInTurn, Tags!NamesDistinct, Tags!Rows
    <2> QED BY <1>3, <2>4, <2>6, <2>7, CommitTagCases DEF TagsInTurn
  <1> QED BY <1>1, <1>2, <1>3 DEF Tags!Next

(* On the desk: a setting differs from another in what may happen, not in     *)
(* what a state is.                                                           *)
LEMMA SameTags ==
  ASSUME NEW s, NEW z
  PROVE  /\ TagInv(s) => TagInv(z)
         /\ TagsInTurn(s) => TagsInTurn(z)
         /\ Tags(s)!LinksRemain => Tags(z)!LinksRemain
  BY DEF TagInv, TagsTyped, TagWork, Tags!Ids, Tags!TagRows, Tags!Rows, Tags!SpellingsDistinct, TagsInTurn,
     FoundFree, TakenBy, Tags!NamesDistinct, Tags!LinksRemain

LEMMA SameTagsNext ==
  ASSUME NEW s, NEW z
  PROVE  /\ TagInv(s)' => TagInv(z)'
         /\ TagsInTurn(s)' => TagsInTurn(z)'
  BY DEF TagInv, TagsTyped, TagWork, Tags!Ids, Tags!TagRows, Tags!Rows, Tags!SpellingsDistinct, TagsInTurn,
     FoundFree, TakenBy, Tags!NamesDistinct

LEMMA TagAssumptions ==
  /\ TagsAssumed("together") /\ TagsAssumed("in order") /\ TagsAssumed("categories")
  /\ Together("together") /\ ~Together("in order") /\ ~Together("categories")
PROOF
  <1>1. /\ "together" \in {"together", "in order", "categories"} /\ "in order" \in {"together", "in order", "categories"}
        /\ "categories" \in {"together", "in order", "categories"}
        /\ "in order" # "together" /\ "categories" # "together"
    OBVIOUS
  <1> QED BY <1>1, DeskAssumption, Zenon DEF DeskAssumption, TagsAssumed, Together

TagsOnDesk == TagInv("together") /\ (desk \in {"tags", "categories"} => TagsInTurn("together"))

LEMMA TagsOnDeskFirst == DeskInit => TagsOnDesk
PROOF
  <1> SUFFICES ASSUME DeskInit PROVE TagsOnDesk
    OBVIOUS
  <1>1. Tags("in order")!Init
    BY DEF DeskInit
  <1>2. TagInv("in order") /\ TagsInTurn("in order")
    BY <1>1, TagAssumptions, TagsFirst, Zenon
  <1> QED BY <1>2, SameTags, Zenon DEF TagsOnDesk

LEMMA TagSteps ==
  ASSUME [DeskNext]_deskVars
  PROVE  /\ desk' = desk
         /\ \/ UNCHANGED tagVars
            \/ desk = "tags together" /\ Tags("together")!Next
            \/ desk = "tags" /\ Tags("in order")!Next
            \/ desk = "categories" /\ Tags("categories")!Next
PROOF
  BY Zenon DEF DeskNext, deskVars, QuotationStep, FollowupStep, CustomerStep, IntakeStep, TagStep

LEMMA TagsOnDeskStay ==
  ASSUME TagsOnDesk, [DeskNext]_deskVars
  PROVE  TagsOnDesk' /\ Tags("together")!LinksRemain
PROOF
  <1>0. TagInv("together") /\ TagInv("in order") /\ TagInv("categories")
    BY SameTags, Zenon DEF TagsOnDesk
  <1>1. desk' = desk
    BY TagSteps
  <1>2. ASSUME NEW s, TagsAssumed(s), ~Together(s), Tags(s)!Next \/ UNCHANGED tagVars,
               TagsInTurn("together"), TagInv(s)
        PROVE  TagsInTurn("together")'
    <2>1. TagsInTurn(s)
      BY <1>2, SameTags, Zenon
    <2>2. TagsInTurn(s)'
      BY <1>2, <2>1, TagsInTurnKept, Zenon
    <2> QED BY <2>2, SameTagsNext, Zenon
  <1>3. CASE UNCHANGED tagVars
    <2>1. TagInv("together")' /\ Tags("together")!LinksRemain
      BY <1>0, <1>3, TagAssumptions, TagsKept, LinksKept, Zenon
    <2>2. TagsInTurn("together") => TagsInTurn("together")'
      BY <1>0, <1>2, <1>3, TagAssumptions, Zenon
    <2> QED BY <1>1, <2>1, <2>2, Zenon DEF TagsOnDesk
  <1>4. CASE desk = "tags together" /\ Tags("together")!Next
    <2>1. TagInv("together")' /\ Tags("together")!LinksRemain
      BY <1>0, <1>4, TagAssumptions, TagsKept, LinksKept, Zenon
    <2>2. desk' \notin {"tags", "categories"}
      BY <1>1, <1>4
    <2> QED BY <2>1, <2>2, Zenon DEF TagsOnDesk
  <1>5. ASSUME NEW s, TagsAssumed(s), ~Together(s), TagInv(s), Tags(s)!Next, desk \in {"tags", "categories"}
        PROVE  TagsOnDesk' /\ Tags("together")!LinksRemain
    <2>1. TagInv(s)' /\ Tags(s)!LinksRemain
      BY <1>5, TagsKept, LinksKept, Zenon
    <2>2. TagsInTurn("together")'
      BY <1>2, <1>5, Zenon DEF TagsOnDesk
    <2> QED BY <2>1, <2>2, SameTags, SameTagsNext, Zenon DEF TagsOnDesk
  <1>6. (desk = "tags" \/ desk = "categories") => desk \in {"tags", "categories"}
    OBVIOUS
  <1> QED BY <1>0, <1>3, <1>4, <1>5, <1>6, TagSteps, TagAssumptions, Zenon

(* Requests together or one after another, tags of one spelling are never     *)
(* made; one after another, tags and categories differ by more than their     *)
(* case.  For any names, lower case of them and bound on the tags.            *)
THEOREM NamesAlwaysDiffer == DeskSpec => []NamesDiffer
PROOF
  <1>1. TagsOnDesk => NamesDiffer
    <2> SUFFICES ASSUME TagsOnDesk PROVE NamesDiffer
      OBVIOUS
    <2>1. TagInv("together") => Tags("together")!TypeOK
      BY DEF TagInv, TagsTyped, TagWork, Tags!TypeOK, Tags!Rows
    <2>2. TagsInTurn("together") => Tags("in order")!NamesDistinct
      BY SameTags, Zenon DEF TagsInTurn
    <2> QED BY <2>1, <2>2, Zenon DEF TagsOnDesk, TagInv, NamesDiffer
  <1>2. TagsOnDesk /\ [DeskNext]_deskVars => TagsOnDesk'
    BY TagsOnDeskStay
  <1> QED BY <1>1, <1>2, TagsOnDeskFirst, PTL DEF DeskSpec
-----------------------------------------------------------------------------
(* Inquiries, in any setting s.  A customer made by one has its contact.      *)
Intake == {"email", "names", "create"}
IntakeWork(s) ==
  [job : Intake \cup {"idle", "done"}, inquiry : Inquiries(s)!InquiryType \cup {None},
   answer : Inquiries(s)!Ids \cup {None}]

IntakeTyped(s) ==
  /\ enquirer \in [Inquiries(s)!Ids -> Inquiries(s)!Columns \cup {None}]
  /\ reached \subseteq Inquiries(s)!Ids /\ lastId \in 0..MaxEnquirers
  /\ inquiries \in [Pair -> IntakeWork(s)]
  /\ \A r \in Pair : inquiries[r].job \in Intake => inquiries[r].inquiry \in Inquiries(s)!InquiryType

IntakeInv(s) ==
  /\ IntakeTyped(s)
  /\ \A i \in Inquiries(s)!Rows : enquirer[i].source = "Alibaba" => i \in reached

(* One after another, what a look-up did not find is still not there.         *)
IntakeInTurn(s) ==
  \A r \in Pair : inquiries[r].job \in Intake =>
    /\ \A q \in Pair \ {r} : inquiries[q].job \notin Intake
    /\ inquiries[r].job # "email" => Inquiries(s)!ByEmail(inquiries[r].inquiry) = {}
    /\ inquiries[r].job = "create" => Inquiries(s)!ByNames(inquiries[r].inquiry) = {}

IntakeAssumed(s) == Inquiries(s)!IntakeAssumption

LEMMA IntakeFirst ==
  ASSUME NEW s, IntakeAssumed(s), Inquiries(s)!Init
  PROVE  IntakeInv(s) /\ IntakeInTurn(s)
  BY DEF IntakeInv, IntakeInTurn, IntakeTyped, IntakeWork, Intake, IntakeAssumed, Inquiries!IntakeAssumption,
     Inquiries!Init, Inquiries!NoRequest, Inquiries!Rows, Inquiries!Ids

(* A request that goes on to job with an answer.                              *)
LEMMA IntakeGoesOn ==
  ASSUME NEW s, IntakeInv(s), NEW r \in Pair, NEW what \in Intake \cup {"idle", "done"},
         NEW a \in Inquiries(s)!Ids \cup {None}, Inquiries(s)!Step(r, what, a)
  PROVE  /\ inquiries' \in [Pair -> IntakeWork(s)]
         /\ inquiries'[r].job = what /\ inquiries'[r].inquiry = inquiries[r].inquiry
         /\ \A q \in Pair \ {r} : inquiries'[q] = inquiries[q]
PROOF
  <1>1. inquiries[r] \in IntakeWork(s) /\ inquiries \in [Pair -> IntakeWork(s)]
    BY DEF IntakeInv, IntakeTyped
  <1>2. PICK w \in IntakeWork(s) : w = [[inquiries[r] EXCEPT !.job = what] EXCEPT !.answer = a]
    BY <1>1 DEF IntakeWork
  <1>3. inquiries' = [inquiries EXCEPT ![r] = w]
    BY <1>1, <1>2 DEF Inquiries!Step
  <1>4. w.job = what /\ w.inquiry = inquiries[r].inquiry
    BY <1>1, <1>2 DEF IntakeWork
  <1> QED BY <1>1, <1>3, <1>4

LEMMA LeastFound ==
  ASSUME NEW s, NEW S \in SUBSET Inquiries(s)!Ids, S # {}
  PROVE  Inquiries(s)!Min(S) \in S
PROOF
  <1>1. \E k \in S : \A j \in S : k <= j
    BY HasLeast DEF Inquiries!Ids
  <1> QED BY <1>1 DEF Inquiries!Min

(* What each step does to the customers and to its request.                   *)
LEMMA LookedUp ==
  ASSUME NEW s, IntakeInv(s), NEW r \in Pair, Inquiries(s)!FindByEmail(r) \/ Inquiries(s)!FindByNames(r)
  PROVE  /\ UNCHANGED <<enquirer, reached, lastId>>
         /\ inquiries[r].job \in Intake
         /\ \E what \in {"names", "create", "done"}, a \in Inquiries(s)!Ids \cup {None} :
              /\ Inquiries(s)!Step(r, what, a)
              /\ what = "names" => Inquiries(s)!ByEmail(inquiries[r].inquiry) = {}
              /\ what = "create" => inquiries[r].job = "names" /\ Inquiries(s)!ByNames(inquiries[r].inquiry) = {}
PROOF
  <1>1. ASSUME NEW q PROVE Inquiries(s)!ByEmail(q) \subseteq Inquiries(s)!Ids /\ Inquiries(s)!ByNames(q) \subseteq Inquiries(s)!Ids
    BY DEF Inquiries!ByEmail, Inquiries!ByNames, Inquiries!Rows
  <1>2. CASE Inquiries(s)!FindByEmail(r)
    BY <1>1, <1>2, LeastFound DEF Inquiries!FindByEmail, Intake
  <1>3. CASE Inquiries(s)!FindByNames(r)
    BY <1>1, <1>3, LeastFound DEF Inquiries!FindByNames, Intake
  <1> QED BY <1>2, <1>3

(* A new customer is written under a new id; a deleted one had no contact.    *)
LEMMA IntakeMade ==
  ASSUME NEW s, IntakeAssumed(s), IntakeInv(s), NEW r \in Pair,
         \/ Inquiries(s)!CreateFromInquiry(r) \/ Inquiries(s)!StaffCreate(r) \/ Inquiries(s)!StaffDelete(r)
  PROVE  /\ IntakeInv(s)' /\ Inquiries(s)!IntakeStays
         /\ inquiries'[r].job = "done" /\ \A q \in Pair \ {r} : inquiries'[q] = inquiries[q]
PROOF
  <1>1. PICK a \in Inquiries(s)!Ids \cup {None} : Inquiries(s)!Step(r, "done", a)
    <2>1. lastId < MaxEnquirers => lastId + 1 \in Inquiries(s)!Ids
      BY DEF Inquiries!Ids, IntakeInv, IntakeTyped, IntakeAssumed, Inquiries!IntakeAssumption
    <2>2. CASE Inquiries(s)!CreateFromInquiry(r)
      BY <2>1, <2>2 DEF Inquiries!CreateFromInquiry
    <2>3. CASE Inquiries(s)!StaffCreate(r) \/ Inquiries(s)!StaffDelete(r)
      BY <2>3 DEF Inquiries!StaffCreate, Inquiries!StaffDelete
    <2> QED BY <2>2, <2>3
  <1>2. /\ inquiries' \in [Pair -> IntakeWork(s)] /\ inquiries'[r].job = "done"
        /\ \A q \in Pair \ {r} : inquiries'[q] = inquiries[q]
    BY <1>1, IntakeGoesOn
  <1>3. \A q \in Pair : inquiries'[q].job \in Intake => inquiries'[q].inquiry \in Inquiries(s)!InquiryType
    BY <1>2 DEF IntakeInv, IntakeTyped, Intake
  <1>4. CASE Inquiries(s)!CreateFromInquiry(r) \/ Inquiries(s)!StaffCreate(r)
    <2>1. PICK i \in Inquiries(s)!Ids, row \in Inquiries(s)!Columns :
            /\ enquirer' = [enquirer EXCEPT ![i] = row] /\ lastId' \in 0..MaxEnquirers
            /\ reached \subseteq reached' /\ reached' \subseteq reached \cup {i}
            /\ row.source = "Alibaba" => i \in reached'
      <3>1. lastId < MaxEnquirers => lastId + 1 \in Inquiries(s)!Ids /\ lastId + 1 \in 0..MaxEnquirers
        BY DEF Inquiries!Ids, IntakeInv, IntakeTyped, IntakeAssumed, Inquiries!IntakeAssumption
      <3>2. CASE Inquiries(s)!CreateFromInquiry(r)
        <4>1. inquiries[r].inquiry \in Inquiries(s)!InquiryType
          BY <3>2 DEF Inquiries!CreateFromInquiry, IntakeInv, IntakeTyped, Intake
        <4>2. Inquiries(s)!Row(inquiries[r].inquiry, "Alibaba") \in Inquiries(s)!Columns
          BY <4>1 DEF Inquiries!Row, Inquiries!Columns, Inquiries!InquiryType, Inquiries!Sources
        <4> QED BY <3>1, <3>2, <4>2 DEF Inquiries!CreateFromInquiry, Inquiries!FirstContact
      <3>3. CASE Inquiries(s)!StaffCreate(r)
        <4>1. ASSUME NEW q \in Inquiries(s)!InquiryType
              PROVE  Inquiries(s)!Row(q, "staff") \in Inquiries(s)!Columns /\ Inquiries(s)!Row(q, "staff").source # "Alibaba"
          BY DEF Inquiries!Row, Inquiries!Columns, Inquiries!InquiryType, Inquiries!Sources
        <4> QED BY <3>1, <3>3, <4>1 DEF Inquiries!StaffCreate
      <3> QED BY <1>4, <3>2, <3>3
    <2>2. row # None
      BY DEF IntakeAssumed, Inquiries!IntakeAssumption
    <2>3. enquirer'[i] = row /\ \A j \in Inquiries(s)!Ids \ {i} : enquirer'[j] = enquirer[j]
      BY <2>1 DEF IntakeInv, IntakeTyped
    <2>4. IntakeTyped(s)'
      BY <1>2, <1>3, <2>1 DEF IntakeInv, IntakeTyped, IntakeWork, Inquiries!Ids, Inquiries!Columns, Inquiries!InquiryType, Inquiries!Sources
    <2>5. \A j \in Inquiries(s)!Rows' : enquirer'[j].source = "Alibaba" => j \in reached'
      BY <2>1, <2>3 DEF IntakeInv, Inquiries!Rows, Inquiries!Ids
    <2>6. Inquiries(s)!IntakeStays
      BY <2>2, <2>3 DEF Inquiries!IntakeStays, Inquiries!Rows
    <2> QED BY <1>2, <2>4, <2>5, <2>6 DEF IntakeInv
  <1>5. CASE Inquiries(s)!StaffDelete(r)
    <2>1. PICK i \in Inquiries(s)!Rows \ reached : enquirer' = [enquirer EXCEPT ![i] = None] /\ UNCHANGED <<reached, lastId>>
      BY <1>5 DEF Inquiries!StaffDelete, Inquiries!Deletable
    <2>2. enquirer'[i] = None /\ \A j \in Inquiries(s)!Ids \ {i} : enquirer'[j] = enquirer[j]
      BY <2>1 DEF IntakeInv, IntakeTyped, Inquiries!Rows
    <2>3. IntakeTyped(s)'
      BY <1>2, <1>3, <2>1 DEF IntakeInv, IntakeTyped, IntakeWork, Inquiries!Ids, Inquiries!Columns, Inquiries!InquiryType, Inquiries!Sources
    <2>4. \A j \in Inquiries(s)!Rows' : enquirer'[j].source = "Alibaba" => j \in reached'
      BY <2>1, <2>2 DEF IntakeInv, Inquiries!Rows, Inquiries!Ids
    <2>5. Inquiries(s)!IntakeStays
      BY <2>1, <2>2 DEF IntakeInv, Inquiries!IntakeStays, Inquiries!Rows
    <2> QED BY <1>2, <2>3, <2>4, <2>5 DEF IntakeInv
  <1> QED BY <1>4, <1>5

LEMMA IntakeAsked ==
  ASSUME NEW s, IntakeInv(s), NEW r \in Pair,
         Inquiries(s)!ReceiveInquiry(r) \/ Inquiries(s)!FindByEmail(r) \/ Inquiries(s)!FindByNames(r)
  PROVE  /\ IntakeInv(s)' /\ Inquiries(s)!IntakeStays /\ enquirer' = enquirer
         /\ \A q \in Pair \ {r} : inquiries'[q] = inquiries[q]
PROOF
  <1>1. /\ UNCHANGED <<enquirer, reached, lastId>>
        /\ inquiries' \in [Pair -> IntakeWork(s)] /\ \A q \in Pair \ {r} : inquiries'[q] = inquiries[q]
        /\ inquiries'[r].job \in Intake => inquiries'[r].inquiry \in Inquiries(s)!InquiryType
    <2>1. CASE Inquiries(s)!ReceiveInquiry(r)
      BY <2>1 DEF Inquiries!ReceiveInquiry, IntakeInv, IntakeTyped, IntakeWork, Intake
    <2>2. CASE Inquiries(s)!FindByEmail(r) \/ Inquiries(s)!FindByNames(r)
      <3>1. PICK what \in {"names", "create", "done"}, a \in Inquiries(s)!Ids \cup {None} : Inquiries(s)!Step(r, what, a)
        BY <2>2, LookedUp
      <3>2. what \in Intake \cup {"idle", "done"}
        BY DEF Intake
      <3>3. inquiries[r].inquiry \in Inquiries(s)!InquiryType /\ UNCHANGED <<enquirer, reached, lastId>>
        BY <2>2, LookedUp DEF IntakeInv, IntakeTyped
      <3> QED BY <3>1, <3>2, <3>3, IntakeGoesOn
    <2> QED BY <2>1, <2>2
  <1>2. IntakeTyped(s)'
    BY <1>1 DEF IntakeInv, IntakeTyped, IntakeWork, Inquiries!Ids, Inquiries!Columns, Inquiries!InquiryType, Inquiries!Sources
  <1>3. Inquiries(s)!Rows' = Inquiries(s)!Rows
    BY <1>1 DEF Inquiries!Rows
  <1> QED BY <1>1, <1>2, <1>3 DEF IntakeInv, Inquiries!IntakeStays, Inquiries!Rows, Inquiries!Ids

LEMMA IntakeKept ==
  ASSUME NEW s, IntakeAssumed(s), IntakeInv(s), Inquiries(s)!Next \/ UNCHANGED intakeVars
  PROVE  IntakeInv(s)' /\ Inquiries(s)!IntakeStays
PROOF
  <1>1. CASE UNCHANGED intakeVars
    BY <1>1 DEF intakeVars, IntakeInv, IntakeTyped, IntakeWork, Inquiries!Ids, Inquiries!Columns, Inquiries!InquiryType,
       Inquiries!Sources, Inquiries!Rows, Inquiries!IntakeStays
  <1> QED BY <1>1, IntakeMade, IntakeAsked DEF Inquiries!Next

(* One after another: what was looked up is still so, and the customer an     *)
(* inquiry makes is the only one that matches it.                             *)
LEMMA IntakeInTurnKept ==
  ASSUME NEW s, IntakeAssumed(s), ~Together(s), IntakeInv(s), IntakeInTurn(s), Inquiries(s)!Next \/ UNCHANGED intakeVars
  PROVE  IntakeInTurn(s)' /\ Inquiries(s)!OneOfAKind
PROOF
  <1>1. CASE UNCHANGED intakeVars
    BY <1>1 DEF intakeVars, IntakeInTurn, Inquiries!ByEmail, Inquiries!ByNames, Inquiries!SqlSame, Inquiries!Rows, Inquiries!OneOfAKind
  <1>2. ASSUME NEW r \in Pair, Inquiries(s)!MayStart(r) PROVE \A q \in Pair : inquiries[q].job \notin Intake
    BY <1>2 DEF Together, Inquiries!MayStart, Inquiries!Busy, Intake
  <1>3. ASSUME NEW r \in Pair, Inquiries(s)!ReceiveInquiry(r) PROVE IntakeInTurn(s)' /\ Inquiries(s)!OneOfAKind
    <2>1. inquiries'[r].job = "email" /\ \A q \in Pair \ {r} : inquiries'[q].job \notin Intake
      BY <1>2, <1>3, IntakeAsked DEF Inquiries!ReceiveInquiry, IntakeInv, IntakeTyped
    <2>2. enquirer' = enquirer
      BY <1>3, IntakeAsked
    <2> QED BY <2>1, <2>2 DEF IntakeInTurn, Inquiries!OneOfAKind
  <1>4. ASSUME NEW r \in Pair, Inquiries(s)!FindByEmail(r) \/ Inquiries(s)!FindByNames(r)
        PROVE  IntakeInTurn(s)' /\ Inquiries(s)!OneOfAKind
    <2>1. /\ inquiries[r].job \in Intake /\ enquirer' = enquirer
          /\ \A q \in Pair \ {r} : inquiries'[q] = inquiries[q] /\ inquiries[q].job \notin Intake
      BY <1>4, LookedUp, IntakeAsked DEF IntakeInTurn
    <2>2. PICK what \in {"names", "create", "done"}, a \in Inquiries(s)!Ids \cup {None} :
              /\ Inquiries(s)!Step(r, what, a)
              /\ what = "names" => Inquiries(s)!ByEmail(inquiries[r].inquiry) = {}
              /\ what = "create" => inquiries[r].job = "names" /\ Inquiries(s)!ByNames(inquiries[r].inquiry) = {}
      BY <1>4, LookedUp
    <2>3. what \in Intake \cup {"idle", "done"}
      BY DEF Intake
    <2>4. inquiries'[r].job = what /\ inquiries'[r].inquiry = inquiries[r].inquiry
      BY <2>2, <2>3, IntakeGoesOn
    <2>5. what \in Intake => Inquiries(s)!ByEmail(inquiries[r].inquiry) = {}
      BY <2>1, <2>2 DEF IntakeInTurn, Intake
    <2>6. ASSUME NEW q
          PROVE  Inquiries(s)!ByEmail(q)' = Inquiries(s)!ByEmail(q) /\ Inquiries(s)!ByNames(q)' = Inquiries(s)!ByNames(q)
      BY <2>1 DEF Inquiries!ByEmail, Inquiries!ByNames, Inquiries!SqlSame, Inquiries!Rows
    <2>7. IntakeInTurn(s)'
      <3>1. PICK q : q = inquiries[r].inquiry
        OBVIOUS
      <3>2. /\ \A k \in Pair \ {r} : inquiries'[k].job \notin Intake
            /\ inquiries'[r].job \in Intake =>
                 /\ Inquiries(s)!ByEmail(q)' = {}
                 /\ inquiries'[r].job = "create" => Inquiries(s)!ByNames(q)' = {}
            /\ inquiries'[r].inquiry = q
        BY <2>1, <2>2, <2>4, <2>5, <2>6, <3>1
      <3> QED BY <3>2 DEF IntakeInTurn
    <2> QED BY <2>1, <2>7 DEF Inquiries!OneOfAKind
  <1>5. ASSUME NEW r \in Pair, Inquiries(s)!CreateFromInquiry(r) PROVE IntakeInTurn(s)' /\ Inquiries(s)!OneOfAKind
    <2>1. \A q \in Pair : inquiries'[q].job \notin Intake
      BY <1>5, IntakeMade DEF IntakeInTurn, Inquiries!CreateFromInquiry, Intake
    <2>2. PICK q \in Inquiries(s)!InquiryType : q = inquiries[r].inquiry
      BY <1>5 DEF Inquiries!CreateFromInquiry, IntakeInv, IntakeTyped, Intake
    <2>3. Inquiries(s)!ByEmail(q) = {} /\ Inquiries(s)!ByNames(q) = {}
      BY <1>5, <2>2 DEF Inquiries!CreateFromInquiry, IntakeInTurn, Intake
    <2>4. ASSUME NEW j \in Inquiries(s)!Rows PROVE ~Inquiries(s)!Matches(enquirer[j], Inquiries(s)!Row(q, "Alibaba"))
      BY <2>2, <2>3 DEF Inquiries!Matches, Inquiries!SameText, Inquiries!ByEmail, Inquiries!ByNames, Inquiries!SqlSame,
         Inquiries!Row, Inquiries!InquiryType, IntakeAssumed, Inquiries!IntakeAssumption
    <2>5. ASSUME NEW i \in Inquiries(s)!Ids, enquirer[i] = None, enquirer'[i] # None
          PROVE  enquirer'[i] = Inquiries(s)!Row(q, "Alibaba")
      BY <1>5, <2>2, <2>5 DEF Inquiries!CreateFromInquiry, IntakeInv, IntakeTyped
    <2> QED BY <2>1, <2>4, <2>5 DEF IntakeInTurn, Inquiries!OneOfAKind
  <1>6. ASSUME NEW r \in Pair, Inquiries(s)!StaffCreate(r) \/ Inquiries(s)!StaffDelete(r)
        PROVE  IntakeInTurn(s)' /\ Inquiries(s)!OneOfAKind
    <2>1. \A q \in Pair : inquiries'[q].job \notin Intake
      BY <1>2, <1>6, IntakeMade DEF Inquiries!StaffCreate, Inquiries!StaffDelete, Intake
    <2>2. ASSUME NEW i \in Inquiries(s)!Ids, enquirer[i] = None, enquirer'[i] # None
          PROVE  enquirer'[i].source # "Alibaba"
      BY <1>6, <2>2 DEF Inquiries!StaffCreate, Inquiries!StaffDelete, Inquiries!Row, IntakeInv, IntakeTyped
    <2> QED BY <2>1, <2>2 DEF IntakeInTurn, Inquiries!OneOfAKind
  <1> QED BY <1>1, <1>3, <1>4, <1>5, <1>6 DEF Inquiries!Next

(* On the desk.                                                               *)
LEMMA SameIntake ==
  ASSUME NEW s, NEW z
  PROVE  /\ IntakeInv(s) => IntakeInv(z)
         /\ IntakeInTurn(s) => IntakeInTurn(z)
         /\ Inquiries(s)!IntakeStays => Inquiries(z)!IntakeStays
  BY DEF IntakeInv, IntakeTyped, IntakeWork, Inquiries!Ids, Inquiries!Columns, Inquiries!InquiryType, Inquiries!Sources,
     Inquiries!Rows, IntakeInTurn, Inquiries!ByEmail, Inquiries!ByNames, Inquiries!SqlSame, Inquiries!IntakeStays

LEMMA SameIntakeNext ==
  ASSUME NEW s, NEW z, IntakeInv(s)'
  PROVE  IntakeInv(z)'
  BY DEF IntakeInv, IntakeTyped, IntakeWork, Inquiries!Ids, Inquiries!Columns, Inquiries!InquiryType, Inquiries!Sources,
     Inquiries!Rows

LEMMA IntakeAssumptions == IntakeAssumed("together") /\ IntakeAssumed("in order") /\ ~Together("in order")
PROOF
  <1>1. /\ "together" \in {"together", "in order", "categories"} /\ "in order" \in {"together", "in order", "categories"}
        /\ "in order" # "together"
    OBVIOUS
  <1> QED BY <1>1, DeskAssumption, Zenon DEF DeskAssumption, IntakeAssumed, Together

IntakeOnDesk == IntakeInv("together") /\ (desk = "inquiries" => IntakeInTurn("in order"))

LEMMA IntakeOnDeskFirst == DeskInit => IntakeOnDesk
PROOF
  <1> SUFFICES ASSUME DeskInit PROVE IntakeOnDesk
    OBVIOUS
  <1>1. Inquiries("in order")!Init
    BY DEF DeskInit
  <1>2. IntakeInv("in order") /\ IntakeInTurn("in order")
    BY <1>1, IntakeAssumptions, IntakeFirst, Zenon
  <1> QED BY <1>2, SameIntake, Zenon DEF IntakeOnDesk

LEMMA IntakeSteps ==
  ASSUME [DeskNext]_deskVars
  PROVE  /\ desk' = desk
         /\ \/ UNCHANGED intakeVars
            \/ desk = "inquiries together" /\ Inquiries("together")!Next
            \/ desk = "inquiries" /\ Inquiries("in order")!Next
PROOF
  BY Zenon DEF DeskNext, deskVars, QuotationStep, FollowupStep, CustomerStep, IntakeStep, TagStep

LEMMA IntakeOnDeskStay ==
  ASSUME IntakeOnDesk, [DeskNext]_deskVars
  PROVE  /\ IntakeOnDesk' /\ Inquiries("together")!IntakeStays
         /\ desk = "inquiries" => Inquiries("in order")!OneOfAKind
PROOF
  <1>0. IntakeInv("together") /\ IntakeInv("in order")
    BY SameIntake, Zenon DEF IntakeOnDesk
  <1>1. desk' = desk
    BY IntakeSteps
  <1>2. CASE UNCHANGED intakeVars
    <2>1. IntakeInv("together")' /\ Inquiries("together")!IntakeStays
      BY <1>0, <1>2, IntakeAssumptions, IntakeKept, Zenon
    <2>2. desk = "inquiries" => IntakeInTurn("in order")' /\ Inquiries("in order")!OneOfAKind
      BY <1>0, <1>2, IntakeAssumptions, IntakeInTurnKept, Zenon DEF IntakeOnDesk
    <2> QED BY <1>1, <2>1, <2>2, Zenon DEF IntakeOnDesk
  <1>3. CASE desk = "inquiries together" /\ Inquiries("together")!Next
    <2>1. IntakeInv("together")' /\ Inquiries("together")!IntakeStays
      BY <1>0, <1>3, IntakeAssumptions, IntakeKept, Zenon
    <2>2. desk' # "inquiries" /\ desk # "inquiries"
      BY <1>1, <1>3
    <2> QED BY <2>1, <2>2, Zenon DEF IntakeOnDesk
  <1>4. CASE desk = "inquiries" /\ Inquiries("in order")!Next
    <2>1. IntakeInv("in order")' /\ Inquiries("in order")!IntakeStays
      BY <1>0, <1>4, IntakeAssumptions, IntakeKept, Zenon
    <2>2. IntakeInTurn("in order")' /\ Inquiries("in order")!OneOfAKind
      BY <1>0, <1>4, IntakeAssumptions, IntakeInTurnKept, Zenon DEF IntakeOnDesk
    <2> QED BY <2>1, <2>2, SameIntake, SameIntakeNext, Zenon DEF IntakeOnDesk
  <1> QED BY <1>2, <1>3, <1>4, IntakeSteps, Zenon

(* Inquiries one after another make no customer that another matches, by      *)
(* e-mail or by company and contact, whatever staff create and delete in      *)
(* between: what a look-up did not find is still not there when the customer  *)
(* is made.  For any texts and any lower case of them.                        *)
THEOREM InquiriesMakeNoTwin == DeskSpec => NoTwinIntake
PROOF
  <1>1. IntakeOnDesk /\ [DeskNext]_deskVars => IntakeOnDesk'
    BY IntakeOnDeskStay
  <1>2. IntakeOnDesk /\ [DeskNext]_deskVars => [desk = "inquiries" => Inquiries("in order")!OneOfAKind]_deskVars
    BY IntakeOnDeskStay
  <1> QED BY <1>1, <1>2, IntakeOnDeskFirst, PTL DEF DeskSpec, NoTwinIntake
-----------------------------------------------------------------------------
(* Customer records, in any setting s.                                        *)
ScoresOf(s) == IF s = "together" THEN FewScores ELSE Scores
StagesOf(s) == IF s = "together" THEN Stages ELSE FewStages

AtWork == {"write", "history", "delete", "import"}
ProfileWork(s) ==
  [job : Profiles(s)!Jobs, on : Pair \cup {None}, seen : Profiles(s)!RowType,
   entry : Profiles(s)!ScoreEntries \cup {None}]

(* What every row, also one that was read, and every pending entry is.        *)
OneStage(row) == row.status = row.stage
ProperWork(s, w) ==
  /\ OneStage(w.seen)
  /\ w.job \in AtWork => w.on \in Pair
  /\ w.job = "history" => w.entry \in Profiles(s)!ScoreEntries

ProfilesTyped(s) ==
  /\ customer \in [Pair -> Profiles(s)!RowType \cup {None}]
  /\ scores \in [Pair -> Seq(Profiles(s)!ScoreEntries)] /\ moves \in [Pair -> Seq(Profiles(s)!StageEntries)]
  /\ contacts \subseteq Pair /\ imported \subseteq Pair
  /\ edits \in [Clients -> ProfileWork(s)]
  /\ \A r \in Clients : ProperWork(s, edits[r])

(* The stage history ends at the stage shown, but for an import, and a        *)
(* customer that is not there has none.                                       *)
StageTold(row, h, moved) ==
  IF row = None THEN h = <<>> ELSE OneStage(row) /\ (h # <<>> /\ ~moved => h[Len(h)].new = row.stage)

ProfileInv(s) == ProfilesTyped(s) /\ \A c \in Pair : StageTold(customer[c], moves[c], c \in imported)

ProfilesAssumed(s) == Profiles(s)!RecordsAssumption

LEMMA FreshRow ==
  ASSUME NEW s, ProfilesAssumed(s)
  PROVE  /\ Profiles(s)!Fresh \in Profiles(s)!RowType /\ OneStage(Profiles(s)!Fresh)
         /\ Profiles(s)!Fresh.score = 0
  BY DEF ProfilesAssumed, Profiles!RecordsAssumption, Profiles!Fresh, Profiles!RowType, Profiles!Levels, OneStage

LEMMA StagedRow ==
  ASSUME NEW s, NEW seen \in Profiles(s)!RowType, OneStage(seen), NEW g \in StagesOf(s) \cup {None}
  PROVE  LET row == Profiles(s)!Staged(seen, g) IN
         row \in Profiles(s)!RowType /\ OneStage(row) /\ row.score = seen.score /\ row.level = seen.level
PROOF
  <1>1. CASE g = None
    BY <1>1 DEF Profiles!Staged
  <1>2. CASE g # None
    <2>1. Profiles(s)!Staged(seen, g) = [seen EXCEPT !.status = g, !.stage = g]
      BY <1>2 DEF Profiles!Staged
    <2> QED BY <1>2, <2>1 DEF Profiles!RowType, OneStage, StagesOf
  <1> QED BY <1>1, <1>2

LEMMA GradedRow ==
  ASSUME NEW s, NEW seen \in Profiles(s)!RowType, OneStage(seen), NEW l \in Profiles(s)!Levels \cup {None}
  PROVE  LET row == Profiles(s)!Graded(seen, l) IN
         row \in Profiles(s)!RowType /\ OneStage(row) /\ row.score = seen.score
PROOF
  <1>1. CASE l = None
    BY <1>1 DEF Profiles!Graded
  <1>2. CASE l # None
    <2>1. Profiles(s)!Graded(seen, l) = [seen EXCEPT !.level = l]
      BY <1>2 DEF Profiles!Graded
    <2> QED BY <1>2, <2>1 DEF Profiles!RowType, OneStage
  <1> QED BY <1>1, <1>2

LEMMA FormRow ==
  ASSUME NEW s, ProfilesAssumed(s), NEW seen \in Profiles(s)!RowType, OneStage(seen),
         NEW n \in ScoresOf(s) \cup {None}, NEW g \in StagesOf(s) \cup {None},
         NEW v \in Profiles(s)!Levels \cup {None}
  PROVE  LET new == Profiles(s)!Scored(Profiles(s)!Graded(Profiles(s)!Staged(seen, g), v), n) IN
         /\ new \in Profiles(s)!RowType /\ OneStage(new)
         /\ n = None => new.score = seen.score
         /\ n # None => new.score = n /\ new.level = Profiles(s)!LevelForScore(n)
PROOF
  <1>1. PICK row \in Profiles(s)!RowType : /\ row = Profiles(s)!Graded(Profiles(s)!Staged(seen, g), v)
                                           /\ OneStage(row) /\ row.score = seen.score
    <2>1. PICK first \in Profiles(s)!RowType : /\ first = Profiles(s)!Staged(seen, g)
                                               /\ OneStage(first) /\ first.score = seen.score
      BY StagedRow
    <2> QED BY <2>1, GradedRow
  <1>2. PICK l \in Profiles(s)!Levels : l = Profiles(s)!LevelForScore(n)
    BY DEF Profiles!LevelForScore, Profiles!Levels
  <1>3. CASE n # None
    <2>1. Profiles(s)!Scored(row, n) = [row EXCEPT !.score = n, !.level = l]
      BY <1>2, <1>3 DEF Profiles!Scored
    <2> QED BY <1>1, <1>2, <1>3, <2>1 DEF Profiles!RowType, OneStage, ScoresOf
  <1>4. CASE n = None
    BY <1>1, <1>4 DEF Profiles!Scored
  <1> QED BY <1>1, <1>3, <1>4

LEMMA SavedRow ==
  ASSUME NEW s, NEW c \in Pair, customer[c] \in Profiles(s)!RowType,
         NEW seen \in Profiles(s)!RowType, NEW new \in Profiles(s)!RowType
  PROVE  LET row == Profiles(s)!Saved(c, seen, new) IN
         /\ row \in Profiles(s)!RowType
         /\ row.score = Profiles(s)!Column(customer[c].score, seen.score, new.score)
         /\ row.level = Profiles(s)!Column(customer[c].level, seen.level, new.level)
         /\ row.status = Profiles(s)!Column(customer[c].status, seen.status, new.status)
         /\ row.stage = Profiles(s)!Column(customer[c].stage, seen.stage, new.stage)
PROOF
  <1>1. DOMAIN new = {"score", "level", "status", "stage"}
    BY DEF Profiles!RowType
  <1>2. Profiles(s)!Saved(c, seen, new) =
          [k \in {"score", "level", "status", "stage"} |-> Profiles(s)!Column(customer[c][k], seen[k], new[k])]
    BY <1>1 DEF Profiles!Saved
  <1> QED BY <1>2 DEF Profiles!RowType, Profiles!Column

(* The records requests keep.                                                 *)
LEMMA WorkDone ==
  ASSUME NEW s, NEW w \in ProfileWork(s), OneStage(w.seen)
  PROVE  LET new == [w EXCEPT !.job = "done"] IN new \in ProfileWork(s) /\ new.job = "done" /\ ProperWork(s, new)
PROOF
  <1> DEFINE new == [w EXCEPT !.job = "done"]
  <1>1. new \in ProfileWork(s) /\ new.job = "done" /\ new.seen = w.seen
    BY DEF ProfileWork, Profiles!Jobs
  <1> QED BY <1>1 DEF ProperWork, AtWork

LEMMA WorkOf ==
  ASSUME NEW s, NEW what \in AtWork, NEW c \in Pair, NEW seen \in Profiles(s)!RowType, OneStage(seen),
         NEW e \in Profiles(s)!ScoreEntries \cup {None}, what = "history" => e \in Profiles(s)!ScoreEntries
  PROVE  LET new == [job |-> what, on |-> c, seen |-> seen, entry |-> e] IN
         new \in ProfileWork(s) /\ ProperWork(s, new)
PROOF
  <1>1. what \in Profiles(s)!Jobs
    BY DEF AtWork, Profiles!Jobs
  <1> QED BY <1>1 DEF ProfileWork, ProperWork

LEMMA NewWork ==
  ASSUME NEW s, ProfilesAssumed(s)
  PROVE  Profiles(s)!NoJob \in ProfileWork(s) /\ ProperWork(s, Profiles(s)!NoJob)
  BY FreshRow DEF ProfileWork, Profiles!NoJob, Profiles!Jobs, ProperWork, AtWork

LEMMA EntryOf ==
  ASSUME NEW s, NEW old \in ScoresOf(s) \cup {0, None}, NEW n \in ScoresOf(s)
  PROVE  LET e == Profiles(s)!Entry(old, n) IN e \in Profiles(s)!ScoreEntries /\ e.old = old /\ e.new = n
  BY DEF Profiles!Entry, Profiles!ScoreEntries, ScoresOf

LEMMA ScoreOfRow ==
  ASSUME NEW s, NEW row \in Profiles(s)!RowType
  PROVE  row.score \in ScoresOf(s) \cup {0, None}
  BY DEF Profiles!RowType, ScoresOf

(* Of the next state: the types do not change.                                *)
LEMMA ProfileKeeps ==
  ASSUME NEW s,
         customer' \in [Pair -> Profiles(s)!RowType \cup {None}],
         scores' \in [Pair -> Seq(Profiles(s)!ScoreEntries)], moves' \in [Pair -> Seq(Profiles(s)!StageEntries)],
         contacts' \subseteq Pair, imported' \subseteq Pair, edits' \in [Clients -> ProfileWork(s)],
         \A r \in Clients : ProperWork(s, edits'[r]), \A c \in Pair : StageTold(customer'[c], moves'[c], c \in imported')
  PROVE  ProfileInv(s)'
  BY DEF ProfileInv, ProfilesTyped, ProfileWork, ProperWork, Profiles!RowType, Profiles!Levels, Profiles!ScoreEntries,
     Profiles!StageEntries, Profiles!Jobs

LEMMA ProfileDone ==
  ASSUME NEW s, ProfileInv(s), NEW r \in Clients, Profiles(s)!Goto(r, "done")
  PROVE  /\ edits' \in [Clients -> ProfileWork(s)] /\ \A q \in Clients : ProperWork(s, edits'[q])
         /\ edits'[r].job = "done" /\ \A q \in Clients \ {r} : edits'[q] = edits[q]
PROOF
  <1>1. edits[r] \in ProfileWork(s) /\ edits \in [Clients -> ProfileWork(s)] /\ ProperWork(s, edits[r])
    BY DEF ProfileInv, ProfilesTyped
  <1>2. PICK w \in ProfileWork(s) : w = [edits[r] EXCEPT !.job = "done"] /\ w.job = "done" /\ ProperWork(s, w)
    BY <1>1, WorkDone DEF ProperWork
  <1>3. edits' = [edits EXCEPT ![r] = w]
    BY <1>1, <1>2 DEF Profiles!Goto
  <1> QED BY <1>1, <1>2, <1>3 DEF ProfileInv, ProfilesTyped

(* A request that is about to write: the customer it read.                    *)
LEMMA ProfileAtWork ==
  ASSUME NEW s, ProfileInv(s), NEW r \in Clients, edits[r].job \in AtWork
  PROVE  edits[r].on \in Pair /\ edits[r].seen \in Profiles(s)!RowType /\ OneStage(edits[r].seen)
  BY DEF ProfileInv, ProfilesTyped, ProperWork, ProfileWork

(* What each write does, to one customer.                                     *)
LEMMA Created ==
  ASSUME NEW s, ProfilesAssumed(s), ProfileInv(s), NEW r \in Clients, Profiles(s)!CreateCustomer(r)
  PROVE  \E c \in Pair, row \in Profiles(s)!RowType, w \in ProfileWork(s) :
           /\ customer[c] = None /\ scores[c] = <<>> /\ c \notin contacts
           /\ customer' = [customer EXCEPT ![c] = row] /\ OneStage(row)
           /\ edits' = [edits EXCEPT ![r] = w] /\ ProperWork(s, w)
           /\ \/ w.job = "done" /\ row.score = 0
              \/ w.job = "history" /\ w.on = c /\ w.entry.new = row.score
PROOF
  <1>1. PICK c \in Pair, n \in ScoresOf(s) \cup {None}, g \in StagesOf(s), v \in Profiles(s)!Levels :
          /\ customer[c] = None /\ scores[c] = <<>> /\ c \notin contacts
          /\ customer' = [customer EXCEPT ![c] =
                            Profiles(s)!Scored(Profiles(s)!Graded(Profiles(s)!Staged(Profiles(s)!Fresh, g), v), n)]
          /\ edits' = [edits EXCEPT ![r] = IF n = None THEN [Profiles(s)!NoJob EXCEPT !.job = "done"]
                         ELSE [Profiles(s)!NoJob EXCEPT !.job = "history", !.on = c, !.entry = Profiles(s)!Entry(None, n)]]
    BY DEF Profiles!CreateCustomer, Profiles!Exists, ScoresOf, StagesOf
  <1>2. g \in StagesOf(s) \cup {None} /\ v \in Profiles(s)!Levels \cup {None}
    OBVIOUS
  <1>3. PICK row \in Profiles(s)!RowType :
          /\ row = Profiles(s)!Scored(Profiles(s)!Graded(Profiles(s)!Staged(Profiles(s)!Fresh, g), v), n)
          /\ OneStage(row) /\ (n = None => row.score = 0) /\ (n # None => row.score = n)
    BY <1>2, FreshRow, FormRow
  <1>4. CASE n = None
    <2>1. PICK w \in ProfileWork(s) : w = [Profiles(s)!NoJob EXCEPT !.job = "done"] /\ w.job = "done" /\ ProperWork(s, w)
      BY NewWork, WorkDone DEF ProperWork
    <2> QED BY <1>1, <1>3, <1>4, <2>1
  <1>5. CASE n # None
    <2>1. PICK e \in Profiles(s)!ScoreEntries : e = Profiles(s)!Entry(None, n) /\ e.new = n
      BY <1>5, EntryOf
    <2>2. PICK w \in ProfileWork(s) :
            /\ w = [Profiles(s)!NoJob EXCEPT !.job = "history", !.on = c, !.entry = e]
            /\ w.job = "history" /\ w.on = c /\ w.entry = e /\ ProperWork(s, w)
      <3>1. PICK w \in ProfileWork(s) : w = Profiles(s)!NoJob /\ OneStage(w.seen)
        BY NewWork DEF ProperWork
      <3> DEFINE new == [w EXCEPT !.job = "history", !.on = c, !.entry = e]
      <3>2. /\ new \in ProfileWork(s) /\ new.seen = w.seen
            /\ new.job = "history" /\ new.on = c /\ new.entry = e
        BY DEF ProfileWork, Profiles!Jobs
      <3>3. ProperWork(s, new)
        BY <3>1, <3>2 DEF ProperWork
      <3> HIDE DEF new
      <3> QED BY <3>1, <3>2, <3>3 DEF new
    <2> QED BY <1>1, <1>3, <1>5, <2>1, <2>2
  <1> QED BY <1>4, <1>5

LEMMA ProfileRead ==
  ASSUME NEW s, ProfileInv(s), NEW r \in Clients, Profiles(s)!ReadCustomer(r)
  PROVE  /\ UNCHANGED <<customer, scores, moves, contacts, imported>>
         /\ \E w \in ProfileWork(s) :
              /\ edits' = [edits EXCEPT ![r] = w] /\ ProperWork(s, w) /\ w.job \in {"write", "delete", "import"}
              /\ customer[w.on] # None /\ w.seen = customer[w.on]
PROOF
  <1>1. PICK c \in Pair, what \in {"write", "delete", "import"} :
          /\ customer[c] # None
          /\ edits' = [edits EXCEPT ![r] = [job |-> what, on |-> c, seen |-> customer[c], entry |-> None]]
    BY DEF Profiles!ReadCustomer, Profiles!Exists
  <1>2. customer[c] \in Profiles(s)!RowType /\ OneStage(customer[c])
    BY <1>1 DEF ProfileInv, ProfilesTyped, StageTold
  <1>3. PICK w \in ProfileWork(s) :
          /\ w = [job |-> what, on |-> c, seen |-> customer[c], entry |-> None]
          /\ w.job = what /\ w.on = c /\ w.seen = customer[c] /\ ProperWork(s, w)
    <2>1. what \in AtWork /\ what # "history"
      BY DEF AtWork
    <2> QED BY <1>2, <2>1, WorkOf
  <1> QED BY <1>1, <1>3 DEF Profiles!ReadCustomer

LEMMA ProfileUpdated ==
  ASSUME NEW s, ProfilesAssumed(s), ProfileInv(s), NEW r \in Clients, Profiles(s)!UpdateProfile(r)
  PROVE  \E row \in Profiles(s)!RowType, new \in Profiles(s)!RowType, w \in ProfileWork(s),
            n \in ScoresOf(s) \cup {None} :
           LET c == edits[r].on  seen == edits[r].seen IN
           /\ edits[r].job = "write" /\ customer[c] \in Profiles(s)!RowType /\ UNCHANGED <<scores, contacts>>
           /\ customer' = [customer EXCEPT ![c] = row]
           /\ row.score = Profiles(s)!Column(customer[c].score, seen.score, new.score)
           /\ row.level = Profiles(s)!Column(customer[c].level, seen.level, new.level)
           /\ row.status = Profiles(s)!Column(customer[c].status, seen.status, new.status)
           /\ row.stage = Profiles(s)!Column(customer[c].stage, seen.stage, new.stage)
           /\ OneStage(new)
           /\ n = None => new.score = seen.score
           /\ n # None => new.score = n /\ new.level = Profiles(s)!LevelForScore(n)
           /\ IF new.stage # seen.stage
              THEN \E e \in Profiles(s)!StageEntries :
                     moves' = [moves EXCEPT ![c] = Append(moves[c], e)] /\ e.new = new.stage
              ELSE moves' = moves
           /\ imported' = IF new.stage # seen.stage THEN imported \ {c} ELSE imported
           /\ edits' = [edits EXCEPT ![r] = w] /\ ProperWork(s, w)
           /\ IF new.score = seen.score THEN w.job = "done"
              ELSE w.job = "history" /\ w.on = c /\ w.entry.old = seen.score /\ w.entry.new = new.score
PROOF
  <1> DEFINE c == edits[r].on
             seen == edits[r].seen
  <1>1. c \in Pair /\ seen \in Profiles(s)!RowType /\ OneStage(seen) /\ edits[r].job = "write"
        /\ customer[c] \in Profiles(s)!RowType /\ UNCHANGED <<scores, contacts>>
        /\ edits[r] \in ProfileWork(s)
    BY ProfileAtWork DEF Profiles!UpdateProfile, Profiles!Exists, AtWork, ProfileInv, ProfilesTyped
  <1>2. PICK n \in ScoresOf(s) \cup {None}, g \in StagesOf(s) \cup {None}, v \in Profiles(s)!Levels \cup {None} :
          LET new == Profiles(s)!Scored(Profiles(s)!Graded(Profiles(s)!Staged(seen, g), v), n) IN
          /\ customer' = [customer EXCEPT ![c] = Profiles(s)!Saved(c, seen, new)]
          /\ moves' = IF new.stage # seen.stage
                      THEN [moves EXCEPT ![c] = Append(@, Profiles(s)!Entry(seen.stage, new.stage))] ELSE moves
          /\ imported' = IF new.stage # seen.stage THEN imported \ {c} ELSE imported
          /\ edits' = [edits EXCEPT ![r] = IF new.score = seen.score THEN [Profiles(s)!NoJob EXCEPT !.job = "done"]
                         ELSE [@ EXCEPT !.job = "history", !.entry = Profiles(s)!Entry(seen.score, n)]]
    BY DEF Profiles!UpdateProfile, ScoresOf, StagesOf
  <1>3. PICK new \in Profiles(s)!RowType :
          /\ new = Profiles(s)!Scored(Profiles(s)!Graded(Profiles(s)!Staged(seen, g), v), n) /\ OneStage(new)
          /\ n = None => new.score = seen.score
          /\ n # None => new.score = n /\ new.level = Profiles(s)!LevelForScore(n)
    BY <1>1, FormRow
  <1>4. PICK row \in Profiles(s)!RowType :
          /\ row = Profiles(s)!Saved(c, seen, new)
          /\ row.score = Profiles(s)!Column(customer[c].score, seen.score, new.score)
          /\ row.level = Profiles(s)!Column(customer[c].level, seen.level, new.level)
          /\ row.status = Profiles(s)!Column(customer[c].status, seen.status, new.status)
          /\ row.stage = Profiles(s)!Column(customer[c].stage, seen.stage, new.stage)
    BY <1>1, SavedRow
  <1>5. IF new.stage # seen.stage
        THEN \E e \in Profiles(s)!StageEntries : moves' = [moves EXCEPT ![c] = Append(moves[c], e)] /\ e.new = new.stage
        ELSE moves' = moves
    <2>1. /\ Profiles(s)!Entry(seen.stage, new.stage) \in Profiles(s)!StageEntries
          /\ Profiles(s)!Entry(seen.stage, new.stage).new = new.stage
      BY <1>1 DEF Profiles!Entry, Profiles!StageEntries, Profiles!RowType
    <2> QED BY <1>2, <1>3, <2>1
  <1>6. PICK w \in ProfileWork(s) :
          /\ edits' = [edits EXCEPT ![r] = w] /\ ProperWork(s, w)
          /\ IF new.score = seen.score THEN w.job = "done"
             ELSE w.job = "history" /\ w.on = c /\ w.entry.old = seen.score /\ w.entry.new = new.score
    <2>1. CASE new.score = seen.score
      <3>1. PICK w \in ProfileWork(s) : w = [Profiles(s)!NoJob EXCEPT !.job = "done"] /\ w.job = "done" /\ ProperWork(s, w)
        BY NewWork, WorkDone DEF ProperWork
      <3> QED BY <1>2, <1>3, <2>1, <3>1
    <2>2. CASE new.score # seen.score
      <3>1. PICK e \in Profiles(s)!ScoreEntries : e = Profiles(s)!Entry(seen.score, n) /\ e.old = seen.score /\ e.new = n
        <4>1. seen.score \in ScoresOf(s) \cup {0, None} /\ n \in ScoresOf(s) /\ new.score = n
          BY <1>1, <1>3, <2>2, ScoreOfRow
        <4>2. LET e == Profiles(s)!Entry(seen.score, n)
              IN e \in Profiles(s)!ScoreEntries /\ e.old = seen.score /\ e.new = n
          BY <4>1, EntryOf
        <4> QED BY <4>2
      <3>2. PICK w \in ProfileWork(s) :
              /\ w = [edits[r] EXCEPT !.job = "history", !.entry = e]
              /\ w.job = "history" /\ w.on = c /\ w.entry = e /\ ProperWork(s, w)
        <4>1. PICK w \in ProfileWork(s) : w = edits[r] /\ OneStage(w.seen) /\ w.on = c
          BY <1>1
        <4> DEFINE next == [w EXCEPT !.job = "history", !.entry = e]
        <4>2. next \in ProfileWork(s) /\ next.seen = w.seen /\ next.job = "history" /\ next.on = w.on /\ next.entry = e
          BY DEF ProfileWork, Profiles!Jobs
        <4>3. ProperWork(s, next)
          BY <1>1, <4>1, <4>2 DEF ProperWork
        <4> QED BY <4>1, <4>2, <4>3
      <3>3. edits' = [edits EXCEPT ![r] = w]
        BY <1>2, <1>3, <2>2, <3>1, <3>2
      <3> QED BY <1>3, <2>2, <3>1, <3>2, <3>3
    <2> QED BY <2>1, <2>2
  <1>7. /\ customer' = [customer EXCEPT ![c] = row]
        /\ imported' = IF new.stage # seen.stage THEN imported \ {c} ELSE imported
    BY <1>2, <1>3, <1>4
  <1> QED BY <1>1, <1>3, <1>4, <1>5, <1>6, <1>7

LEMMA ScoreUpdated ==
  ASSUME NEW s, ProfilesAssumed(s), ProfileInv(s), NEW r \in Clients, Profiles(s)!UpdateScore(r)
  PROVE  \E row \in Profiles(s)!RowType, n \in ScoresOf(s), e \in Profiles(s)!ScoreEntries :
           LET c == edits[r].on  seen == edits[r].seen IN
           /\ edits[r].job = "write" /\ customer[c] \in Profiles(s)!RowType /\ UNCHANGED <<moves, contacts, imported>>
           /\ customer' = [customer EXCEPT ![c] = row]
           /\ row.score = Profiles(s)!Column(customer[c].score, seen.score, n)
           /\ row.level = Profiles(s)!Column(customer[c].level, seen.level, Profiles(s)!LevelForScore(n))
           /\ row.status = customer[c].status /\ row.stage = customer[c].stage
           /\ scores' = [scores EXCEPT ![c] = Append(scores[c], e)] /\ e.old = seen.score /\ e.new = n
           /\ Profiles(s)!Goto(r, "done")
PROOF
  <1> DEFINE c == edits[r].on
             seen == edits[r].seen
  <1>1. c \in Pair /\ seen \in Profiles(s)!RowType /\ OneStage(seen) /\ edits[r].job = "write"
        /\ customer[c] \in Profiles(s)!RowType /\ UNCHANGED <<moves, contacts, imported>> /\ Profiles(s)!Goto(r, "done")
    BY ProfileAtWork DEF Profiles!UpdateScore, Profiles!Exists, AtWork, ProfileInv, ProfilesTyped
  <1>2. PICK n \in ScoresOf(s) :
          /\ customer' = [customer EXCEPT ![c] = Profiles(s)!Saved(c, seen, Profiles(s)!Scored(seen, n))]
          /\ scores' = [scores EXCEPT ![c] = Append(@, Profiles(s)!Entry(seen.score, n))]
    BY DEF Profiles!UpdateScore, ScoresOf
  <1>3. n # None
    BY DEF ScoresOf, ProfilesAssumed, Profiles!RecordsAssumption
  <1>4. PICK new \in Profiles(s)!RowType :
          /\ new = Profiles(s)!Scored(seen, n) /\ new.score = n /\ new.level = Profiles(s)!LevelForScore(n)
          /\ new.status = seen.status /\ new.stage = seen.stage
    <2>1. PICK l \in Profiles(s)!Levels : l = Profiles(s)!LevelForScore(n)
      BY DEF Profiles!LevelForScore, Profiles!Levels
    <2>2. Profiles(s)!Scored(seen, n) = [seen EXCEPT !.score = n, !.level = l]
      BY <1>3, <2>1 DEF Profiles!Scored
    <2> QED BY <1>1, <2>1, <2>2 DEF Profiles!RowType, ScoresOf
  <1>5. PICK row \in Profiles(s)!RowType :
          /\ row = Profiles(s)!Saved(c, seen, new)
          /\ row.score = Profiles(s)!Column(customer[c].score, seen.score, n)
          /\ row.level = Profiles(s)!Column(customer[c].level, seen.level, Profiles(s)!LevelForScore(n))
          /\ row.status = customer[c].status /\ row.stage = customer[c].stage
    BY <1>1, <1>4, SavedRow DEF Profiles!Column
  <1>6. PICK e \in Profiles(s)!ScoreEntries : e = Profiles(s)!Entry(seen.score, n) /\ e.old = seen.score /\ e.new = n
    BY <1>1, ScoreOfRow, EntryOf
  <1>7. /\ customer' = [customer EXCEPT ![c] = row]
        /\ scores' = [scores EXCEPT ![c] = Append(scores[c], e)]
    BY <1>2, <1>4, <1>5, <1>6
  <1> QED BY <1>1, <1>5, <1>6, <1>7

(* What a row of the archive does to the customer it matched.                 *)
LEMMA Overwritten ==
  ASSUME NEW s, ProfilesAssumed(s), ProfileInv(s), NEW r \in Clients, Profiles(s)!ImportRow(r)
  PROVE  \E row \in Profiles(s)!RowType :
           LET c == edits[r].on  seen == edits[r].seen IN
           /\ edits[r].job = "import" /\ customer[c] \in Profiles(s)!RowType /\ UNCHANGED <<scores, moves>>
           /\ customer' = [customer EXCEPT ![c] = row]
           /\ row.score = customer[c].score /\ row.level = customer[c].level /\ OneStage(row)
           /\ imported' = IF row.stage # customer[c].stage THEN imported \cup {c} ELSE imported
           /\ contacts' \in {contacts, contacts \cup {c}}
           /\ Profiles(s)!Goto(r, "done")
PROOF
  <1> DEFINE c == edits[r].on
             seen == edits[r].seen
  <1>1. c \in Pair /\ seen \in Profiles(s)!RowType /\ OneStage(seen) /\ edits[r].job = "import"
        /\ customer[c] \in Profiles(s)!RowType /\ UNCHANGED <<scores, moves>> /\ Profiles(s)!Goto(r, "done")
        /\ OneStage(customer[c])
    BY ProfileAtWork DEF Profiles!ImportRow, Profiles!Exists, AtWork, ProfileInv, ProfilesTyped, StageTold
  <1>2. PICK g \in StagesOf(s) \cup {None} :
          LET row == Profiles(s)!Saved(c, seen, Profiles(s)!Staged(seen, g)) IN
          /\ customer' = [customer EXCEPT ![c] = row]
          /\ imported' = IF row.stage # customer[c].stage THEN imported \cup {c} ELSE imported
          /\ contacts' \in {contacts, contacts \cup {c}}
    BY DEF Profiles!ImportRow, StagesOf
  <1>3. PICK new \in Profiles(s)!RowType :
          new = Profiles(s)!Staged(seen, g) /\ OneStage(new) /\ new.score = seen.score /\ new.level = seen.level
    BY <1>1, StagedRow
  <1>4. PICK row \in Profiles(s)!RowType :
          /\ row = Profiles(s)!Saved(c, seen, new)
          /\ row.score = Profiles(s)!Column(customer[c].score, seen.score, new.score)
          /\ row.level = Profiles(s)!Column(customer[c].level, seen.level, new.level)
          /\ row.status = Profiles(s)!Column(customer[c].status, seen.status, new.status)
          /\ row.stage = Profiles(s)!Column(customer[c].stage, seen.stage, new.stage)
    BY <1>1, SavedRow
  <1>5. row.score = customer[c].score /\ row.level = customer[c].level /\ OneStage(row)
    BY <1>1, <1>3, <1>4 DEF Profiles!Column, OneStage
  <1> QED BY <1>1, <1>2, <1>3, <1>4, <1>5

LEMMA MadeOfRow ==
  ASSUME NEW s, ProfilesAssumed(s), ProfileInv(s), NEW r \in Clients, Profiles(s)!ImportNew(r)
  PROVE  \E c \in Pair, row \in Profiles(s)!RowType :
           /\ customer[c] = None /\ scores[c] = <<>> /\ UNCHANGED <<scores, moves, imported>>
           /\ customer' = [customer EXCEPT ![c] = row] /\ OneStage(row) /\ row.score = 0
           /\ contacts' \in {contacts, contacts \cup {c}}
           /\ Profiles(s)!Goto(r, "done")
PROOF
  <1>1. PICK c \in Pair, g \in StagesOf(s) \cup {None} :
          /\ customer[c] = None /\ scores[c] = <<>>
          /\ customer' = [customer EXCEPT ![c] = Profiles(s)!Staged(Profiles(s)!Fresh, g)]
          /\ contacts' \in {contacts, contacts \cup {c}}
    BY DEF Profiles!ImportNew, Profiles!Exists, StagesOf
  <1>2. PICK row \in Profiles(s)!RowType :
          row = Profiles(s)!Staged(Profiles(s)!Fresh, g) /\ OneStage(row) /\ row.score = 0
    BY FreshRow, StagedRow
  <1> QED BY <1>1, <1>2 DEF Profiles!ImportNew

LEMMA ProfilesFirst ==
  ASSUME NEW s, ProfilesAssumed(s), Profiles(s)!Init
  PROVE  ProfileInv(s)
PROOF
  <1>1. /\ customer = [c \in Pair |-> None] /\ scores = [c \in Pair |-> <<>>] /\ moves = [c \in Pair |-> <<>>]
        /\ contacts = {} /\ imported = {} /\ edits = [r \in Clients |-> Profiles(s)!NoJob]
    BY DEF Profiles!Init
  <1> QED BY <1>1, NewWork DEF ProfileInv, ProfilesTyped, StageTold

(* A step that writes no customer and no stage.                               *)
LEMMA ProfileOthers ==
  ASSUME NEW s, ProfileInv(s), UNCHANGED <<customer, moves, imported>>, contacts' \subseteq Pair,
         scores' \in [Pair -> Seq(Profiles(s)!ScoreEntries)],
         edits' \in [Clients -> ProfileWork(s)], \A q \in Clients : ProperWork(s, edits'[q])
  PROVE  ProfileInv(s)' /\ Profiles(s)!DeletionIsSafe
PROOF
  <1>1. ProfileInv(s)'
    <2>1. \A c \in Pair : StageTold(customer'[c], moves'[c], c \in imported')
      BY DEF ProfileInv
    <2> QED BY <2>1, ProfileKeeps DEF ProfileInv, ProfilesTyped
  <1> QED BY <1>1 DEF Profiles!DeletionIsSafe, Profiles!Exists

(* A step that writes one customer.                                           *)
LEMMA ProfileOne ==
  ASSUME NEW s, ProfilesAssumed(s), ProfileInv(s), NEW c \in Pair, NEW row \in Profiles(s)!RowType,
         customer' = [customer EXCEPT ![c] = row], StageTold(row, moves'[c], c \in imported'),
         imported' \subseteq Pair, \A d \in Pair \ {c} : d \in imported' <=> d \in imported,
         moves' \in [Pair -> Seq(Profiles(s)!StageEntries)], \A d \in Pair \ {c} : moves'[d] = moves[d],
         scores' \in [Pair -> Seq(Profiles(s)!ScoreEntries)], contacts' \subseteq Pair,
         edits' \in [Clients -> ProfileWork(s)], \A q \in Clients : ProperWork(s, edits'[q])
  PROVE  ProfileInv(s)' /\ Profiles(s)!DeletionIsSafe
PROOF
  <1>1. /\ customer' \in [Pair -> Profiles(s)!RowType \cup {None}] /\ row # None
        /\ customer'[c] = row /\ \A d \in Pair \ {c} : customer'[d] = customer[d]
    BY DEF ProfileInv, ProfilesTyped, ProfilesAssumed, Profiles!RecordsAssumption
  <1>2. ASSUME NEW d \in Pair PROVE StageTold(customer'[d], moves'[d], d \in imported')
    <2>1. CASE d = c
      BY <1>1, <2>1
    <2>2. CASE d # c
      <3>1. customer'[d] = customer[d] /\ moves'[d] = moves[d] /\ (d \in imported' <=> d \in imported)
        BY <1>1, <2>2
      <3> QED BY <3>1 DEF ProfileInv, StageTold
    <2> QED BY <2>1, <2>2
  <1>3. ProfileInv(s)'
    BY <1>1, <1>2, ProfileKeeps
  <1> QED BY <1>1, <1>3 DEF Profiles!DeletionIsSafe, Profiles!Exists

LEMMA ProfileKept ==
  ASSUME NEW s, ProfilesAssumed(s), ProfileInv(s), Profiles(s)!Next \/ UNCHANGED customerVars
  PROVE  ProfileInv(s)' /\ Profiles(s)!DeletionIsSafe
PROOF
  <1>0. /\ customer \in [Pair -> Profiles(s)!RowType \cup {None}]
        /\ scores \in [Pair -> Seq(Profiles(s)!ScoreEntries)] /\ moves \in [Pair -> Seq(Profiles(s)!StageEntries)]
        /\ contacts \subseteq Pair /\ imported \subseteq Pair /\ edits \in [Clients -> ProfileWork(s)]
        /\ \A q \in Clients : ProperWork(s, edits[q])
    BY DEF ProfileInv, ProfilesTyped
  <1>1. CASE UNCHANGED customerVars \/ Profiles(s)!Finished
    BY <1>0, <1>1, ProfileOthers DEF customerVars, Profiles!Finished, Profiles!vars
  <1>2. ASSUME NEW r \in Clients, Profiles(s)!CreateCustomer(r) PROVE ProfileInv(s)' /\ Profiles(s)!DeletionIsSafe
    <2>1. PICK c \in Pair, row \in Profiles(s)!RowType, w \in ProfileWork(s) :
            /\ customer[c] = None /\ customer' = [customer EXCEPT ![c] = row] /\ OneStage(row)
            /\ edits' = [edits EXCEPT ![r] = w] /\ ProperWork(s, w)
      BY <1>2, Created
    <2>2. UNCHANGED <<scores, moves, contacts, imported>>
      BY <1>2 DEF Profiles!CreateCustomer
    <2>3. StageTold(row, moves'[c], c \in imported')
      BY <2>1, <2>2 DEF ProfileInv, StageTold
    <2> QED BY <1>0, <2>1, <2>2, <2>3, ProfileOne
  <1>3. ASSUME NEW r \in Clients, Profiles(s)!ReadCustomer(r) PROVE ProfileInv(s)' /\ Profiles(s)!DeletionIsSafe
    <2>1. PICK w \in ProfileWork(s) : edits' = [edits EXCEPT ![r] = w] /\ ProperWork(s, w)
      BY <1>3, ProfileRead
    <2>2. UNCHANGED <<customer, scores, moves, contacts, imported>>
      BY <1>3, ProfileRead
    <2> QED BY <1>0, <2>1, <2>2, ProfileOthers
  <1>4. ASSUME NEW r \in Clients, Profiles(s)!UpdateProfile(r) PROVE ProfileInv(s)' /\ Profiles(s)!DeletionIsSafe
    <2> DEFINE c == edits[r].on
               seen == edits[r].seen
    <2>1. PICK row \in Profiles(s)!RowType, new \in Profiles(s)!RowType, w \in ProfileWork(s) :
           /\ edits[r].job = "write" /\ customer[c] \in Profiles(s)!RowType /\ UNCHANGED <<scores, contacts>>
           /\ customer' = [customer EXCEPT ![c] = row]
           /\ row.status = Profiles(s)!Column(customer[c].status, seen.status, new.status)
           /\ row.stage = Profiles(s)!Column(customer[c].stage, seen.stage, new.stage)
           /\ OneStage(new)
           /\ IF new.stage # seen.stage
              THEN \E e \in Profiles(s)!StageEntries :
                     moves' = [moves EXCEPT ![c] = Append(moves[c], e)] /\ e.new = new.stage
              ELSE moves' = moves
           /\ imported' = IF new.stage # seen.stage THEN imported \ {c} ELSE imported
           /\ edits' = [edits EXCEPT ![r] = w] /\ ProperWork(s, w)
      BY <1>4, ProfileUpdated
    <2>2. c \in Pair /\ OneStage(seen) /\ seen \in Profiles(s)!RowType
      BY <2>1, ProfileAtWork DEF AtWork
    <2>3. customer[c] # None /\ StageTold(customer[c], moves[c], c \in imported) /\ moves[c] \in Seq(Profiles(s)!StageEntries)
      BY <1>0, <2>1, <2>2 DEF ProfileInv, ProfilesAssumed, Profiles!RecordsAssumption
    <2>4. row # None
      BY DEF ProfilesAssumed, Profiles!RecordsAssumption
    <2>5. CASE new.stage # seen.stage
      <3>1. PICK e \in Profiles(s)!StageEntries :
              moves' = [moves EXCEPT ![c] = Append(moves[c], e)] /\ e.new = new.stage
        BY <2>1, <2>5
      <3>2. row.status = new.stage /\ row.stage = new.stage
        BY <2>1, <2>2, <2>5 DEF OneStage, Profiles!Column
      <3>3. StageTold(row, moves'[c], c \in imported')
        BY <1>0, <2>2, <2>3, <2>4, <3>1, <3>2 DEF StageTold, OneStage
      <3>5. imported' \subseteq Pair /\ \A d \in Pair \ {c} : d \in imported' <=> d \in imported
        BY <1>0, <2>1, <2>5
      <3>4. moves' \in [Pair -> Seq(Profiles(s)!StageEntries)] /\ \A d \in Pair \ {c} : moves'[d] = moves[d]
        BY <1>0, <2>2, <2>3, <3>1
      <3> QED BY <1>0, <2>1, <2>2, <3>3, <3>4, <3>5, ProfileOne
    <2>6. CASE new.stage = seen.stage
      <3>1. moves' = moves /\ imported' = imported
        BY <2>1, <2>6
      <3>2. row.status = customer[c].status /\ row.stage = customer[c].stage
        BY <2>1, <2>2, <2>6 DEF OneStage, Profiles!Column
      <3>3. StageTold(row, moves'[c], c \in imported')
        BY <2>3, <2>4, <3>1, <3>2 DEF StageTold, OneStage
      <3> QED BY <1>0, <2>1, <2>2, <3>1, <3>3, ProfileOne
    <2> QED BY <2>5, <2>6
  <1>5. ASSUME NEW r \in Clients, Profiles(s)!UpdateScore(r) PROVE ProfileInv(s)' /\ Profiles(s)!DeletionIsSafe
    <2> DEFINE c == edits[r].on
    <2>1. PICK row \in Profiles(s)!RowType, e \in Profiles(s)!ScoreEntries :
           /\ edits[r].job = "write" /\ customer[c] \in Profiles(s)!RowType /\ UNCHANGED <<moves, contacts, imported>>
           /\ customer' = [customer EXCEPT ![c] = row]
           /\ row.status = customer[c].status /\ row.stage = customer[c].stage
           /\ scores' = [scores EXCEPT ![c] = Append(scores[c], e)]
           /\ Profiles(s)!Goto(r, "done")
      BY <1>5, ScoreUpdated
    <2>2. c \in Pair
      BY <2>1, ProfileAtWork DEF AtWork
    <2>3. row # None /\ customer[c] # None /\ StageTold(customer[c], moves[c], c \in imported)
      BY <2>1, <2>2 DEF ProfileInv, ProfilesAssumed, Profiles!RecordsAssumption
    <2>4. StageTold(row, moves'[c], c \in imported')
      BY <2>1, <2>3 DEF StageTold, OneStage
    <2>5. scores' \in [Pair -> Seq(Profiles(s)!ScoreEntries)]
      <3>1. scores[c] \in Seq(Profiles(s)!ScoreEntries)
        BY <1>0, <2>2
      <3>2. Append(scores[c], e) \in Seq(Profiles(s)!ScoreEntries)
        BY <3>1
      <3> QED BY <1>0, <2>1, <3>2
    <2> QED BY <1>0, <2>1, <2>2, <2>4, <2>5, ProfileDone, ProfileOne
  <1>6. ASSUME NEW r \in Clients, Profiles(s)!WriteHistory(r) PROVE ProfileInv(s)' /\ Profiles(s)!DeletionIsSafe
    <2>1. edits[r].job = "history" /\ Profiles(s)!Goto(r, "done") /\ UNCHANGED <<customer, moves, contacts, imported>>
      BY <1>6 DEF Profiles!WriteHistory
    <2>2. edits[r].on \in Pair /\ edits[r].entry \in Profiles(s)!ScoreEntries
      BY <1>0, <2>1 DEF ProperWork, AtWork
    <2>3. scores[edits[r].on] \in Seq(Profiles(s)!ScoreEntries)
      BY <1>0, <2>2
    <2>4. Append(scores[edits[r].on], edits[r].entry) \in Seq(Profiles(s)!ScoreEntries)
      BY <2>2, <2>3
    <2>5. scores' \in [Pair -> Seq(Profiles(s)!ScoreEntries)]
      BY <1>0, <1>6, <2>4 DEF Profiles!WriteHistory
    <2> QED BY <1>0, <2>1, <2>5, ProfileDone, ProfileOthers
  <1>7. ASSUME NEW r \in Clients, Profiles(s)!Crash(r) \/ Profiles(s)!CreateContact(r) \/ Profiles(s)!TooLate(r)
        PROVE  ProfileInv(s)' /\ Profiles(s)!DeletionIsSafe
    <2>1. Profiles(s)!Goto(r, "done") /\ UNCHANGED <<customer, scores, moves, imported>> /\ contacts' \subseteq Pair
      BY <1>0, <1>7 DEF Profiles!Crash, Profiles!CreateContact, Profiles!TooLate
    <2> QED BY <1>0, <2>1, ProfileDone, ProfileOthers
  <1>8. ASSUME NEW r \in Clients, Profiles(s)!Delete(r) PROVE ProfileInv(s)' /\ Profiles(s)!DeletionIsSafe
    <2>1. /\ edits[r].job = "delete" /\ Profiles(s)!Goto(r, "done") /\ UNCHANGED <<scores, moves, contacts, imported>>
          /\ customer' = IF Profiles(s)!Free(edits[r].on) THEN [customer EXCEPT ![edits[r].on] = None] ELSE customer
      BY <1>8 DEF Profiles!Delete, Profiles!ForeignKeys
    <2>2. CASE Profiles(s)!Free(edits[r].on)
      <3>1. edits[r].on \in Pair /\ moves[edits[r].on] = <<>>
        BY <2>1, <2>2, ProfileAtWork DEF AtWork, Profiles!Free
      <3>2. customer' = [customer EXCEPT ![edits[r].on] = None]
        BY <2>1, <2>2
      <3>3. customer' \in [Pair -> Profiles(s)!RowType \cup {None}]
        BY <1>0, <3>2
      <3>4. \A d \in Pair : StageTold(customer'[d], moves'[d], d \in imported')
        BY <1>0, <2>1, <3>1, <3>2 DEF ProfileInv, StageTold
      <3>5. ProfileInv(s)'
        BY <1>0, <2>1, <3>3, <3>4, ProfileDone, ProfileKeeps
      <3> QED BY <1>0, <2>2, <3>1, <3>2, <3>5 DEF Profiles!DeletionIsSafe, Profiles!Exists
    <2>3. CASE ~Profiles(s)!Free(edits[r].on)
      BY <1>0, <2>1, <2>3, ProfileDone, ProfileOthers
    <2> QED BY <2>2, <2>3
  <1>9. ASSUME NEW r \in Clients, Profiles(s)!ImportNew(r) PROVE ProfileInv(s)' /\ Profiles(s)!DeletionIsSafe
    <2>1. PICK c \in Pair, row \in Profiles(s)!RowType :
            /\ customer[c] = None /\ UNCHANGED <<scores, moves, imported>>
            /\ customer' = [customer EXCEPT ![c] = row] /\ OneStage(row)
            /\ contacts' \in {contacts, contacts \cup {c}} /\ Profiles(s)!Goto(r, "done")
      BY <1>9, MadeOfRow
    <2>2. StageTold(row, moves'[c], c \in imported')
      BY <2>1 DEF ProfileInv, StageTold
    <2> QED BY <1>0, <2>1, <2>2, ProfileDone, ProfileOne
  <1>10. ASSUME NEW r \in Clients, Profiles(s)!ImportRow(r) PROVE ProfileInv(s)' /\ Profiles(s)!DeletionIsSafe
    <2> DEFINE c == edits[r].on
    <2>1. PICK row \in Profiles(s)!RowType :
           /\ edits[r].job = "import" /\ customer[c] \in Profiles(s)!RowType /\ UNCHANGED <<scores, moves>>
           /\ customer' = [customer EXCEPT ![c] = row] /\ OneStage(row)
           /\ imported' = IF row.stage # customer[c].stage THEN imported \cup {c} ELSE imported
           /\ contacts' \in {contacts, contacts \cup {c}} /\ Profiles(s)!Goto(r, "done")
      BY <1>10, Overwritten
    <2>2. c \in Pair
      BY <2>1, ProfileAtWork DEF AtWork
    <2>3. row # None /\ customer[c] # None /\ StageTold(customer[c], moves[c], c \in imported)
      BY <2>1, <2>2 DEF ProfileInv, ProfilesAssumed, Profiles!RecordsAssumption
    <2>4. StageTold(row, moves'[c], c \in imported')
      BY <2>1, <2>3 DEF StageTold
    <2>5. imported' \subseteq Pair /\ (\A d \in Pair \ {c} : d \in imported' <=> d \in imported) /\ contacts' \subseteq Pair
      BY <1>0, <2>1, <2>2
    <2> QED BY <1>0, <2>1, <2>2, <2>4, <2>5, ProfileDone, ProfileOne
  <1> QED BY <1>1, <1>2, <1>3, <1>4, <1>5, <1>6, <1>7, <1>8, <1>9, <1>10 DEF Profiles!Next

(* One after another: the score history tells the whole story, but for the    *)
(* entry the request at work is about to write.                               *)
LastScore(h) == IF h = <<>> THEN 0 ELSE h[Len(h)].new
Chained(h) == \A i \in 2..Len(h) : h[i].old = h[i - 1].new
ScoreTold(row, h) == IF row = None THEN h = <<>> ELSE LastScore(h) = row.score

AtWorkOn(w) ==
  /\ customer[w.on] # None
  /\ w.job \in {"write", "import"} => w.seen = customer[w.on]
  /\ w.job = "history" =>
       w.entry.new = customer[w.on].score /\ (scores[w.on] = <<>> \/ w.entry.old = LastScore(scores[w.on]))
LeavesEntry(c) == \E r \in Clients : edits[r].job = "history" /\ edits[r].on = c

ProfilesInTurn(s) ==
  /\ \A c \in Pair : /\ Chained(scores[c])
                     /\ customer[c] = None => scores[c] = <<>>
                     /\ LeavesEntry(c) \/ ScoreTold(customer[c], scores[c])
  /\ \A r \in Clients : edits[r].job \in AtWork =>
       AtWorkOn(edits[r]) /\ \A q \in Clients \ {r} : edits[q].job \notin AtWork

LEMMA ProfilesInTurnFirst ==
  ASSUME NEW s, ProfilesAssumed(s), Profiles(s)!Init
  PROVE  ProfilesInTurn(s)
PROOF
  <1>1. /\ customer = [c \in Pair |-> None] /\ scores = [c \in Pair |-> <<>>]
        /\ \A r \in Clients : edits[r].job \notin AtWork
    BY DEF Profiles!Init, Profiles!NoJob, AtWork
  <1> QED BY <1>1 DEF ProfilesInTurn, Chained, ScoreTold

LEMMA ChainGrows ==
  ASSUME NEW S, NEW h \in Seq(S), NEW e \in S, Chained(h), h = <<>> \/ e.old = LastScore(h)
  PROVE  LET g == Append(h, e) IN Chained(g) /\ g # <<>> /\ LastScore(g) = e.new
PROOF
  <1> DEFINE g == Append(h, e)
  <1>1. /\ g \in Seq(S) /\ Len(g) = Len(h) + 1 /\ g # <<>> /\ g[Len(g)] = e /\ Len(h) \in Nat
        /\ \A i \in 1..Len(h) : g[i] = h[i]
    <2>1. g \in Seq(S) /\ Len(g) = Len(h) + 1 /\ Len(h) \in Nat
      OBVIOUS
    <2>2. g[Len(h) + 1] = e
      OBVIOUS
    <2>3. ASSUME NEW i \in 1..Len(h) PROVE g[i] = h[i]
      OBVIOUS
    <2>4. g # <<>>
      <3> HIDE DEF g
      <3> QED BY <2>1
    <2> QED BY <2>1, <2>2, <2>3, <2>4
  <1>2. ASSUME NEW i \in 2..Len(g) PROVE g[i].old = g[i - 1].new
    <2>1. CASE i \in 2..Len(h)
      BY <1>1, <2>1 DEF Chained
    <2>2. CASE i = Len(h) + 1
      <3>1. h # <<>> /\ i - 1 = Len(h) /\ g[i] = e /\ g[i - 1] = h[Len(h)]
        BY <1>1, <2>2
      <3> QED BY <3>1 DEF LastScore
    <2> QED BY <1>1, <2>1, <2>2
  <1> HIDE DEF g
  <1>3. Chained(g) /\ LastScore(g) = e.new
    BY <1>1, <1>2 DEF Chained, LastScore
  <1> QED BY <1>1, <1>3 DEF g

(* What a request may do when it starts, alone.                               *)
LEMMA AloneStarts ==
  ASSUME NEW s, ~Together(s), ProfileInv(s), NEW r \in Clients, Profiles(s)!MayStart(r)
  PROVE  \A q \in Clients : edits[q].job \notin AtWork
  BY DEF Together, Profiles!MayStart, Profiles!Busy, AtWork

(* A request that ends and leaves every score told.                           *)
LEMMA InTurnEnds ==
  ASSUME NEW s, ProfileInv(s), ProfilesInTurn(s), NEW r \in Clients, edits'[r].job \notin AtWork,
         \A q \in Clients \ {r} : edits'[q] = edits[q] /\ edits[q].job \notin AtWork,
         NEW c \in Pair, \A d \in Pair \ {c} : customer'[d] = customer[d] /\ scores'[d] = scores[d] /\ ~LeavesEntry(d),
         Chained(scores'[c]), ScoreTold(customer'[c], scores'[c])
  PROVE  ProfilesInTurn(s)'
PROOF
  <1>1. \A q \in Clients : edits'[q].job \notin AtWork
    OBVIOUS
  <1>2. ASSUME NEW d \in Pair PROVE Chained(scores'[d]) /\ ScoreTold(customer'[d], scores'[d])
    BY DEF ProfilesInTurn
  <1>3. \A d \in Pair : customer'[d] = None => scores'[d] = <<>>
    BY <1>2 DEF ScoreTold
  <1> QED BY <1>1, <1>2, <1>3 DEF ProfilesInTurn

LEMMA ProfilesInTurnKept ==
  ASSUME NEW s, ProfilesAssumed(s), ~Together(s), ProfileInv(s), ProfilesInTurn(s),
         Profiles(s)!Next \/ UNCHANGED customerVars
  PROVE  ProfilesInTurn(s)'
PROOF
  <1>0. /\ customer \in [Pair -> Profiles(s)!RowType \cup {None}]
        /\ scores \in [Pair -> Seq(Profiles(s)!ScoreEntries)]
        /\ edits \in [Clients -> ProfileWork(s)] /\ None \notin Profiles(s)!RowType
        /\ \A q \in Clients : edits[q].job \in AtWork => edits[q].on \in Pair
    BY DEF ProfileInv, ProfilesTyped, ProperWork, ProfilesAssumed, Profiles!RecordsAssumption
  <1>1. CASE UNCHANGED customerVars \/ Profiles(s)!Finished
    BY <1>1 DEF customerVars, Profiles!Finished, Profiles!vars, ProfilesInTurn, Chained, ScoreTold, AtWorkOn,
       LeavesEntry
  <1>2. ASSUME NEW r \in Clients, edits[r].job \in AtWork
        PROVE  /\ edits[r].on \in Pair /\ AtWorkOn(edits[r]) /\ \A q \in Clients \ {r} : edits[q].job \notin AtWork
               /\ \A d \in Pair \ {edits[r].on} : ~LeavesEntry(d)
    BY <1>0, <1>2 DEF ProfilesInTurn, LeavesEntry, AtWork
  <1>3. ASSUME \A q \in Clients : edits[q].job \notin AtWork
        PROVE  \A c \in Pair : ~LeavesEntry(c) /\ ScoreTold(customer[c], scores[c])
    BY <1>3 DEF ProfilesInTurn, LeavesEntry, AtWork
  <1>4. ASSUME NEW r \in Clients, Profiles(s)!CreateCustomer(r) PROVE ProfilesInTurn(s)'
    <2>0. \A q \in Clients : edits[q].job \notin AtWork
      BY <1>4, AloneStarts DEF Profiles!CreateCustomer
    <2>1. PICK c \in Pair, row \in Profiles(s)!RowType, w \in ProfileWork(s) :
           /\ customer[c] = None /\ scores[c] = <<>>
           /\ customer' = [customer EXCEPT ![c] = row]
           /\ edits' = [edits EXCEPT ![r] = w]
           /\ \/ w.job = "done" /\ row.score = 0
              \/ w.job = "history" /\ w.on = c /\ w.entry.new = row.score
      BY <1>4, Created
    <2>2. scores' = scores
      BY <1>4 DEF Profiles!CreateCustomer
    <2>3. /\ customer'[c] = row /\ \A d \in Pair \ {c} : customer'[d] = customer[d]
          /\ edits'[r] = w /\ \A q \in Clients \ {r} : edits'[q] = edits[q]
      BY <1>0, <2>1
    <2>4. Chained(scores'[c])
      BY <2>1, <2>2 DEF ProfilesInTurn
    <2>5. CASE w.job = "done" /\ row.score = 0
      <3>1. ScoreTold(row, scores'[c])
        BY <1>0, <2>1, <2>2, <2>5 DEF ScoreTold, LastScore
      <3>2. edits'[r].job \notin AtWork
        BY <2>3, <2>5 DEF AtWork
      <3> QED BY <1>3, <2>0, <2>2, <2>3, <2>4, <3>1, <3>2, InTurnEnds
    <2>6. CASE w.job = "history" /\ w.on = c /\ w.entry.new = row.score
      <3>1. AtWorkOn(w)'
        BY <1>0, <2>1, <2>2, <2>3, <2>6 DEF AtWorkOn
      <3>2. LeavesEntry(c)'
        BY <2>3, <2>6 DEF LeavesEntry
      <3>3. ASSUME NEW d \in Pair
            PROVE  /\ Chained(scores'[d]) /\ (customer'[d] = None => scores'[d] = <<>>)
                   /\ LeavesEntry(d)' \/ ScoreTold(customer'[d], scores'[d])
        BY <1>0, <1>3, <2>0, <2>1, <2>2, <2>3, <2>4, <3>2 DEF ProfilesInTurn
      <3>4. \A q \in Clients : edits'[q].job \in AtWork => q = r /\ edits'[q] = w
        BY <2>0, <2>3
      <3> QED BY <2>0, <2>3, <3>1, <3>3, <3>4 DEF ProfilesInTurn, AtWorkOn
    <2> QED BY <2>1, <2>5, <2>6
  <1>5. ASSUME NEW r \in Clients, Profiles(s)!ReadCustomer(r) PROVE ProfilesInTurn(s)'
    <2>0. \A q \in Clients : edits[q].job \notin AtWork
      BY <1>5, AloneStarts DEF Profiles!ReadCustomer
    <2>1. PICK w \in ProfileWork(s) :
            /\ edits' = [edits EXCEPT ![r] = w] /\ w.job \in {"write", "delete", "import"}
            /\ customer[w.on] # None /\ w.seen = customer[w.on]
      BY <1>5, ProfileRead
    <2>2. UNCHANGED <<customer, scores>>
      BY <1>5, ProfileRead
    <2>3. edits'[r] = w /\ \A q \in Clients \ {r} : edits'[q] = edits[q]
      BY <1>0, <2>1
    <2>4. AtWorkOn(w)'
      BY <2>1, <2>2, <2>3 DEF AtWorkOn
    <2>5. ASSUME NEW d \in Pair
          PROVE  /\ Chained(scores'[d]) /\ (customer'[d] = None => scores'[d] = <<>>)
                 /\ ScoreTold(customer'[d], scores'[d])
      BY <1>3, <2>0, <2>2 DEF ProfilesInTurn
    <2>6. \A q \in Clients : edits'[q].job \in AtWork => q = r /\ edits'[q] = w
      BY <2>0, <2>3
    <2> QED BY <2>0, <2>3, <2>4, <2>5, <2>6 DEF ProfilesInTurn, AtWorkOn
  <1>6. ASSUME NEW r \in Clients, Profiles(s)!UpdateProfile(r) PROVE ProfilesInTurn(s)'
    <2> DEFINE c == edits[r].on
               seen == edits[r].seen
    <2>1. PICK row \in Profiles(s)!RowType, new \in Profiles(s)!RowType, w \in ProfileWork(s),
               n \in ScoresOf(s) \cup {None} :
           /\ edits[r].job = "write" /\ customer[c] \in Profiles(s)!RowType /\ UNCHANGED <<scores, contacts>>
           /\ customer' = [customer EXCEPT ![c] = row]
           /\ row.score = Profiles(s)!Column(customer[c].score, seen.score, new.score)
           /\ row.level = Profiles(s)!Column(customer[c].level, seen.level, new.level)
           /\ n = None => new.score = seen.score
           /\ n # None => new.score = n /\ new.level = Profiles(s)!LevelForScore(n)
           /\ edits' = [edits EXCEPT ![r] = w]
           /\ IF new.score = seen.score THEN w.job = "done"
              ELSE w.job = "history" /\ w.on = c /\ w.entry.old = seen.score /\ w.entry.new = new.score
      BY <1>6, ProfileUpdated
    <2>2. /\ c \in Pair /\ seen = customer[c] /\ customer[c] # None /\ ~LeavesEntry(c)
          /\ \A q \in Clients \ {r} : edits[q].job \notin AtWork
          /\ \A d \in Pair \ {c} : ~LeavesEntry(d)
      BY <1>2, <2>1 DEF AtWork, AtWorkOn, LeavesEntry
    <2>3. row.score = new.score /\ row.level = new.level
      BY <2>1, <2>2 DEF Profiles!Column
    <2>4. Chained(scores'[c])
      BY <1>0, <2>1, <2>2, <2>3 DEF ProfilesInTurn
    <2>5. /\ customer'[c] = row /\ \A d \in Pair \ {c} : customer'[d] = customer[d]
          /\ edits'[r] = w /\ \A q \in Clients \ {r} : edits'[q] = edits[q]
      BY <1>0, <2>1, <2>2
    <2>6. ScoreTold(customer[c], scores[c])
      BY <2>2 DEF ProfilesInTurn
    <2>7. CASE new.score = seen.score
      <3>1. edits'[r].job \notin AtWork
        BY <2>1, <2>5, <2>7 DEF AtWork
      <3>2. ScoreTold(customer'[c], scores'[c])
        BY <1>0, <2>1, <2>2, <2>3, <2>5, <2>6, <2>7 DEF ScoreTold
      <3> QED BY <2>1, <2>2, <2>4, <2>5, <3>1, <3>2, InTurnEnds
    <2>8. CASE new.score # seen.score
      <3>1. w.job = "history" /\ w.on = c /\ w.entry.old = seen.score /\ w.entry.new = new.score
        BY <2>1, <2>8
      <3>2. AtWorkOn(w)'
        BY <1>0, <2>1, <2>2, <2>3, <2>5, <2>6, <3>1 DEF AtWorkOn, ScoreTold
      <3>3. \E q \in Clients : edits'[q].job = "history" /\ edits'[q].on = c
        BY <2>5, <3>1
      <3>4. ASSUME NEW d \in Pair
            PROVE  /\ Chained(scores'[d]) /\ (customer'[d] = None => scores'[d] = <<>>)
                   /\ LeavesEntry(d)' \/ ScoreTold(customer'[d], scores'[d])
        <4>1. CASE d = c
          <5>1. Chained(scores'[d])
            BY <2>4, <2>5, <4>1
          <5>2. customer'[d] # None
            BY <1>0, <2>1, <2>5, <4>1
          <5>3. LeavesEntry(d)'
            BY <3>3, <4>1 DEF LeavesEntry
          <5> QED BY <5>1, <5>2, <5>3
        <4>2. CASE d # c
          <5>1. customer'[d] = customer[d] /\ scores'[d] = scores[d] /\ ~LeavesEntry(d)
            BY <2>1, <2>2, <2>5, <4>2
          <5> QED BY <5>1 DEF ProfilesInTurn
        <4> QED BY <4>1, <4>2
      <3>5. \A q \in Clients : edits'[q].job \in AtWork => q = r /\ edits'[q] = w
        BY <2>2, <2>5
      <3> QED BY <2>2, <2>5, <3>2, <3>4, <3>5 DEF ProfilesInTurn, AtWorkOn
    <2> QED BY <2>7, <2>8
  <1>7. ASSUME NEW r \in Clients, Profiles(s)!UpdateScore(r) PROVE ProfilesInTurn(s)'
    <2> DEFINE c == edits[r].on
               seen == edits[r].seen
    <2>1. PICK row \in Profiles(s)!RowType, n \in ScoresOf(s), e \in Profiles(s)!ScoreEntries :
           /\ edits[r].job = "write" /\ customer[c] \in Profiles(s)!RowType
           /\ customer' = [customer EXCEPT ![c] = row]
           /\ row.score = Profiles(s)!Column(customer[c].score, seen.score, n)
           /\ row.level = Profiles(s)!Column(customer[c].level, seen.level, Profiles(s)!LevelForScore(n))
           /\ scores' = [scores EXCEPT ![c] = Append(scores[c], e)] /\ e.old = seen.score /\ e.new = n
           /\ Profiles(s)!Goto(r, "done")
      BY <1>7, ScoreUpdated
    <2>2. /\ c \in Pair /\ seen = customer[c] /\ customer[c] # None /\ ~LeavesEntry(c)
          /\ \A q \in Clients \ {r} : edits[q].job \notin AtWork
          /\ \A d \in Pair \ {c} : ~LeavesEntry(d)
      BY <1>2, <2>1 DEF AtWork, AtWorkOn, LeavesEntry
    <2>3. row.score = n /\ row.level = Profiles(s)!LevelForScore(n)
      BY <2>1, <2>2 DEF Profiles!Column
    <2>4. /\ customer'[c] = row /\ \A d \in Pair \ {c} : customer'[d] = customer[d]
          /\ scores'[c] = Append(scores[c], e) /\ \A d \in Pair \ {c} : scores'[d] = scores[d]
      BY <1>0, <2>1, <2>2
    <2>5. scores[c] = <<>> \/ e.old = LastScore(scores[c])
      BY <2>1, <2>2 DEF ProfilesInTurn, ScoreTold
    <2>6. Chained(scores'[c]) /\ scores'[c] # <<>> /\ LastScore(scores'[c]) = n
      <3>1. scores[c] \in Seq(Profiles(s)!ScoreEntries) /\ Chained(scores[c])
        BY <1>0, <2>2 DEF ProfilesInTurn
      <3> QED BY <2>1, <2>4, <2>5, <3>1, ChainGrows
    <2>7. ScoreTold(customer'[c], scores'[c])
      BY <1>0, <2>3, <2>4, <2>6 DEF ScoreTold
    <2>8. edits'[r].job \notin AtWork /\ \A q \in Clients \ {r} : edits'[q] = edits[q]
      BY <2>1, ProfileDone DEF AtWork
    <2> QED BY <2>2, <2>4, <2>6, <2>7, <2>8, InTurnEnds
  <1>8. ASSUME NEW r \in Clients, Profiles(s)!WriteHistory(r) PROVE ProfilesInTurn(s)'
    <2> DEFINE c == edits[r].on
               e == edits[r].entry
    <2>1. edits[r].job = "history" /\ Profiles(s)!Goto(r, "done") /\ UNCHANGED customer
      BY <1>8 DEF Profiles!WriteHistory
    <2>2. /\ c \in Pair /\ customer[c] # None /\ e \in Profiles(s)!ScoreEntries
          /\ \A q \in Clients \ {r} : edits[q].job \notin AtWork
          /\ \A d \in Pair \ {c} : ~LeavesEntry(d)
          /\ e.new = customer[c].score /\ (scores[c] = <<>> \/ e.old = LastScore(scores[c]))
      BY <1>2, <2>1 DEF AtWork, AtWorkOn, ProfileInv, ProfilesTyped, ProperWork
    <2>3. scores' = [scores EXCEPT ![c] = Append(scores[c], e)]
      BY <1>8, <2>2 DEF Profiles!WriteHistory, Profiles!Exists
    <2>4. scores'[c] = Append(scores[c], e) /\ \A d \in Pair \ {c} : scores'[d] = scores[d]
      BY <1>0, <2>2, <2>3
    <2>5. Chained(scores'[c]) /\ scores'[c] # <<>> /\ LastScore(scores'[c]) = customer[c].score
      <3>1. scores[c] \in Seq(Profiles(s)!ScoreEntries) /\ Chained(scores[c])
        BY <1>0, <2>2 DEF ProfilesInTurn
      <3> QED BY <2>2, <2>4, <3>1, ChainGrows
    <2>6. ScoreTold(customer'[c], scores'[c])
      BY <2>1, <2>2, <2>5 DEF ProfilesInTurn, ScoreTold
    <2>7. edits'[r].job \notin AtWork /\ \A q \in Clients \ {r} : edits'[q] = edits[q]
      BY <2>1, ProfileDone DEF AtWork
    <2> QED BY <2>1, <2>2, <2>4, <2>5, <2>6, <2>7, InTurnEnds
  <1>9. ASSUME NEW r \in Clients, Profiles(s)!Crash(r) PROVE FALSE
    BY <1>9 DEF Together, Profiles!Crash
  <1>10. ASSUME NEW r \in Clients, Profiles(s)!CreateContact(r) PROVE ProfilesInTurn(s)'
    <2>1. Profiles(s)!Goto(r, "done") /\ UNCHANGED <<customer, scores>> /\ \E c \in Pair : TRUE
      BY <1>10 DEF Profiles!CreateContact
    <2>2. \A q \in Clients : edits[q].job \notin AtWork
      BY <1>10, AloneStarts DEF Profiles!CreateContact
    <2>3. edits'[r].job \notin AtWork /\ \A q \in Clients \ {r} : edits'[q] = edits[q]
      BY <2>1, ProfileDone DEF AtWork
    <2> QED BY <1>3, <2>1, <2>2, <2>3, InTurnEnds DEF ProfilesInTurn
  <1>11. ASSUME NEW r \in Clients, Profiles(s)!TooLate(r) PROVE FALSE
    BY <1>2, <1>11 DEF Profiles!TooLate, Profiles!Exists, AtWork, AtWorkOn
  <1>12. ASSUME NEW r \in Clients, Profiles(s)!Delete(r) PROVE ProfilesInTurn(s)'
    <2> DEFINE c == edits[r].on
    <2>1. /\ edits[r].job = "delete" /\ Profiles(s)!Goto(r, "done") /\ UNCHANGED scores
          /\ customer' = IF Profiles(s)!Free(c) THEN [customer EXCEPT ![c] = None] ELSE customer
      BY <1>12 DEF Profiles!Delete, Profiles!ForeignKeys
    <2>2. /\ c \in Pair /\ ~LeavesEntry(c) /\ \A q \in Clients \ {r} : edits[q].job \notin AtWork
          /\ \A d \in Pair \ {c} : ~LeavesEntry(d)
      BY <1>2, <2>1 DEF AtWork, LeavesEntry
    <2>3. edits'[r].job \notin AtWork /\ \A q \in Clients \ {r} : edits'[q] = edits[q]
      BY <2>1, ProfileDone DEF AtWork
    <2>4. Chained(scores'[c]) /\ ScoreTold(customer'[c], scores'[c])
      BY <1>0, <2>1, <2>2 DEF ProfilesInTurn, ScoreTold, Profiles!Free
    <2>5. \A d \in Pair \ {c} : customer'[d] = customer[d] /\ scores'[d] = scores[d]
      BY <1>0, <2>1, <2>2
    <2> QED BY <2>2, <2>3, <2>4, <2>5, InTurnEnds
  <1>13. ASSUME NEW r \in Clients, Profiles(s)!ImportNew(r) PROVE ProfilesInTurn(s)'
    <2>0. \A q \in Clients : edits[q].job \notin AtWork
      BY <1>13, AloneStarts DEF Profiles!ImportNew
    <2>1. PICK c \in Pair, row \in Profiles(s)!RowType :
           /\ customer[c] = None /\ scores[c] = <<>> /\ scores' = scores
           /\ customer' = [customer EXCEPT ![c] = row] /\ row.score = 0 /\ Profiles(s)!Goto(r, "done")
      BY <1>13, MadeOfRow
    <2>2. customer'[c] = row /\ \A d \in Pair \ {c} : customer'[d] = customer[d]
      BY <1>0, <2>1
    <2>3. Chained(scores'[c]) /\ ScoreTold(customer'[c], scores'[c])
      BY <1>0, <2>1, <2>2 DEF ProfilesInTurn, ScoreTold, LastScore
    <2>4. edits'[r].job \notin AtWork /\ \A q \in Clients \ {r} : edits'[q] = edits[q]
      BY <2>1, ProfileDone DEF AtWork
    <2> QED BY <1>3, <2>0, <2>1, <2>2, <2>3, <2>4, InTurnEnds
  <1>14. ASSUME NEW r \in Clients, Profiles(s)!ImportRow(r) PROVE ProfilesInTurn(s)'
    <2> DEFINE c == edits[r].on
    <2>1. PICK row \in Profiles(s)!RowType :
           /\ edits[r].job = "import" /\ customer[c] \in Profiles(s)!RowType /\ scores' = scores
           /\ customer' = [customer EXCEPT ![c] = row] /\ row.score = customer[c].score /\ Profiles(s)!Goto(r, "done")
      BY <1>14, Overwritten
    <2>2. /\ c \in Pair /\ customer[c] # None /\ ~LeavesEntry(c)
          /\ \A q \in Clients \ {r} : edits[q].job \notin AtWork
          /\ \A d \in Pair \ {c} : ~LeavesEntry(d)
      BY <1>2, <2>1 DEF AtWork, AtWorkOn, LeavesEntry
    <2>3. customer'[c] = row /\ \A d \in Pair \ {c} : customer'[d] = customer[d]
      BY <1>0, <2>1, <2>2
    <2>4. Chained(scores'[c]) /\ ScoreTold(customer'[c], scores'[c])
      BY <1>0, <2>1, <2>2, <2>3 DEF ProfilesInTurn, ScoreTold
    <2>5. edits'[r].job \notin AtWork /\ \A q \in Clients \ {r} : edits'[q] = edits[q]
      BY <2>1, ProfileDone DEF AtWork
    <2> QED BY <2>1, <2>2, <2>3, <2>4, <2>5, InTurnEnds
  <1> QED BY <1>1, <1>4, <1>5, <1>6, <1>7, <1>8, <1>9, <1>10, <1>11, <1>12, <1>13, <1>14 DEF Profiles!Next

(* One after another: a score that changes is written with its level.         *)
LEMMA ScoreMapped ==
  ASSUME NEW s, ProfilesAssumed(s), ~Together(s), ProfileInv(s), ProfilesInTurn(s),
         Profiles(s)!Next \/ UNCHANGED customerVars
  PROVE  Profiles(s)!ScoreMapsLevel
PROOF
  <1>0. /\ customer \in [Pair -> Profiles(s)!RowType \cup {None}] /\ None \notin Profiles(s)!RowType
        /\ \A q \in Clients : edits[q].job \in AtWork => edits[q].on \in Pair
    BY DEF ProfileInv, ProfilesTyped, ProperWork, ProfilesAssumed, Profiles!RecordsAssumption
  <1>1. CASE UNCHANGED customer
    BY <1>1 DEF Profiles!ScoreMapsLevel
  <1>2. ASSUME NEW c \in Pair, NEW row, customer' = [customer EXCEPT ![c] = row],
               customer[c] = None \/ row = None \/ row.score = customer[c].score
                 \/ row.level = Profiles(s)!LevelForScore(row.score)
        PROVE  Profiles(s)!ScoreMapsLevel
    <2> SUFFICES ASSUME NEW d \in Pair, customer[d] # None, customer'[d] # None, customer[d].score # customer'[d].score
                 PROVE  customer'[d].level = Profiles(s)!LevelForScore(customer'[d].score)
      BY DEF Profiles!ScoreMapsLevel, Profiles!Exists, Profiles!LevelForScore
    <2> QED BY <1>0, <1>2
  <1>3. ASSUME NEW r \in Clients, Profiles(s)!UpdateProfile(r) PROVE Profiles(s)!ScoreMapsLevel
    <2> DEFINE c == edits[r].on
               seen == edits[r].seen
    <2>1. PICK row \in Profiles(s)!RowType, new \in Profiles(s)!RowType, n \in ScoresOf(s) \cup {None} :
           /\ edits[r].job = "write"
           /\ customer' = [customer EXCEPT ![c] = row]
           /\ row.score = Profiles(s)!Column(customer[c].score, seen.score, new.score)
           /\ row.level = Profiles(s)!Column(customer[c].level, seen.level, new.level)
           /\ n = None => new.score = seen.score
           /\ n # None => new.score = n /\ new.level = Profiles(s)!LevelForScore(n)
      BY <1>3, ProfileUpdated
    <2>2. c \in Pair /\ seen = customer[c]
      BY <1>0, <2>1 DEF ProfilesInTurn, AtWorkOn, AtWork
    <2>3. row.score = new.score /\ row.level = new.level
      BY <2>1, <2>2 DEF Profiles!Column
    <2>4. row.score = customer[c].score \/ row.level = Profiles(s)!LevelForScore(row.score)
      BY <2>1, <2>2, <2>3
    <2> QED BY <1>2, <2>1, <2>2, <2>4
  <1>4. ASSUME NEW r \in Clients, Profiles(s)!UpdateScore(r) PROVE Profiles(s)!ScoreMapsLevel
    <2> DEFINE c == edits[r].on
               seen == edits[r].seen
    <2>1. PICK row \in Profiles(s)!RowType, n \in ScoresOf(s) :
           /\ edits[r].job = "write"
           /\ customer' = [customer EXCEPT ![c] = row]
           /\ row.score = Profiles(s)!Column(customer[c].score, seen.score, n)
           /\ row.level = Profiles(s)!Column(customer[c].level, seen.level, Profiles(s)!LevelForScore(n))
      BY <1>4, ScoreUpdated
    <2>2. c \in Pair /\ seen = customer[c]
      BY <1>0, <2>1 DEF ProfilesInTurn, AtWorkOn, AtWork
    <2>3. row.score = n /\ row.level = Profiles(s)!LevelForScore(n)
      BY <2>1, <2>2 DEF Profiles!Column
    <2> QED BY <1>2, <2>1, <2>2, <2>3
  <1>5. ASSUME NEW r \in Clients, Profiles(s)!CreateCustomer(r) PROVE Profiles(s)!ScoreMapsLevel
    BY <1>2, <1>5, Created
  <1>6. ASSUME NEW r \in Clients, Profiles(s)!ImportNew(r) PROVE Profiles(s)!ScoreMapsLevel
    BY <1>2, <1>6, MadeOfRow
  <1>7. ASSUME NEW r \in Clients, Profiles(s)!ImportRow(r) PROVE Profiles(s)!ScoreMapsLevel
    <2>1. edits[r].on \in Pair
      BY <1>0, <1>7 DEF Profiles!ImportRow, AtWork
    <2> QED BY <1>2, <1>7, <2>1, Overwritten
  <1>8. ASSUME NEW r \in Clients, Profiles(s)!Delete(r) PROVE Profiles(s)!ScoreMapsLevel
    <2>1. edits[r].on \in Pair
      BY <1>0, <1>8 DEF Profiles!Delete, AtWork
    <2> QED BY <1>1, <1>2, <1>8, <2>1 DEF Profiles!Delete
  <1>9. ASSUME NEW r \in Clients, \/ Profiles(s)!ReadCustomer(r) \/ Profiles(s)!WriteHistory(r) \/ Profiles(s)!Crash(r)
                                   \/ Profiles(s)!CreateContact(r) \/ Profiles(s)!TooLate(r)
        PROVE  UNCHANGED customer
    BY <1>9 DEF Profiles!ReadCustomer, Profiles!WriteHistory, Profiles!Crash, Profiles!CreateContact, Profiles!TooLate
  <1>10. CASE UNCHANGED customerVars \/ Profiles(s)!Finished
    BY <1>1, <1>10 DEF customerVars, Profiles!Finished, Profiles!vars
  <1> QED BY <1>1, <1>3, <1>4, <1>5, <1>6, <1>7, <1>8, <1>9, <1>10 DEF Profiles!Next


(* What the runs check, from the invariants.                                  *)
LEMMA ProfilesTold ==
  ASSUME NEW s, NEW z, ProfilesAssumed(s), ProfileInv(s)
  PROVE  /\ Profiles(s)!TypeOK
         /\ Profiles(z)!StagesInSync /\ Profiles(z)!StagesOnRecord
         /\ ProfilesInTurn(s) => Profiles(s)!ScoresOnRecord
PROOF
  <1>1. Profiles(s)!TypeOK
    BY DEF ProfileInv, ProfilesTyped, ProfileWork, Profiles!TypeOK
  <1>2. Profiles(z)!StagesInSync /\ Profiles(z)!StagesOnRecord
    BY DEF ProfileInv, StageTold, OneStage, Profiles!StagesInSync, Profiles!StagesOnRecord, Profiles!Exists
  <1>4. ASSUME ProfilesInTurn(s) PROVE Profiles(s)!ScoresOnRecord
    <2>1. ASSUME Profiles(s)!Busy = {}, NEW c \in Pair, Profiles(s)!Exists(c)
          PROVE  Profiles(s)!Tells(scores[c], 0, customer[c].score)
      <3>1. ~LeavesEntry(c)
        BY <2>1 DEF LeavesEntry, Profiles!Busy
      <3>2. Chained(scores[c]) /\ ScoreTold(customer[c], scores[c])
        BY <1>4, <3>1 DEF ProfilesInTurn
      <3> QED BY <2>1, <3>2 DEF Chained, ScoreTold, LastScore, Profiles!Exists, Profiles!Tells
    <2> QED BY <2>1 DEF Profiles!ScoresOnRecord
  <1> QED BY <1>1, <1>2, <1>4

LEMMA SameDeletions ==
  ASSUME NEW s, NEW z, Profiles(s)!DeletionIsSafe
  PROVE  Profiles(z)!DeletionIsSafe
  BY DEF Profiles!DeletionIsSafe, Profiles!Exists, Profiles!Free

LEMMA ProfileAssumptions == ProfilesAssumed("together") /\ ProfilesAssumed("in order") /\ ~Together("in order")
PROOF
  <1>1. /\ "together" \in {"together", "in order", "categories"} /\ "in order" \in {"together", "in order", "categories"}
        /\ "in order" # "together"
    OBVIOUS
  <1> QED BY <1>1, DeskAssumption, Zenon DEF DeskAssumption, ProfilesAssumed, Together

ProfilesOnDesk ==
  /\ IF desk = "shared" THEN ProfileInv("together") ELSE ProfileInv("in order")
  /\ desk = "profiles" => ProfilesInTurn("in order")

LEMMA ProfilesOnDeskFirst == DeskInit => ProfilesOnDesk
PROOF
  <1> SUFFICES ASSUME DeskInit PROVE ProfilesOnDesk
    OBVIOUS
  <1>1. Profiles("in order")!Init
    BY DEF DeskInit
  <1>2. Profiles("together")!Init
    BY <1>1 DEF Profiles!Init, Profiles!NoJob, Profiles!Fresh
  <1>3. ProfileInv("in order") /\ ProfilesInTurn("in order") /\ ProfileInv("together")
    BY <1>1, <1>2, ProfileAssumptions, ProfilesFirst, ProfilesInTurnFirst, Zenon
  <1> QED BY <1>3, Zenon DEF ProfilesOnDesk

LEMMA ProfileSteps ==
  ASSUME [DeskNext]_deskVars
  PROVE  /\ desk' = desk
         /\ \/ UNCHANGED customerVars
            \/ desk = "shared" /\ Profiles("together")!Next
            \/ desk = "profiles" /\ Profiles("in order")!Next
PROOF
  BY Zenon DEF DeskNext, deskVars, QuotationStep, FollowupStep, CustomerStep, IntakeStep, TagStep

LEMMA ProfilesOnDeskStay ==
  ASSUME ProfilesOnDesk, [DeskNext]_deskVars
  PROVE  /\ ProfilesOnDesk' /\ Profiles("together")!DeletionIsSafe
         /\ desk = "profiles" => Profiles("in order")!ScoreMapsLevel
PROOF
  <1>1. desk' = desk
    BY ProfileSteps
  <1>2. CASE UNCHANGED customerVars
    <2>1. CASE desk = "shared"
      <3>1. ProfileInv("together")
        BY <2>1, Zenon DEF ProfilesOnDesk
      <3>2. ProfileInv("together")' /\ Profiles("together")!DeletionIsSafe
        BY <1>2, <3>1, ProfileAssumptions, ProfileKept, Zenon
      <3>3. desk' = "shared" /\ desk' # "profiles" /\ desk # "profiles"
        BY <1>1, <2>1
      <3> QED BY <3>2, <3>3, Zenon DEF ProfilesOnDesk
    <2>2. CASE desk # "shared"
      <3>1. ProfileInv("in order") /\ (desk = "profiles" => ProfilesInTurn("in order"))
        BY <2>2, Zenon DEF ProfilesOnDesk
      <3>2. ProfileInv("in order")' /\ Profiles("in order")!DeletionIsSafe
        BY <1>2, <3>1, ProfileAssumptions, ProfileKept, Zenon
      <3>3. desk = "profiles" => ProfilesInTurn("in order")' /\ Profiles("in order")!ScoreMapsLevel
        BY <1>2, <3>1, ProfileAssumptions, ProfilesInTurnKept, ScoreMapped, Zenon
      <3> QED BY <1>1, <2>2, <3>2, <3>3, SameDeletions, Zenon DEF ProfilesOnDesk
    <2> QED BY <2>1, <2>2
  <1>3. CASE desk = "shared" /\ Profiles("together")!Next
    <2>1. ProfileInv("together")
      BY <1>3, Zenon DEF ProfilesOnDesk
    <2>2. ProfileInv("together")' /\ Profiles("together")!DeletionIsSafe
      BY <1>3, <2>1, ProfileAssumptions, ProfileKept, Zenon
    <2>3. desk' = "shared" /\ desk' # "profiles" /\ desk # "profiles"
      BY <1>1, <1>3
    <2> QED BY <2>2, <2>3, Zenon DEF ProfilesOnDesk
  <1>4. CASE desk = "profiles" /\ Profiles("in order")!Next
    <2>0. desk # "shared" /\ desk' # "shared" /\ desk = "profiles" /\ desk' = "profiles"
      BY <1>1, <1>4
    <2>1. ProfileInv("in order") /\ ProfilesInTurn("in order")
      BY <2>0, Zenon DEF ProfilesOnDesk
    <2>2. /\ ProfileInv("in order")' /\ Profiles("in order")!DeletionIsSafe /\ ProfilesInTurn("in order")'
          /\ Profiles("in order")!ScoreMapsLevel
      BY <1>4, <2>1, ProfileAssumptions, ProfileKept, ProfilesInTurnKept, ScoreMapped, Zenon
    <2> QED BY <2>0, <2>2, SameDeletions, Zenon DEF ProfilesOnDesk
  <1> QED BY <1>2, <1>3, <1>4, ProfileSteps, Zenon

(* However requests and imports overlap and instances end, a customer's two   *)
(* stage columns agree and its stage history ends at them, but for what an    *)
(* import has changed since; one request after another, a changed score brings*)
(* its level and the score history tells the whole story, whatever levels     *)
(* clients choose.  For any scores and stages.                                *)
THEOREM CustomersStayOnRecord == DeskSpec => CustomersOnRecord
PROOF
  <1> DEFINE Held == /\ Profiles("together")!TypeOK \/ Profiles("in order")!TypeOK
                     /\ desk = "profiles" => Profiles("in order")!ScoresOnRecord
                     /\ Profiles("together")!StagesInSync
                     /\ Profiles("together")!StagesOnRecord
  <1>1. ProfilesOnDesk => Held
    <2> SUFFICES ASSUME ProfilesOnDesk PROVE Held
      OBVIOUS
    <2>1. CASE desk = "shared"
      <3>1. ProfileInv("together") /\ desk # "profiles"
        BY <2>1, Zenon DEF ProfilesOnDesk
      <3> QED BY <3>1, ProfileAssumptions, ProfilesTold, Zenon
    <2>2. CASE desk # "shared"
      <3>1. ProfileInv("in order") /\ (desk = "profiles" => ProfilesInTurn("in order"))
        BY <2>2, Zenon DEF ProfilesOnDesk
      <3> QED BY <3>1, ProfileAssumptions, ProfilesTold, Zenon
    <2> QED BY <2>1, <2>2
  <1>2. ProfilesOnDesk /\ [DeskNext]_deskVars => ProfilesOnDesk'
    BY ProfilesOnDeskStay
  <1>3. ProfilesOnDesk /\ [DeskNext]_deskVars => [desk = "profiles" => Profiles("in order")!ScoreMapsLevel]_deskVars
    BY ProfilesOnDeskStay
  <1> QED BY <1>1, <1>2, <1>3, ProfilesOnDeskFirst, PTL DEF DeskSpec, CustomersOnRecord
-----------------------------------------------------------------------------
(* Follow-up records and their summaries, in any setting s.                   *)
VisitsAssumed(s) == Visits(s)!ActivityAssumption

DealsOf(s) == IF s = "together" THEN FewDeals ELSE Deals
Ticks == 0..Cardinality(Clients)
VisitRow(s) == [day : Days, next : Days \cup {0}, opp : DealsOf(s) \cup {None}, created : Ticks, updated : Ticks]
VisitDates == [next : Days \cup {0}, last : Ticks, latest : Days \cup {0}]
VisitMarks == [last : Ticks, sent : Ticks, due : BOOLEAN]
VisitJobs == {"idle", "create", "update", "delete", "commit", "done"}
VisitWork(s) ==
  [job : VisitJobs, kind : VisitJobs, id : Pair \cup {None}, now : Ticks,
   old : VisitRow(s) \cup {None}, record : VisitRow(s) \cup {None}, read : VisitDates,
   readOpp : [DealsOf(s) -> VisitMarks], write : VisitDates, writeOpp : [DealsOf(s) -> VisitMarks]]

LEMMA VisitTypes ==
  ASSUME NEW s
  PROVE  /\ Visits(s)!Times = Ticks /\ Visits(s)!Records = VisitRow(s) /\ Visits(s)!Summaries = VisitDates
         /\ Visits(s)!Activities = VisitMarks /\ Visits(s)!Jobs = VisitJobs /\ Visits(s)!Tasks = VisitWork(s)
PROOF
  <1>1. Visits(s)!Cardinality(Clients) = Cardinality(Clients)
    BY DEF Visits!Cardinality, Cardinality, Visits!IsFiniteSet, IsFiniteSet
  <1>2. Visits(s)!Times = Ticks
    BY <1>1, Zenon DEF Visits!Times, Ticks
  <1>3. Visits(s)!Records = VisitRow(s)
    BY <1>2 DEF Visits!Records, VisitRow, DealsOf
  <1>4. Visits(s)!Summaries = VisitDates /\ Visits(s)!Activities = VisitMarks
    BY <1>2 DEF Visits!Summaries, Visits!Activities, VisitDates, VisitMarks
  <1>5. Visits(s)!Jobs = VisitJobs
    BY Zenon DEF Visits!Jobs, VisitJobs
  <1>6. Visits(s)!Tasks = VisitWork(s)
    BY <1>2, <1>3, <1>4, <1>5, Zenon DEF Visits!Tasks, VisitWork, DealsOf
  <1> QED BY <1>2, <1>3, <1>4, <1>5, <1>6

LEMMA VisitNumbers ==
  ASSUME NEW s, VisitsAssumed(s)
  PROVE  /\ IsFiniteSet(Pair) /\ IsFiniteSet(Clients) /\ Cardinality(Clients) \in Nat
         /\ Days \subseteq Nat \ {0} /\ None \notin Pair /\ None \notin VisitRow(s) /\ None \notin DealsOf(s)
         /\ Ticks \subseteq Nat /\ IsFiniteSet(Ticks) /\ 0 \in Ticks
PROOF
  <1>1. \A S : Visits(s)!IsFiniteSet(S) = IsFiniteSet(S)
    BY DEF Visits!IsFiniteSet, IsFiniteSet
  <1>2. /\ Visits(s)!IsFiniteSet(Pair) /\ Visits(s)!IsFiniteSet(Clients)
        /\ Days \subseteq Nat \ {0} /\ None \notin Pair \cup DealsOf(s) \cup Visits(s)!Records
    BY Zenon DEF VisitsAssumed, Visits!ActivityAssumption, DealsOf
  <1>3. IsFiniteSet(Pair) /\ IsFiniteSet(Clients)
    BY <1>1, <1>2, Zenon
  <1>4. Cardinality(Clients) \in Nat
    BY <1>3, FS_CardinalityType
  <1>5. IsFiniteSet(Ticks)
    BY <1>4, FS_Interval DEF Ticks
  <1> QED BY <1>2, <1>3, <1>4, <1>5, VisitTypes DEF Ticks

(* Records created at different times: one of those of the latest day is newer*)
(* than all others.                                                           *)
Apart(v) == \A f, g \in Pair : f # g /\ v[f] # None /\ v[g] # None => v[f].created # v[g].created

LEMMA LatestIs ==
  ASSUME NEW s, VisitsAssumed(s), NEW v \in [Pair -> VisitRow(s) \cup {None}], Apart(v),
         Visits(s)!Rows(v) # {}
  PROVE  LET x == Visits(s)!LatestOf(Visits(s)!Rows(v)) IN
         x \in Visits(s)!Rows(v) /\ \A y \in Visits(s)!Rows(v) : y.day <= x.day
PROOF
  <1> DEFINE R == Visits(s)!Rows(v)
             D == {x.day : x \in R}
  <1>1. /\ \A x \in R : x \in VisitRow(s) /\ x.day \in Nat /\ x.created \in Nat
        /\ \A x \in R, y \in R : x # y => x.created # y.created
    BY VisitNumbers DEF Visits!Rows, VisitRow, Apart
  <1>2. IsFiniteSet(R)
    <2> DEFINE T == {v[f] : f \in Pair}
    <2>1. v \in Surjection(Pair, T)
      BY DEF Surjection
    <2>2. IsFiniteSet(T)
      <3> HIDE DEF T
      <3> QED BY <2>1, VisitNumbers, FS_Surjection
    <2> QED BY <2>2, FS_Subset DEF Visits!Rows
  <1>3. IsFiniteSet(D)
    <2> DEFINE h == [x \in R |-> x.day]
    <2>1. h \in Surjection(R, D)
      BY DEF Surjection
    <2> HIDE DEF R, D, h
    <2> QED BY <1>2, <2>1, FS_Surjection
  <1>4. D \in SUBSET Nat /\ D # {}
    BY <1>1
  <1>5. PICK d \in D : \A e \in D : e <= d
    <2> HIDE DEF D
    <2> QED BY <1>3, <1>4, HasGreatest
  <1> DEFINE C == {x.created : x \in {y \in R : y.day = d}}
  <1>6. C \in SUBSET Ticks /\ C # {}
    BY <1>1, <1>5 DEF VisitRow
  <1>7. C \in SUBSET Nat /\ IsFiniteSet(C)
    <2> HIDE DEF C
    <2> QED BY <1>6, VisitNumbers, FS_Subset
  <1>8. PICK c \in C : \A e \in C : e <= c
    <2> HIDE DEF C
    <2> QED BY <1>6, <1>7, HasGreatest
  <1>9. PICK x \in R : x.day = d /\ x.created = c
    BY <1>8
  <1> HIDE DEF R
  <1>10. \A y \in R : y # x => Visits(s)!Newer(x, y)
    <2> SUFFICES ASSUME NEW y \in R, y # x PROVE Visits(s)!Newer(x, y)
      OBVIOUS
    <2>1. y.day <= d /\ y.day \in Nat /\ d \in Nat /\ y.created \in Nat /\ c \in Nat /\ y.created # c
      BY <1>1, <1>5, <1>9
    <2>2. y.day = d => y.created <= c
      BY <1>8
    <2> QED BY <1>9, <2>1, <2>2 DEF Visits!Newer
  <1>11. \A z \in R : (\A y \in R : y # z => Visits(s)!Newer(z, y)) => \A y \in R : y.day <= z.day
    BY <1>1 DEF Visits!Newer
  <1>12. /\ Visits(s)!LatestOf(R) \in R
         /\ \A y \in R : y # Visits(s)!LatestOf(R) => Visits(s)!Newer(Visits(s)!LatestOf(R), y)
    BY <1>10, Zenon DEF Visits!LatestOf
  <1> QED BY <1>11, <1>12 DEF R

(* The last time of a follow-up of an opportunity, and where it stands.       *)
LEMMA LastIs ==
  ASSUME NEW s, VisitsAssumed(s), NEW R \in SUBSET VisitRow(s), NEW o
  PROVE  LET t == Visits(s)!LastOf(R, o) IN
         /\ t \in Ticks
         /\ t = 0 \/ \E x \in R : x.opp = o /\ t = x.updated
PROOF
  <1> DEFINE T == {x.updated : x \in {y \in R : y.opp = o}} \cup {0}
  <1>1. T \in SUBSET Ticks /\ T # {}
    BY VisitNumbers DEF VisitRow
  <1>2. T \in SUBSET Nat /\ IsFiniteSet(T)
    <2> HIDE DEF T
    <2> QED BY <1>1, VisitNumbers, FS_Subset
  <1>3. \E t \in T : \A e \in T : e <= t
    <2> HIDE DEF T
    <2> QED BY <1>1, <1>2, HasGreatest
  <1>4. Visits(s)!LastOf(R, o) \in T
    BY <1>3 DEF Visits!LastOf
  <1> QED BY <1>1, <1>4

(* What a request at work holds: now is the clock and row what is recorded    *)
(* under its id.                                                              *)
AtVisit(w) == w.job \in {"create", "update", "delete", "commit"}
Creating(w) == AtVisit(w) /\ w.kind = "create"
ProperVisit(s, w, now, row) ==
  AtVisit(w) =>
    /\ w.kind \in {"create", "update", "delete"} /\ w.id \in Pair /\ w.job \in {w.kind, "commit"}
    /\ w.kind = "delete" => w.record = None /\ (w.job = "commit" => w.write.latest = w.read.latest)
    /\ w.kind # "delete" => w.record \in VisitRow(s) /\ w.record.created <= now /\ w.record.updated <= now
    /\ w.kind = "create" => row = None
    /\ w.kind = "update" => /\ w.old \in VisitRow(s) /\ w.old.created = w.record.created
                            /\ row # None => row.created = w.old.created
                            /\ w.job = "commit" => row # None

(* Records, and those being created, have ids and times of their own; of the  *)
(* requests about to commit no two hold the same record.                      *)
VisitsApart ==
  /\ Apart(followup)
  /\ \A r \in Clients : Creating(calls[r]) =>
       /\ \A f \in Pair : followup[f] # None => followup[f].created # calls[r].record.created
       /\ \A q \in Clients \ {r} : /\ calls[q].id # calls[r].id
                                   /\ Creating(calls[q]) => calls[q].record.created # calls[r].record.created
  /\ \A r, q \in Clients : calls[r].job = "commit" /\ calls[q].job = "commit" /\ calls[r].id = calls[q].id => r = q

Started == {r \in Clients : calls[r].job # "idle"}
VisitsTyped(s) ==
  /\ followup \in [Pair -> VisitRow(s) \cup {None}]
  /\ summary \in VisitDates
  /\ activity \in [DealsOf(s) -> VisitMarks]
  /\ calls \in [Clients -> VisitWork(s)]
UpTo(v, now) == \A f \in Pair : v[f] # None => v[f].created <= now /\ v[f].updated <= now

VisitInv(s) ==
  /\ VisitsTyped(s) /\ VisitsApart
  /\ clock = Cardinality(Started)
  /\ UpTo(followup, clock)
  /\ \A r \in Clients : ProperVisit(s, calls[r], clock, followup[calls[r].id])

LEMMA ChangedRow ==
  ASSUME NEW s, NEW row \in VisitRow(s), NEW old \in VisitRow(s), NEW record \in VisitRow(s)
  PROVE  LET new == [c \in DOMAIN record |-> Visits(s)!Column(row[c], old[c], record[c])] IN
         /\ new \in VisitRow(s)
         /\ old.created = record.created => new.created = row.created
         /\ new.updated \in {row.updated, record.updated}
         /\ row = old => new = record
PROOF
  <1> DEFINE K == {"day", "next", "opp", "created", "updated"}
             new == [c \in K |-> Visits(s)!Column(row[c], old[c], record[c])]
  <1>1. DOMAIN record = K
    BY DEF VisitRow
  <1>2. new \in VisitRow(s) /\ new.updated \in {row.updated, record.updated}
    BY DEF VisitRow, Visits!Column
  <1>3. old.created = record.created => new.created = row.created
    BY DEF Visits!Column
  <1>4. row = old => new = record
    <2> SUFFICES ASSUME row = old PROVE new = record
      OBVIOUS
    <2>1. \A c \in K : new[c] = record[c]
      BY DEF Visits!Column
    <2> QED BY <1>2, <2>1 DEF VisitRow
  <1> HIDE DEF new
  <1> QED BY <1>1, <1>2, <1>3, <1>4 DEF new

LEMMA VisitView ==
  ASSUME NEW s, VisitsAssumed(s), VisitInv(s), NEW r \in Clients, AtVisit(calls[r]),
         calls[r].kind = "update" => followup[calls[r].id] # None
  PROVE  LET v == Visits(s)!View(r) IN
         /\ v \in [Pair -> VisitRow(s) \cup {None}] /\ Apart(v) /\ UpTo(v, clock)
         /\ \A f \in Pair : f # calls[r].id => v[f] = followup[f]
         /\ calls[r].kind = "delete" => v[calls[r].id] = None
         /\ calls[r].kind # "delete" => v[calls[r].id] # None
         /\ calls[r].kind = "create" => v[calls[r].id] = calls[r].record
         /\ calls[r].kind = "update" => v[calls[r].id].created = followup[calls[r].id].created
PROOF
  <1> DEFINE w == calls[r]
             i == w.id
             n == Visits(s)!Changed(r)
  <1>1. ProperVisit(s, w, clock, followup[i]) /\ i \in Pair /\ w.kind \in {"create", "update", "delete"}
    BY DEF VisitInv, ProperVisit
  <1>2. /\ followup \in [Pair -> VisitRow(s) \cup {None}] /\ UpTo(followup, clock)
    BY DEF VisitInv, VisitsTyped
  <1>3. Visits(s)!View(r) = [followup EXCEPT ![i] = n]
    BY DEF Visits!View
  <1>4. CASE w.kind = "update"
    <2>1. w.record \in VisitRow(s) /\ w.old \in VisitRow(s) /\ followup[i] \in VisitRow(s)
          /\ w.old.created = w.record.created /\ w.record.updated <= clock
      BY <1>1, <1>2, <1>4 DEF ProperVisit
    <2>2. n = [c \in DOMAIN w.record |-> Visits(s)!Column(followup[i][c], w.old[c], w.record[c])]
      BY <1>4 DEF Visits!Changed
    <2>3. /\ n \in VisitRow(s) /\ n.created = followup[i].created
          /\ n.updated \in {followup[i].updated, w.record.updated}
      BY <2>1, <2>2, ChangedRow
    <2>4. n # None /\ n.created <= clock /\ n.updated <= clock
      BY <1>1, <1>2, <1>4, <2>1, <2>3, VisitNumbers DEF UpTo
    <2> HIDE DEF n
    <2> QED BY <1>1, <1>2, <1>3, <1>4, <2>3, <2>4 DEF VisitInv, VisitsApart, Apart, UpTo
  <1>5. CASE w.kind = "create"
    <2>1. n = w.record
      BY <1>5 DEF Visits!Changed
    <2>2. n \in VisitRow(s) /\ n.created <= clock /\ n.updated <= clock
      BY <1>1, <1>5, <2>1 DEF ProperVisit
    <2>3. n # None
      BY <2>2, VisitNumbers
    <2>4. \A f \in Pair : followup[f] # None => followup[f].created # n.created
      BY <1>5, <2>1 DEF VisitInv, VisitsApart, Creating
    <2> HIDE DEF n
    <2> QED BY <1>1, <1>2, <1>3, <1>5, <2>1, <2>2, <2>3, <2>4 DEF VisitInv, VisitsApart, Apart, UpTo
  <1>6. CASE w.kind = "delete"
    <2>1. n = None
      BY <1>1, <1>6 DEF Visits!Changed, ProperVisit
    <2> HIDE DEF n
    <2> QED BY <1>1, <1>2, <1>3, <1>6, <2>1 DEF VisitInv, VisitsApart, Apart, UpTo
  <1> QED BY <1>1, <1>4, <1>5, <1>6

LEMMA FlushWrites ==
  ASSUME NEW s, VisitsAssumed(s), NEW v \in [Pair -> VisitRow(s) \cup {None}], Apart(v),
         NEW dates \in VisitDates, NEW sync \in BOOLEAN
  PROVE  /\ Visits(s)!Reminder(Visits(s)!Rows(v), dates, sync) \in VisitDates
         /\ ~sync => Visits(s)!Reminder(Visits(s)!Rows(v), dates, sync).latest = dates.latest
         /\ \A o \in DealsOf(s), a \in VisitMarks : Visits(s)!Activity(Visits(s)!Rows(v), o, a) \in VisitMarks
PROOF
  <1> DEFINE R == Visits(s)!Rows(v)
             x == Visits(s)!LatestOf(R)
             new == Visits(s)!Reminder(R, dates, sync)
  <1>1. new \in VisitDates /\ (~sync => new.latest = dates.latest)
    <2>1. CASE R = {}
      <3>1. new = [dates EXCEPT !.next = 0, !.last = 0]
        BY <2>1 DEF Visits!Reminder
      <3> QED BY <3>1, VisitNumbers DEF VisitDates
    <2>2. CASE R # {}
      <3>1. x \in VisitRow(s)
        BY <2>2, LatestIs DEF Visits!Rows
      <3>2. new = [next |-> x.next, last |-> x.updated, latest |-> IF sync THEN x.day ELSE dates.latest]
        BY <2>2 DEF Visits!Reminder
      <3> HIDE DEF x, new
      <3> QED BY <3>1, <3>2 DEF VisitDates, VisitRow
    <2> QED BY <2>1, <2>2
  <1>2. ASSUME NEW o \in DealsOf(s), NEW a \in VisitMarks PROVE Visits(s)!Activity(R, o, a) \in VisitMarks
    <2>1. R \in SUBSET VisitRow(s)
      BY DEF Visits!Rows
    <2>2. PICK t \in Ticks : t = Visits(s)!LastOf(R, o)
      BY <2>1, LastIs
    <2>3. PICK m \in VisitMarks : m = [a EXCEPT !.last = t]
      BY DEF VisitMarks
    <2>4. PICK b \in BOOLEAN : b = Visits(s)!Done(m)
      BY DEF Visits!Done
    <2>5. Visits(s)!Activity(R, o, a) = [m EXCEPT !.due = @ /\ ~b]
      BY <2>2, <2>3, <2>4 DEF Visits!Activity
    <2> QED BY <2>3, <2>4, <2>5 DEF VisitMarks
  <1> QED BY <1>1, <1>2

(* The clock counts the requests that have started.                           *)
LEMMA TickLeft ==
  ASSUME NEW s, VisitsAssumed(s), VisitInv(s)
  PROVE  /\ clock \in Nat
         /\ \A r \in Clients : calls[r].job = "idle" =>
              clock + 1 \in Ticks /\ Cardinality(Started \cup {r}) = clock + 1
PROOF
  <1>1. IsFiniteSet(Started) /\ clock \in Nat
    BY VisitNumbers, FS_Subset, FS_CardinalityType DEF Started, VisitInv
  <1>2. ASSUME NEW r \in Clients, calls[r].job = "idle"
        PROVE  clock + 1 \in Ticks /\ Cardinality(Started \cup {r}) = clock + 1
    <2>1. r \notin Started /\ Started \cup {r} \in SUBSET Clients
      BY <1>2 DEF Started
    <2>2. Cardinality(Started \cup {r}) = clock + 1
      BY <1>1, <2>1, FS_AddElement DEF VisitInv
    <2>3. Cardinality(Started \cup {r}) <= Cardinality(Clients)
      BY <2>1, VisitNumbers, FS_Subset
    <2> QED BY <1>1, <2>2, <2>3, VisitNumbers DEF Ticks
  <1> QED BY <1>1, <1>2

LEMMA VisitsFirst ==
  ASSUME NEW s, VisitsAssumed(s), Visits(s)!Init
  PROVE  VisitInv(s)
PROOF
  <1> DEFINE w0 == Visits(s)!Idle
  <1>1. /\ followup = [f \in Pair |-> None] /\ calls = [r \in Clients |-> w0] /\ clock = 0
        /\ \E d \in Days \cup {0} : summary = [Visits(s)!NoSummary EXCEPT !.latest = d]
        /\ activity = Visits(s)!NoActivity
    BY DEF Visits!Init
  <1>2. summary \in VisitDates /\ activity \in [DealsOf(s) -> VisitMarks]
    BY <1>1, VisitNumbers DEF Visits!NoSummary, Visits!NoActivity, VisitDates, VisitMarks, DealsOf
  <1>3. /\ w0 \in VisitWork(s) /\ w0.job = "idle"
    <2>1. Visits(s)!NoSummary \in VisitDates /\ Visits(s)!NoActivity \in [DealsOf(s) -> VisitMarks]
      BY VisitNumbers DEF Visits!NoSummary, Visits!NoActivity, VisitDates, VisitMarks, DealsOf
    <2> QED BY <2>1, VisitNumbers DEF Visits!Idle, VisitWork, VisitJobs
  <1>4. Started = {}
    BY <1>1, <1>3 DEF Started
  <1>5. clock = Cardinality(Started)
    BY <1>1, <1>4, FS_EmptySet
  <1> HIDE DEF w0
  <1> QED BY <1>1, <1>2, <1>3, <1>5 DEF VisitInv, VisitsTyped, VisitsApart, Apart, UpTo, ProperVisit, AtVisit, Creating

(* A request starts.                                                          *)
LEMMA VisitBegun ==
  ASSUME NEW s, VisitsAssumed(s), VisitInv(s), NEW r \in Clients, calls[r].job = "idle",
         NEW w \in VisitWork(s), AtVisit(w), w.job = w.kind, calls' = [calls EXCEPT ![r] = w],
         clock' = clock + 1, UNCHANGED <<followup, summary, activity>>,
         ProperVisit(s, w, clock + 1, followup[w.id]),
         Creating(w) => w.record.created = clock + 1 /\ \A q \in Clients : calls[q].id # w.id,
         ~Creating(w) => followup[w.id] # None
  PROVE  VisitInv(s)'
PROOF
  <1>1. /\ calls \in [Clients -> VisitWork(s)] /\ UpTo(followup, clock) /\ clock \in Nat
        /\ followup \in [Pair -> VisitRow(s) \cup {None}]
        /\ \A q \in Clients : ProperVisit(s, calls[q], clock, followup[calls[q].id])
    BY TickLeft DEF VisitInv, VisitsTyped
  <1>2. calls' \in [Clients -> VisitWork(s)] /\ calls'[r] = w /\ \A q \in Clients \ {r} : calls'[q] = calls[q]
    BY <1>1
  <1>3. VisitsTyped(s)'
    BY <1>2 DEF VisitInv, VisitsTyped, VisitRow, VisitDates, VisitMarks, VisitWork, VisitJobs, DealsOf, Ticks
  <1>4. clock' = Cardinality(Started')
    <2>1. Started' = Started \cup {r}
      BY <1>2 DEF Started, AtVisit
    <2> QED BY <2>1, TickLeft
  <1>5. UpTo(followup', clock')
    <2>1. \A f \in Pair : followup[f] # None => followup[f].created \in Nat /\ followup[f].updated \in Nat
      BY <1>1, VisitNumbers DEF VisitRow
    <2> QED BY <1>1, <2>1 DEF UpTo
  <1>6. ASSUME NEW q \in Clients PROVE ProperVisit(s, calls'[q], clock', followup'[calls'[q].id])
    <2>1. CASE q = r
      BY <1>2, <2>1
    <2>2. CASE q # r
      <3>1. ProperVisit(s, calls[q], clock, followup[calls[q].id]) /\ calls'[q] = calls[q]
        BY <1>1, <1>2, <2>2
      <3>2. calls[q].record \in VisitRow(s) => calls[q].record.created \in Nat /\ calls[q].record.updated \in Nat
        BY VisitNumbers DEF VisitRow
      <3> QED BY <1>1, <3>1, <3>2 DEF ProperVisit
    <2> QED BY <2>1, <2>2
  <1>7. VisitsApart'
    <2>1. \A q \in Clients : Creating(calls[q]) =>
             /\ calls[q].record.created # clock + 1 /\ followup[calls[q].id] = None
      <3> SUFFICES ASSUME NEW q \in Clients, Creating(calls[q])
                   PROVE  calls[q].record.created # clock + 1 /\ followup[calls[q].id] = None
        OBVIOUS
      <3>1. /\ followup[calls[q].id] = None /\ calls[q].record \in VisitRow(s) /\ calls[q].record.created <= clock
        BY <1>1 DEF ProperVisit, Creating
      <3>2. calls[q].record.created \in Nat
        BY <3>1, VisitNumbers DEF VisitRow
      <3> QED BY <1>1, <3>1, <3>2
    <2>2. \A f \in Pair : followup[f] # None => followup[f].created # clock + 1
      BY <1>1, VisitNumbers DEF UpTo, VisitRow
    <2>3. w.job # "commit"
      BY DEF ProperVisit
    <2> QED BY <1>2, <2>1, <2>2, <2>3 DEF VisitInv, VisitsApart, Apart
  <1>8. \A q \in Clients : ProperVisit(s, calls'[q], clock', followup'[calls'[q].id])
    BY <1>6
  <1>9. (\A q \in Clients : ProperVisit(s, calls[q], clock, followup[calls[q].id]))'
    BY <1>8 DEF ProperVisit, VisitRow, DealsOf, Ticks
  <1>10. UpTo(followup, clock)'
    BY <1>5 DEF UpTo
  <1> QED BY <1>3, <1>4, <1>7, <1>9, <1>10 DEF VisitInv

(* A request at work goes on, or ends, and leaves the records alone.          *)
LEMMA VisitGoesOn ==
  ASSUME NEW s, VisitsAssumed(s), VisitInv(s), NEW r \in Clients, calls[r].job # "idle",
         NEW w \in VisitWork(s), w.job # "idle", calls' = [calls EXCEPT ![r] = w],
         UNCHANGED <<followup, summary, activity, clock>>,
         ProperVisit(s, w, clock, followup[w.id]),
         w.id = calls[r].id \/ w.id = None,
         Creating(w) => Creating(calls[r]) /\ w.id = calls[r].id /\ w.record = calls[r].record,
         w.job = "commit" => \A q \in Clients : calls[q].job = "commit" => calls[q].id # w.id
  PROVE  VisitInv(s)'
PROOF
  <1>1. /\ calls \in [Clients -> VisitWork(s)]
        /\ \A q \in Clients : ProperVisit(s, calls[q], clock, followup[calls[q].id])
    BY DEF VisitInv, VisitsTyped
  <1>2. calls' \in [Clients -> VisitWork(s)] /\ calls'[r] = w /\ \A q \in Clients \ {r} : calls'[q] = calls[q]
    BY <1>1
  <1>3. VisitsTyped(s)'
    BY <1>2 DEF VisitInv, VisitsTyped, VisitRow, VisitDates, VisitMarks, VisitWork, VisitJobs, DealsOf, Ticks
  <1>4. clock' = Cardinality(Started')
    <2>1. Started' = Started
      BY <1>2 DEF Started
    <2> QED BY <2>1 DEF VisitInv
  <1>5. \A q \in Clients : ProperVisit(s, calls'[q], clock, followup[calls'[q].id])
    BY <1>1, <1>2
  <1>6. (\A q \in Clients : ProperVisit(s, calls[q], clock, followup[calls[q].id]))'
    BY <1>5 DEF ProperVisit, VisitRow, DealsOf, Ticks
  <1>7. VisitsApart'
    <2>1. \A q \in Clients : Creating(calls[q]) => calls[q].id \in Pair
      BY <1>1 DEF ProperVisit, Creating
    <2>2. \A q \in Clients : calls[q].job = "commit" => calls[q].id \in Pair
      BY <1>1 DEF ProperVisit, AtVisit
    <2>3. Apart(followup)'
      BY DEF VisitInv, VisitsApart, Apart
    <2>4. ASSUME NEW q \in Clients, Creating(calls'[q])
          PROVE  /\ \A f \in Pair : followup'[f] # None => followup'[f].created # calls'[q].record.created
                 /\ \A p \in Clients \ {q} : /\ calls'[p].id # calls'[q].id
                                             /\ Creating(calls'[p]) => calls'[p].record.created # calls'[q].record.created
      <3>1. Creating(calls[q]) /\ calls'[q].id = calls[q].id /\ calls'[q].record = calls[q].record /\ calls[q].id # None
        BY <1>2, <2>1, <2>4, VisitNumbers
      <3>2. \A p \in Clients \ {q} : calls[p].id # calls[q].id
                                     /\ (Creating(calls[p]) => calls[p].record.created # calls[q].record.created)
        BY <3>1 DEF VisitInv, VisitsApart
      <3>3. \A p \in Clients \ {q} : calls'[p].id # calls[q].id
        BY <1>2, <3>1, <3>2
      <3>4. \A p \in Clients \ {q} : Creating(calls'[p]) => calls'[p].record.created # calls[q].record.created
        BY <1>2, <3>2
      <3> QED BY <3>1, <3>3, <3>4 DEF VisitInv, VisitsApart
    <2>5. ASSUME NEW p \in Clients, NEW q \in Clients, calls'[p].job = "commit", calls'[q].job = "commit",
                 calls'[p].id = calls'[q].id
          PROVE  p = q
      BY <1>2, <2>5 DEF VisitInv, VisitsApart
    <2> QED BY <2>3, <2>4, <2>5 DEF VisitsApart, Creating, AtVisit
  <1>8. UpTo(followup, clock)'
    BY DEF VisitInv, UpTo
  <1> QED BY <1>3, <1>4, <1>6, <1>7, <1>8 DEF VisitInv

(* A commit writes the record and the columns, and its request ends.          *)
LEMMA VisitCommitted ==
  ASSUME NEW s, VisitsAssumed(s), VisitInv(s), NEW r \in Clients, Visits(s)!Commit(r)
  PROVE  VisitInv(s)' /\ Visits(s)!DeletionKeepsDate
PROOF
  <1> DEFINE q0 == calls[r]
             i == q0.id
             v == Visits(s)!View(r)
  <1>1. /\ calls \in [Clients -> VisitWork(s)] /\ summary \in VisitDates /\ activity \in [DealsOf(s) -> VisitMarks]
        /\ \A q \in Clients : ProperVisit(s, calls[q], clock, followup[calls[q].id])
        /\ UpTo(followup, clock)
    BY DEF VisitInv, VisitsTyped
  <1>2. /\ q0.job = "commit" /\ AtVisit(q0) /\ followup' = v /\ clock' = clock
        /\ summary' = [c \in {"next", "last", "latest"} |-> Visits(s)!Column(summary[c], q0.read[c], q0.write[c])]
        /\ activity' = [o \in DealsOf(s) |->
              [c \in {"last", "sent", "due"} |-> Visits(s)!Column(activity[o][c], q0.readOpp[o][c], q0.writeOpp[o][c])]]
        /\ calls' = [calls EXCEPT ![r] = [Visits(s)!Idle EXCEPT !.job = "done"]]
    BY DEF Visits!Commit, Visits!EndOf, DealsOf, AtVisit
  <1>3. /\ q0 \in VisitWork(s) /\ ProperVisit(s, q0, clock, followup[i]) /\ i \in Pair
        /\ q0.kind = "update" => followup[i] # None
    BY <1>1, <1>2 DEF ProperVisit
  <1>4. /\ v \in [Pair -> VisitRow(s) \cup {None}] /\ Apart(v) /\ UpTo(v, clock)
        /\ \A f \in Pair : f # i => v[f] = followup[f]
        /\ q0.kind = "delete" => v[i] = None
        /\ q0.kind # "delete" => v[i] # None
        /\ q0.kind = "create" => v[i] = q0.record
        /\ q0.kind = "update" => v[i].created = followup[i].created
    BY <1>2, <1>3, VisitView
  <1> HIDE DEF v
  <1>5. PICK w \in VisitWork(s) : /\ w.job = "done" /\ w.id = None /\ calls' = [calls EXCEPT ![r] = w]
    <2>1. Visits(s)!NoSummary \in VisitDates /\ Visits(s)!NoActivity \in [DealsOf(s) -> VisitMarks]
      BY VisitNumbers DEF Visits!NoSummary, Visits!NoActivity, VisitDates, VisitMarks, DealsOf
    <2> QED BY <1>2, <2>1, VisitNumbers DEF Visits!Idle, VisitWork, VisitJobs
  <1>6. calls' \in [Clients -> VisitWork(s)] /\ calls'[r] = w /\ \A q \in Clients \ {r} : calls'[q] = calls[q]
    BY <1>1, <1>5
  <1>7. summary' \in VisitDates
    <2>1. q0.read \in VisitDates /\ q0.write \in VisitDates
      BY <1>3 DEF VisitWork
    <2> QED BY <1>1, <1>2, <2>1 DEF VisitDates, Visits!Column
  <1>8. activity' \in [DealsOf(s) -> VisitMarks]
    <2>1. ASSUME NEW o \in DealsOf(s)
          PROVE  [c \in {"last", "sent", "due"} |-> Visits(s)!Column(activity[o][c], q0.readOpp[o][c], q0.writeOpp[o][c])]
                   \in VisitMarks
      <3>1. activity[o] \in VisitMarks /\ q0.readOpp[o] \in VisitMarks /\ q0.writeOpp[o] \in VisitMarks
        BY <1>1, <1>3 DEF VisitWork
      <3>2. PICK x, y, z : x = activity[o] /\ y = q0.readOpp[o] /\ z = q0.writeOpp[o]
        OBVIOUS
      <3>3. \A c \in {"last", "sent", "due"} : Visits(s)!Column(x[c], y[c], z[c]) \in {x[c], z[c]}
        BY DEF Visits!Column
      <3> QED BY <3>1, <3>2, <3>3 DEF VisitMarks
    <2> QED BY <1>2, <2>1
  <1>9. VisitsTyped(s)'
    BY <1>2, <1>4, <1>6, <1>7, <1>8 DEF VisitsTyped, VisitRow, VisitDates, VisitMarks, VisitWork, VisitJobs, DealsOf, Ticks
  <1>10. clock' = Cardinality(Started')
    <2>1. Started' = Started
      BY <1>2, <1>5, <1>6 DEF Started
    <2> QED BY <1>2, <2>1 DEF VisitInv
  <1>11. UpTo(followup, clock)'
    BY <1>2, <1>4 DEF UpTo
  <1>12. ASSUME NEW q \in Clients PROVE ProperVisit(s, calls'[q], clock', followup'[calls'[q].id])
    <2>1. CASE q = r
      BY <1>5, <1>6, <2>1 DEF ProperVisit, AtVisit
    <2>2. CASE q # r
      <3>1. ProperVisit(s, calls[q], clock, followup[calls[q].id]) /\ calls'[q] = calls[q]
        BY <1>1, <1>6, <2>2
      <3>2. CASE calls[q].id # i \/ ~AtVisit(calls[q])
        BY <1>2, <1>4, <3>1, <3>2 DEF ProperVisit
      <3>3. CASE calls[q].id = i /\ AtVisit(calls[q])
        <4>1. ~Creating(calls[q]) /\ q0.kind # "create"
          BY <1>2, <2>2, <3>3 DEF VisitInv, VisitsApart, Creating
        <4>2. calls[q].job # "commit"
          BY <1>2, <2>2, <3>3 DEF VisitInv, VisitsApart
        <4>3. q0.kind = "update" \/ q0.kind = "delete"
          BY <1>2, <1>3, <4>1 DEF ProperVisit
        <4>4. followup'[i] # None => followup[i] # None /\ followup'[i].created = followup[i].created
          BY <1>2, <1>3, <1>4, <4>3
        <4> QED BY <1>2, <3>1, <3>3, <4>1, <4>2, <4>4 DEF ProperVisit, Creating
      <3> QED BY <3>2, <3>3
    <2> QED BY <2>1, <2>2
  <1>13. \A q \in Clients : ProperVisit(s, calls'[q], clock', followup'[calls'[q].id])
    BY <1>12
  <1>14. (\A q \in Clients : ProperVisit(s, calls[q], clock, followup[calls[q].id]))'
    BY <1>13 DEF ProperVisit, VisitRow, DealsOf, Ticks
  <1>15. VisitsApart'
    <2>1. ASSUME NEW q \in Clients, Creating(calls'[q])
          PROVE  /\ \A f \in Pair : followup'[f] # None => followup'[f].created # calls'[q].record.created
                 /\ \A p \in Clients \ {q} : /\ calls'[p].id # calls'[q].id
                                             /\ Creating(calls'[p]) => calls'[p].record.created # calls'[q].record.created
      <3>1. q # r /\ calls'[q] = calls[q] /\ calls[q].id \in Pair
        BY <1>1, <1>5, <1>6, <2>1 DEF Creating, AtVisit, ProperVisit
      <3>2. /\ Creating(calls[q]) /\ i # calls[q].id
            /\ Creating(q0) => q0.record.created # calls[q].record.created
            /\ \A f \in Pair : followup[f] # None => followup[f].created # calls[q].record.created
            /\ \A p \in Clients \ {q} : /\ calls[p].id # calls[q].id
                                        /\ Creating(calls[p]) => calls[p].record.created # calls[q].record.created
        BY <2>1, <3>1 DEF VisitInv, VisitsApart
      <3>3. \A f \in Pair : v[f] # None => v[f].created # calls[q].record.created
        <4>1. v[i] # None => v[i].created # calls[q].record.created
          BY <1>2, <1>3, <1>4, <3>2 DEF Creating, ProperVisit
        <4> QED BY <1>4, <3>2, <4>1
      <3>4. \A p \in Clients \ {q} : /\ calls'[p].id # calls[q].id
                                     /\ Creating(calls'[p]) => calls'[p].record.created # calls[q].record.created
        <4>1. w.id # calls[q].id /\ ~Creating(w)
          BY <1>5, <3>1, VisitNumbers DEF Creating, AtVisit
        <4> QED BY <1>6, <3>2, <4>1
      <3> QED BY <1>2, <3>1, <3>3, <3>4
    <2>2. \A p \in Clients, q \in Clients :
            calls'[p].job = "commit" /\ calls'[q].job = "commit" /\ calls'[p].id = calls'[q].id => p = q
      BY <1>5, <1>6 DEF VisitInv, VisitsApart
    <2>3. Apart(followup)'
      BY <1>2, <1>4 DEF Apart
    <2> QED BY <2>1, <2>2, <2>3 DEF VisitsApart, Creating, AtVisit
  <1>16. VisitInv(s)'
    BY <1>9, <1>10, <1>11, <1>14, <1>15 DEF VisitInv
  <1>17. Visits(s)!DeletionKeepsDate
    <2> SUFFICES ASSUME NEW f \in Pair, followup[f] # None, followup'[f] = None
                 PROVE  summary'.latest = summary.latest
      BY DEF Visits!DeletionKeepsDate
    <2>1. f = i
      BY <1>2, <1>4
    <2>2. q0.kind = "delete"
      BY <1>2, <1>4, <2>1
    <2>3. q0.write.latest = q0.read.latest
      BY <1>2, <1>3, <2>2 DEF ProperVisit
    <2>4. summary'.latest = Visits(s)!Column(summary.latest, q0.read.latest, q0.write.latest)
      BY <1>2
    <2> QED BY <2>3, <2>4 DEF Visits!Column
  <1> QED BY <1>16, <1>17

LEMMA NoVisitWork ==
  ASSUME NEW s, VisitsAssumed(s)
  PROVE  \E w \in VisitWork(s) : /\ w = [Visits(s)!Idle EXCEPT !.job = "done"]
                                 /\ w.job = "done" /\ w.id = None
PROOF
  <1>1. Visits(s)!NoSummary \in VisitDates /\ Visits(s)!NoActivity \in [DealsOf(s) -> VisitMarks]
    BY VisitNumbers DEF Visits!NoSummary, Visits!NoActivity, VisitDates, VisitMarks, DealsOf
  <1> DEFINE w == [Visits(s)!Idle EXCEPT !.job = "done"]
  <1>2. w \in VisitWork(s) /\ w.job = "done" /\ w.id = None
    BY <1>1, VisitNumbers DEF Visits!Idle, VisitWork, VisitJobs
  <1> HIDE DEF w
  <1> QED BY <1>2 DEF w

LEMMA BeginTyped ==
  ASSUME NEW s, VisitsAssumed(s), VisitInv(s), NEW r \in Clients, NEW kind \in {"create", "update", "delete"},
         NEW f \in Pair, NEW record \in VisitRow(s) \cup {None}, Visits(s)!Begin(r, kind, f, record)
  PROVE  \E w \in VisitWork(s) :
           /\ calls[r].job = "idle" /\ clock' = clock + 1 /\ UNCHANGED <<followup, summary, activity>>
           /\ calls' = [calls EXCEPT ![r] = w]
           /\ w.job = kind /\ w.kind = kind /\ w.id = f /\ w.old = followup[f] /\ w.record = record
           /\ w.read = summary /\ w.readOpp = activity
PROOF
  <1> DEFINE w == [calls[r] EXCEPT !.job = kind, !.kind = kind, !.id = f, !.now = clock + 1, !.old = followup[f],
                                   !.record = record, !.read = summary, !.readOpp = activity]
  <1>1. /\ calls[r].job = "idle" /\ clock' = clock + 1 /\ UNCHANGED <<followup, summary, activity>>
        /\ calls' = [calls EXCEPT ![r] = w]
    BY DEF Visits!Begin, Visits!MayStart
  <1>2. clock + 1 \in Ticks
    BY <1>1, TickLeft
  <1>3. /\ calls[r] \in VisitWork(s) /\ followup[f] \in VisitRow(s) \cup {None}
        /\ summary \in VisitDates /\ activity \in [DealsOf(s) -> VisitMarks] /\ kind \in VisitJobs
    BY DEF VisitInv, VisitsTyped, VisitJobs
  <1>4. /\ w \in VisitWork(s) /\ w.job = kind /\ w.kind = kind /\ w.id = f /\ w.old = followup[f] /\ w.record = record
        /\ w.read = summary /\ w.readOpp = activity
    BY <1>2, <1>3 DEF VisitWork
  <1> HIDE DEF w
  <1> QED BY <1>1, <1>4

LEMMA VisitStarts ==
  ASSUME NEW s, VisitsAssumed(s), VisitInv(s), NEW r \in Clients,
         Visits(s)!StartCreate(r) \/ Visits(s)!StartUpdate(r) \/ Visits(s)!StartDelete(r)
  PROVE  VisitInv(s)' /\ Visits(s)!DeletionKeepsDate
PROOF
  <1>0. clock \in Nat /\ UpTo(followup, clock) /\ followup \in [Pair -> VisitRow(s) \cup {None}]
    BY TickLeft DEF VisitInv, VisitsTyped
  <1>1. CASE Visits(s)!StartCreate(r)
    <2>1. PICK f \in Pair, d \in Days, n \in Days \cup {0}, o \in DealsOf(s) \cup {None} :
            /\ followup[f] = None /\ \A q \in Clients : calls[q].id # f
            /\ Visits(s)!Begin(r, "create", f, [day |-> d, next |-> n, opp |-> o, created |-> clock + 1, updated |-> clock + 1])
      BY <1>1 DEF Visits!StartCreate, DealsOf
    <2>2. calls[r].job = "idle"
      BY <2>1 DEF Visits!Begin, Visits!MayStart
    <2>3. clock + 1 \in Ticks
      BY <2>2, TickLeft
    <2> DEFINE x == [day |-> d, next |-> n, opp |-> o, created |-> clock + 1, updated |-> clock + 1]
    <2>4. /\ Visits(s)!Begin(r, "create", f, x)
          /\ x \in VisitRow(s) /\ x.created = clock + 1 /\ x.updated = clock + 1
      BY <2>1, <2>3 DEF VisitRow
    <2> HIDE DEF x
    <2>5. PICK w \in VisitWork(s) :
           /\ calls[r].job = "idle" /\ clock' = clock + 1 /\ UNCHANGED <<followup, summary, activity>>
           /\ calls' = [calls EXCEPT ![r] = w]
           /\ w.job = "create" /\ w.kind = "create" /\ w.id = f /\ w.record = x
      BY <2>4, BeginTyped
    <2>6. ProperVisit(s, w, clock + 1, followup[w.id])
      BY <1>0, <2>1, <2>4, <2>5 DEF ProperVisit
    <2>7. AtVisit(w) /\ Creating(w)
      BY <2>5 DEF AtVisit, Creating
    <2>8. VisitInv(s)'
      BY <2>1, <2>4, <2>5, <2>6, <2>7, VisitBegun
    <2> QED BY <2>5, <2>8 DEF Visits!DeletionKeepsDate
  <1>2. CASE Visits(s)!StartUpdate(r)
    <2>1. PICK f \in Pair, d \in Days, n \in Days \cup {0}, o \in DealsOf(s) \cup {None} :
            /\ followup[f] # None
            /\ LET new == [followup[f] EXCEPT !.day = d, !.next = n, !.opp = o]
               IN Visits(s)!Begin(r, "update", f, IF new = followup[f] THEN new ELSE [new EXCEPT !.updated = clock + 1])
      BY <1>2 DEF Visits!StartUpdate, DealsOf
    <2>2. calls[r].job = "idle"
      BY <2>1 DEF Visits!Begin, Visits!MayStart
    <2>3. clock + 1 \in Ticks
      BY <2>2, TickLeft
    <2>4. /\ followup[f] \in VisitRow(s) /\ followup[f].created <= clock /\ followup[f].updated <= clock
          /\ followup[f].created \in Nat /\ followup[f].updated \in Nat
      BY <1>0, <2>1, VisitNumbers DEF UpTo, VisitRow
    <2> DEFINE x == [followup[f] EXCEPT !.day = d, !.next = n, !.opp = o]
               z == [x EXCEPT !.updated = clock + 1]
               y == IF x = followup[f] THEN x ELSE z
    <2>5. x \in VisitRow(s) /\ x.created = followup[f].created /\ x.updated = followup[f].updated
      BY <2>4 DEF VisitRow
    <2>6. y \in VisitRow(s) /\ y.created = followup[f].created /\ y.updated <= clock + 1
      <3> HIDE DEF x
      <3>1. z \in VisitRow(s) /\ z.created = x.created /\ z.updated = clock + 1
        BY <2>3, <2>5 DEF VisitRow
      <3> HIDE DEF z
      <3> QED BY <1>0, <2>3, <2>4, <2>5, <3>1, VisitNumbers
    <2>7. Visits(s)!Begin(r, "update", f, y)
      BY <2>1
    <2> HIDE DEF y
    <2>8. PICK w \in VisitWork(s) :
           /\ calls[r].job = "idle" /\ clock' = clock + 1 /\ UNCHANGED <<followup, summary, activity>>
           /\ calls' = [calls EXCEPT ![r] = w]
           /\ w.job = "update" /\ w.kind = "update" /\ w.id = f /\ w.old = followup[f] /\ w.record = y
      BY <2>6, <2>7, BeginTyped
    <2>9. ProperVisit(s, w, clock + 1, followup[w.id])
      BY <1>0, <2>1, <2>4, <2>6, <2>8 DEF ProperVisit
    <2>10. AtVisit(w) /\ ~Creating(w)
      BY <2>8 DEF AtVisit, Creating
    <2>11. VisitInv(s)'
      BY <2>1, <2>8, <2>9, <2>10, VisitBegun
    <2> QED BY <2>8, <2>11 DEF Visits!DeletionKeepsDate
  <1>3. CASE Visits(s)!StartDelete(r)
    <2>1. PICK f \in Pair : followup[f] # None /\ Visits(s)!Begin(r, "delete", f, None)
      BY <1>3 DEF Visits!StartDelete
    <2>2. PICK w \in VisitWork(s) :
           /\ calls[r].job = "idle" /\ clock' = clock + 1 /\ UNCHANGED <<followup, summary, activity>>
           /\ calls' = [calls EXCEPT ![r] = w]
           /\ w.job = "delete" /\ w.kind = "delete" /\ w.id = f /\ w.record = None
      BY <2>1, BeginTyped
    <2>3. ProperVisit(s, w, clock + 1, followup[w.id])
      BY <2>2 DEF ProperVisit
    <2>4. AtVisit(w) /\ ~Creating(w)
      BY <2>2 DEF AtVisit, Creating
    <2>5. VisitInv(s)'
      BY <2>1, <2>2, <2>3, <2>4, VisitBegun
    <2> QED BY <2>2, <2>5 DEF Visits!DeletionKeepsDate
  <1> QED BY <1>1, <1>2, <1>3

LEMMA VisitFlushed ==
  ASSUME NEW s, VisitsAssumed(s), VisitInv(s), NEW r \in Clients, Visits(s)!Flush(r) \/ Visits(s)!TooLate(r)
  PROVE  VisitInv(s)' /\ Visits(s)!DeletionKeepsDate
PROOF
  <1>0. calls[r] \in VisitWork(s) /\ ProperVisit(s, calls[r], clock, followup[calls[r].id])
        /\ activity \in [DealsOf(s) -> VisitMarks]
    BY DEF VisitInv, VisitsTyped
  <1>1. CASE Visits(s)!Flush(r)
    <2> DEFINE R == Visits(s)!Rows(Visits(s)!View(r))
               x == Visits(s)!Reminder(R, calls[r].read, calls[r].kind # "delete")
               y == [o \in DealsOf(s) |-> IF o \in Visits(s)!Touched(r) THEN Visits(s)!Activity(R, o, calls[r].readOpp[o])
                                                                         ELSE calls[r].readOpp[o]]
               w == [calls[r] EXCEPT !.job = "commit", !.write = x, !.writeOpp = y]
    <2>1. /\ calls[r].job \in {"create", "update", "delete"}
          /\ \A q \in Clients : calls[q].job = "commit" => calls[q].id # calls[r].id
          /\ calls[r].kind = "update" => followup[calls[r].id] # None
          /\ calls' = [calls EXCEPT ![r] = w] /\ UNCHANGED <<followup, summary, activity, clock>>
      BY <1>1 DEF Visits!Flush, DealsOf
    <2>2. Visits(s)!View(r) \in [Pair -> VisitRow(s) \cup {None}] /\ Apart(Visits(s)!View(r)) /\ AtVisit(calls[r])
      BY <2>1, VisitView DEF AtVisit
    <2>3. calls[r].read \in VisitDates /\ calls[r].readOpp \in [DealsOf(s) -> VisitMarks]
      BY <1>0 DEF VisitWork
    <2>4. x \in VisitDates /\ (calls[r].kind = "delete" => x.latest = calls[r].read.latest)
      BY <2>2, <2>3, FlushWrites
    <2>5. y \in [DealsOf(s) -> VisitMarks]
      BY <2>2, <2>3, FlushWrites
    <2> HIDE DEF x, y
    <2>6. /\ w \in VisitWork(s) /\ w.job = "commit" /\ w.kind = calls[r].kind /\ w.id = calls[r].id
          /\ w.old = calls[r].old /\ w.record = calls[r].record /\ w.read = calls[r].read /\ w.write = x
      BY <1>0, <2>4, <2>5 DEF VisitWork, VisitJobs
    <2> HIDE DEF w
    <2>7. ProperVisit(s, w, clock, followup[w.id])
      BY <1>0, <2>1, <2>2, <2>4, <2>6 DEF ProperVisit
    <2>8. Creating(w) => Creating(calls[r])
      BY <2>2, <2>6 DEF Creating
    <2>9. VisitInv(s)'
      BY <2>1, <2>6, <2>7, <2>8, VisitGoesOn
    <2> QED BY <2>1, <2>9 DEF Visits!DeletionKeepsDate
  <1>2. CASE Visits(s)!TooLate(r)
    <2>1. PICK w \in VisitWork(s) : /\ w = [Visits(s)!Idle EXCEPT !.job = "done"] /\ w.job = "done" /\ w.id = None
      BY NoVisitWork
    <2>2. /\ calls[r].job = "update" /\ calls' = [calls EXCEPT ![r] = w]
          /\ UNCHANGED <<followup, summary, activity, clock>>
      BY <1>2, <2>1 DEF Visits!TooLate, Visits!EndOf
    <2>3. ProperVisit(s, w, clock, followup[w.id]) /\ ~Creating(w) /\ calls[r].job # "idle"
      BY <2>1, <2>2 DEF ProperVisit, AtVisit, Creating
    <2>4. VisitInv(s)'
      BY <2>1, <2>2, <2>3, VisitGoesOn
    <2> QED BY <2>2, <2>4 DEF Visits!DeletionKeepsDate
  <1> QED BY <1>1, <1>2

LEMMA SentMarked ==
  ASSUME NEW s, VisitsAssumed(s), VisitInv(s), NEW r \in Clients, NEW o \in DealsOf(s), Visits(s)!MarkSent(r, o)
  PROVE  VisitInv(s)' /\ Visits(s)!DeletionKeepsDate
PROOF
  <1>1. PICK w \in VisitWork(s) : /\ w = [Visits(s)!Idle EXCEPT !.job = "done"] /\ w.job = "done" /\ w.id = None
    BY NoVisitWork
  <1>2. /\ calls[r].job = "idle" /\ clock' = clock + 1 /\ calls' = [calls EXCEPT ![r] = w]
        /\ activity' = [activity EXCEPT ![o].sent = clock + 1, ![o].due = TRUE]
        /\ UNCHANGED <<followup, summary>>
    BY <1>1 DEF Visits!MarkSent, Visits!MayStart, Visits!EndOf
  <1>3. /\ calls \in [Clients -> VisitWork(s)] /\ activity \in [DealsOf(s) -> VisitMarks]
        /\ \A q \in Clients : ProperVisit(s, calls[q], clock, followup[calls[q].id])
        /\ UpTo(followup, clock) /\ clock \in Nat /\ followup \in [Pair -> VisitRow(s) \cup {None}]
    BY TickLeft DEF VisitInv, VisitsTyped
  <1>4. calls' \in [Clients -> VisitWork(s)] /\ calls'[r] = w /\ \A q \in Clients \ {r} : calls'[q] = calls[q]
    BY <1>2, <1>3
  <1>5. clock + 1 \in Ticks /\ Cardinality(Started \cup {r}) = clock + 1
    BY <1>2, TickLeft
  <1>6. activity' \in [DealsOf(s) -> VisitMarks]
    BY <1>2, <1>3, <1>5 DEF VisitMarks
  <1>7. VisitsTyped(s)'
    BY <1>2, <1>4, <1>6 DEF VisitInv, VisitsTyped, VisitRow, VisitDates, VisitMarks, VisitWork, VisitJobs, DealsOf, Ticks
  <1>8. clock' = Cardinality(Started')
    <2>1. Started' = Started \cup {r}
      BY <1>1, <1>4 DEF Started
    <2> QED BY <1>2, <1>5, <2>1
  <1>9. UpTo(followup, clock)'
    <2>1. \A f \in Pair : followup[f] # None => followup[f].created \in Nat /\ followup[f].updated \in Nat
      BY <1>3, VisitNumbers DEF VisitRow
    <2> QED BY <1>2, <1>3, <2>1 DEF UpTo
  <1>10. ASSUME NEW q \in Clients PROVE ProperVisit(s, calls'[q], clock', followup'[calls'[q].id])
    <2>1. CASE q = r
      BY <1>1, <1>4, <2>1 DEF ProperVisit, AtVisit
    <2>2. CASE q # r
      <3>1. ProperVisit(s, calls[q], clock, followup[calls[q].id]) /\ calls'[q] = calls[q]
        BY <1>3, <1>4, <2>2
      <3>2. calls[q].record \in VisitRow(s) => calls[q].record.created \in Nat /\ calls[q].record.updated \in Nat
        BY VisitNumbers DEF VisitRow
      <3> QED BY <1>2, <1>3, <3>1, <3>2 DEF ProperVisit
    <2> QED BY <2>1, <2>2
  <1>11. \A q \in Clients : ProperVisit(s, calls'[q], clock', followup'[calls'[q].id])
    BY <1>10
  <1>12. (\A q \in Clients : ProperVisit(s, calls[q], clock, followup[calls[q].id]))'
    BY <1>11 DEF ProperVisit, VisitRow, DealsOf, Ticks
  <1>13. VisitsApart'
    <2>1. \A q \in Clients : Creating(calls[q]) => calls[q].id # None
      BY <1>3, VisitNumbers DEF ProperVisit, Creating
    <2>2. ~Creating(w) /\ w.job # "commit" /\ w.id = None
      BY <1>1 DEF Creating, AtVisit
    <2>3. \A q \in Clients : Creating(calls'[q]) => q # r /\ Creating(calls[q]) /\ calls'[q] = calls[q]
      BY <1>4, <2>2
    <2> QED BY <1>2, <1>4, <2>1, <2>2, <2>3 DEF VisitInv, VisitsApart, Apart
  <1>14. VisitInv(s)'
    BY <1>7, <1>8, <1>9, <1>12, <1>13 DEF VisitInv
  <1> QED BY <1>2, <1>14 DEF Visits!DeletionKeepsDate

LEMMA VisitsKept ==
  ASSUME NEW s, VisitsAssumed(s), VisitInv(s), Visits(s)!Next \/ UNCHANGED followupVars
  PROVE  VisitInv(s)' /\ Visits(s)!DeletionKeepsDate
PROOF
  <1>1. CASE UNCHANGED followupVars \/ Visits(s)!Finished
    <2>1. UNCHANGED <<followup, summary, activity, clock, calls>>
      BY <1>1 DEF followupVars, Visits!Finished, Visits!vars
    <2>2. VisitInv(s)'
      BY <2>1 DEF VisitInv, VisitsTyped, VisitsApart, Apart, Started, UpTo, ProperVisit, AtVisit, Creating,
         VisitRow, VisitDates, VisitMarks, VisitWork, VisitJobs, DealsOf, Ticks
    <2> QED BY <2>1, <2>2 DEF Visits!DeletionKeepsDate
  <1>2. ASSUME NEW r \in Clients, NEW o \in DealsOf(s), Visits(s)!MarkSent(r, o)
        PROVE  VisitInv(s)' /\ Visits(s)!DeletionKeepsDate
    BY <1>2, SentMarked
  <1>3. ASSUME NEW r \in Clients, Visits(s)!StartCreate(r) \/ Visits(s)!StartUpdate(r) \/ Visits(s)!StartDelete(r)
        PROVE  VisitInv(s)' /\ Visits(s)!DeletionKeepsDate
    BY <1>3, VisitStarts
  <1>4. ASSUME NEW r \in Clients, Visits(s)!Flush(r) \/ Visits(s)!TooLate(r)
        PROVE  VisitInv(s)' /\ Visits(s)!DeletionKeepsDate
    BY <1>4, VisitFlushed
  <1>5. ASSUME NEW r \in Clients, Visits(s)!Commit(r) PROVE VisitInv(s)' /\ Visits(s)!DeletionKeepsDate
    BY <1>5, VisitCommitted
  <1> QED BY <1>1, <1>2, <1>3, <1>4, <1>5 DEF Visits!Next, DealsOf

LEMMA VisitsTold ==
  ASSUME NEW s, VisitsAssumed(s), VisitInv(s)
  PROVE  Visits(s)!TypeOK
PROOF
  <1>1. clock \in Ticks
    <2>1. IsFiniteSet(Clients) /\ Started \in SUBSET Clients
      BY VisitNumbers DEF Started
    <2>2. Cardinality(Started) \in Nat /\ Cardinality(Started) <= Cardinality(Clients)
      BY <2>1, FS_Subset, FS_CardinalityType
    <2> QED BY <2>2, VisitNumbers DEF VisitInv, Ticks
  <1>2. VisitsTyped(s)
    BY DEF VisitInv
  <1> QED BY <1>1, <1>2, VisitTypes, Zenon DEF VisitsTyped, Visits!TypeOK, DealsOf

(* One after another, a request works on what is recorded, its columns are    *)
(* computed from it, and the columns tell what is recorded at every moment.   *)
RowsWith(s, w) == Visits(s)!Rows([followup EXCEPT ![w.id] = w.record])
WorkKnown(s, w) ==
  /\ w.read = summary /\ w.readOpp = activity /\ w.old = followup[w.id]
  /\ w.job = "commit" =>
       /\ w.write = Visits(s)!Reminder(RowsWith(s, w), w.read, w.kind # "delete")
       /\ w.writeOpp = [o \in DealsOf(s) |->
                          IF o \in Visits(s)!OppOf(w.old) \cup Visits(s)!OppOf(w.record)
                          THEN Visits(s)!Activity(RowsWith(s, w), o, w.readOpp[o]) ELSE w.readOpp[o]]

DatesTold(s, R) ==
  /\ IF R = {} THEN summary.next = 0 /\ summary.last = 0
     ELSE LET x == Visits(s)!LatestOf(R) IN summary.next = x.next /\ summary.last = x.updated
  /\ \A x \in R : summary.latest >= x.day
MarksTold(s, R) ==
  \A o \in DealsOf(s) : /\ activity[o].last = Visits(s)!LastOf(R, o)
                        /\ activity[o].due => ~Visits(s)!Done(activity[o])

VisitsInTurn(s) ==
  /\ \A r, q \in Clients : AtVisit(calls[r]) /\ AtVisit(calls[q]) => r = q
  /\ \A r \in Clients : AtVisit(calls[r]) => WorkKnown(s, calls[r])
  /\ DatesTold(s, Visits(s)!Rows(followup))
  /\ MarksTold(s, Visits(s)!Rows(followup))

LEMMA VisitsInTurnFirst ==
  ASSUME NEW s, VisitsAssumed(s), Visits(s)!Init
  PROVE  VisitsInTurn(s)
PROOF
  <1>1. /\ followup = [f \in Pair |-> None] /\ calls = [r \in Clients |-> Visits(s)!Idle]
        /\ \E d \in Days \cup {0} : summary = [Visits(s)!NoSummary EXCEPT !.latest = d]
        /\ activity = [o \in DealsOf(s) |-> [last |-> 0, sent |-> 0, due |-> FALSE]]
    BY DEF Visits!Init, Visits!NoActivity, DealsOf
  <1>2. Visits(s)!Rows(followup) = {}
    BY <1>1 DEF Visits!Rows
  <1>3. \A r \in Clients : ~AtVisit(calls[r])
    BY <1>1 DEF AtVisit, Visits!Idle
  <1>4. DatesTold(s, {})
    <2>1. summary.next = 0 /\ summary.last = 0
      BY <1>1 DEF Visits!NoSummary
    <2> QED BY <2>1 DEF DatesTold
  <1>5. MarksTold(s, {})
    <2>1. \A o : Visits(s)!LastOf({}, o) = 0
      <3> SUFFICES ASSUME NEW o PROVE Visits(s)!LastOf({}, o) = 0
        OBVIOUS
      <3>1. {x.updated : x \in {y \in {} : y.opp = o}} \cup {0} = {0}
        OBVIOUS
      <3> QED BY <3>1 DEF Visits!LastOf
    <2> QED BY <1>1, <2>1 DEF MarksTold
  <1> QED BY <1>2, <1>3, <1>4, <1>5 DEF VisitsInTurn

(* A request starts when no other is at work.                                 *)
LEMMA NobodyAtVisit ==
  ASSUME NEW s, VisitInv(s), ~Together(s), NEW r \in Clients, Visits(s)!MayStart(r)
  PROVE  \A q \in Clients : ~AtVisit(calls[q])
  BY DEF Together, Visits!MayStart, Visits!Active, AtVisit

LEMMA InTurnStarts ==
  ASSUME NEW s, VisitsAssumed(s), VisitInv(s), VisitsInTurn(s), ~Together(s), NEW r \in Clients,
         Visits(s)!StartCreate(r) \/ Visits(s)!StartUpdate(r) \/ Visits(s)!StartDelete(r)
  PROVE  VisitsInTurn(s)'
PROOF
  <1>1. PICK kind, f, record : kind \in {"create", "update", "delete"} /\ Visits(s)!Begin(r, kind, f, record)
    <2>1. ASSUME Visits(s)!StartCreate(r) PROVE \E f, record : Visits(s)!Begin(r, "create", f, record)
      BY <2>1, Zenon DEF Visits!StartCreate
    <2>2. ASSUME Visits(s)!StartUpdate(r) PROVE \E f, record : Visits(s)!Begin(r, "update", f, record)
      BY <2>2, Zenon DEF Visits!StartUpdate
    <2>3. ASSUME Visits(s)!StartDelete(r) PROVE \E f, record : Visits(s)!Begin(r, "delete", f, record)
      BY <2>3, Zenon DEF Visits!StartDelete
    <2> QED BY <2>1, <2>2, <2>3
  <1>0. PICK w : w = [calls[r] EXCEPT !.job = kind, !.kind = kind, !.id = f, !.now = clock + 1, !.old = followup[f],
                                      !.record = record, !.read = summary, !.readOpp = activity]
    OBVIOUS
  <1>2. /\ Visits(s)!MayStart(r) /\ UNCHANGED <<followup, summary, activity>> /\ calls' = [calls EXCEPT ![r] = w]
    BY <1>0, <1>1 DEF Visits!Begin
  <1>3. calls \in [Clients -> VisitWork(s)]
    BY DEF VisitInv, VisitsTyped
  <1>4. w.job = kind /\ w.id = f /\ w.old = followup[f] /\ w.read = summary /\ w.readOpp = activity
    BY <1>0, <1>3 DEF VisitWork
  <1>5. calls'[r] = w /\ \A q \in Clients \ {r} : ~AtVisit(calls'[q])
    BY <1>2, <1>3, NobodyAtVisit
  <1>6. WorkKnown(s, w)'
    BY <1>1, <1>2, <1>4 DEF WorkKnown
  <1>7. \A q \in Clients : AtVisit(calls'[q]) => q = r
    BY <1>5
  <1>8. (\A q \in Clients : AtVisit(calls[q]) => WorkKnown(s, calls[q]))'
    BY <1>5, <1>6, <1>7 DEF WorkKnown, AtVisit
  <1>9. DatesTold(s, Visits(s)!Rows(followup))' /\ MarksTold(s, Visits(s)!Rows(followup))'
    BY <1>2 DEF VisitsInTurn, DatesTold, MarksTold, Visits!Rows, DealsOf
  <1> QED BY <1>7, <1>8, <1>9 DEF VisitsInTurn, AtVisit

(* In turn, what a request sees after its flush is its own record beside what *)
(* is recorded.                                                               *)
LEMMA ViewInTurn ==
  ASSUME NEW s, VisitsAssumed(s), VisitInv(s), NEW r \in Clients, AtVisit(calls[r]), WorkKnown(s, calls[r]),
         calls[r].kind = "update" => followup[calls[r].id] # None
  PROVE  Visits(s)!View(r) = [followup EXCEPT ![calls[r].id] = calls[r].record]
PROOF
  <1>1. ProperVisit(s, calls[r], clock, followup[calls[r].id])
    BY DEF VisitInv
  <1>2. Visits(s)!Changed(r) = calls[r].record
    <2>1. CASE calls[r].kind = "update"
      <3>1. /\ calls[r].record \in VisitRow(s) /\ calls[r].old \in VisitRow(s) /\ followup[calls[r].id] = calls[r].old
        BY <1>1, <2>1 DEF ProperVisit, WorkKnown
      <3>2. Visits(s)!Changed(r) =
              [c \in DOMAIN calls[r].record |->
                 Visits(s)!Column(followup[calls[r].id][c], calls[r].old[c], calls[r].record[c])]
        BY <2>1 DEF Visits!Changed
      <3> QED BY <3>1, <3>2, ChangedRow
    <2>2. CASE calls[r].kind # "update"
      BY <2>2 DEF Visits!Changed
    <2> QED BY <2>1, <2>2
  <1> QED BY <1>2 DEF Visits!View

LEMMA InTurnFlushed ==
  ASSUME NEW s, VisitsAssumed(s), VisitInv(s), VisitsInTurn(s), NEW r \in Clients, Visits(s)!Flush(r)
  PROVE  VisitsInTurn(s)'
PROOF
  <1> DEFINE R == Visits(s)!Rows(Visits(s)!View(r))
  <1>0. PICK x, y : /\ x = Visits(s)!Reminder(R, calls[r].read, calls[r].kind # "delete")
                    /\ y = [o \in DealsOf(s) |->
                              IF o \in Visits(s)!OppOf(calls[r].old) \cup Visits(s)!OppOf(calls[r].record)
                              THEN Visits(s)!Activity(R, o, calls[r].readOpp[o]) ELSE calls[r].readOpp[o]]
    OBVIOUS
  <1>1. PICK w : w = [calls[r] EXCEPT !.job = "commit", !.write = x, !.writeOpp = y]
    OBVIOUS
  <1>2. /\ calls[r].job \in {"create", "update", "delete"}
        /\ calls[r].kind = "update" => followup[calls[r].id] # None
        /\ calls' = [calls EXCEPT ![r] = w] /\ UNCHANGED <<followup, summary, activity>>
    BY <1>0, <1>1 DEF Visits!Flush, Visits!Touched, DealsOf
  <1>3. /\ calls \in [Clients -> VisitWork(s)] /\ AtVisit(calls[r]) /\ WorkKnown(s, calls[r])
        /\ \A q \in Clients \ {r} : ~AtVisit(calls[q])
    BY <1>2 DEF VisitInv, VisitsTyped, VisitsInTurn, AtVisit
  <1>4. /\ w.job = "commit" /\ w.kind = calls[r].kind /\ w.id = calls[r].id /\ w.old = calls[r].old
        /\ w.record = calls[r].record /\ w.read = calls[r].read /\ w.readOpp = calls[r].readOpp
        /\ w.write = x /\ w.writeOpp = y
    BY <1>1, <1>3 DEF VisitWork
  <1>5. calls'[r] = w /\ \A q \in Clients \ {r} : ~AtVisit(calls'[q])
    BY <1>2, <1>3
  <1>6. R = RowsWith(s, w)
    BY <1>2, <1>3, <1>4, ViewInTurn DEF RowsWith
  <1>7. WorkKnown(s, w)
    BY <1>0, <1>3, <1>4, <1>6, Zenon DEF WorkKnown
  <1>8. WorkKnown(s, w)'
    BY <1>2, <1>7 DEF WorkKnown, RowsWith, Visits!Rows, DealsOf
  <1>9. (\A q \in Clients : AtVisit(calls[q]) => WorkKnown(s, calls[q]))'
    <2> SUFFICES ASSUME NEW q \in Clients, AtVisit(calls[q])' PROVE WorkKnown(s, calls[q])'
      OBVIOUS
    <2>1. calls'[q] = w
      BY <1>5 DEF AtVisit
    <2> QED BY <1>8, <2>1 DEF WorkKnown, RowsWith
  <1>10. DatesTold(s, Visits(s)!Rows(followup))' /\ MarksTold(s, Visits(s)!Rows(followup))'
    BY <1>2 DEF VisitsInTurn, DatesTold, MarksTold, Visits!Rows, DealsOf
  <1>11. \A q, p \in Clients : AtVisit(calls'[q]) /\ AtVisit(calls'[p]) => q = p
    BY <1>5
  <1> QED BY <1>9, <1>10, <1>11 DEF VisitsInTurn, AtVisit

(* The marks of an opportunity that neither the old nor the new record names  *)
(* count the same follow-ups as before.                                       *)
LEMMA OthersCounted ==
  ASSUME NEW s, NEW w, w.id \in Pair, followup \in [Pair -> VisitRow(s) \cup {None}],
         w.old = followup[w.id],
         NEW o, o \notin Visits(s)!OppOf(w.old) \cup Visits(s)!OppOf(w.record)
  PROVE  Visits(s)!LastOf(RowsWith(s, w), o) = Visits(s)!LastOf(Visits(s)!Rows(followup), o)
PROOF
  <1> DEFINE F == [followup EXCEPT ![w.id] = w.record]
             A == {y \in Visits(s)!Rows(F) : y.opp = o}
             B == {y \in Visits(s)!Rows(followup) : y.opp = o}
  <1>1. (w.old # None => w.old.opp # o) /\ (w.record # None => w.record.opp # o)
    BY DEF Visits!OppOf
  <1>2. F[w.id] = w.record /\ \A f \in Pair : f # w.id => F[f] = followup[f]
    OBVIOUS
  <1>3. ASSUME NEW y PROVE y \in A <=> y \in B
    <2>1. y \in A <=> y.opp = o /\ y # None /\ \E f \in Pair : y = F[f]
      BY DEF Visits!Rows
    <2>2. y \in B <=> y.opp = o /\ y # None /\ \E f \in Pair : y = followup[f]
      BY DEF Visits!Rows
    <2> HIDE DEF A, B, F
    <2> QED BY <1>1, <1>2, <2>1, <2>2
  <1>4. A = B
    BY <1>3
  <1>5. {x.updated : x \in A} \cup {0} = {x.updated : x \in B} \cup {0}
    <2> HIDE DEF A, B
    <2> QED BY <1>4
  <1> QED BY <1>5, Zenon DEF RowsWith, Visits!LastOf

LEMMA InTurnCommitted ==
  ASSUME NEW s, VisitsAssumed(s), VisitInv(s), VisitsInTurn(s), NEW r \in Clients, Visits(s)!Commit(r)
  PROVE  VisitsInTurn(s)'
PROOF
  <1>0. PICK w : w = calls[r]
    OBVIOUS
  <1> DEFINE R == RowsWith(s, w)
  <1>1. /\ w.job = "commit" /\ AtVisit(w) /\ WorkKnown(s, w) /\ w \in VisitWork(s)
        /\ ProperVisit(s, w, clock, followup[w.id])
        /\ followup \in [Pair -> VisitRow(s) \cup {None}]
        /\ summary \in VisitDates /\ activity \in [DealsOf(s) -> VisitMarks]
        /\ calls \in [Clients -> VisitWork(s)]
    BY <1>0 DEF Visits!Commit, VisitInv, VisitsTyped, VisitsInTurn, AtVisit
  <1>2. w.id \in Pair /\ (w.kind = "update" => followup[w.id] # None)
    BY <1>1 DEF ProperVisit
  <1>3. Visits(s)!View(r) = [followup EXCEPT ![w.id] = w.record]
    BY <1>0, <1>1, <1>2, ViewInTurn
  <1>4. /\ followup' = [followup EXCEPT ![w.id] = w.record] /\ Apart(followup')
        /\ followup' \in [Pair -> VisitRow(s) \cup {None}] /\ Visits(s)!Rows(followup') = R
    BY <1>0, <1>1, <1>2, <1>3, VisitView DEF Visits!Commit, RowsWith
  <1>5. summary' = w.write
    <2>1. summary' = [c \in {"next", "last", "latest"} |-> Visits(s)!Column(summary[c], w.read[c], w.write[c])]
      BY <1>0 DEF Visits!Commit
    <2>2. w.read = summary /\ w.write \in VisitDates
      BY <1>1 DEF WorkKnown, VisitWork
    <2>3. \A c \in {"next", "last", "latest"} : Visits(s)!Column(summary[c], w.read[c], w.write[c]) = w.write[c]
      BY <2>2 DEF Visits!Column
    <2>4. summary' = [c \in {"next", "last", "latest"} |-> w.write[c]]
      BY <2>1, <2>3, Zenon
    <2> QED BY <2>2, <2>4 DEF VisitDates
  <1>6. \A o \in DealsOf(s) : activity'[o] = w.writeOpp[o]
    <2> SUFFICES ASSUME NEW o \in DealsOf(s) PROVE activity'[o] = w.writeOpp[o]
      OBVIOUS
    <2>0. w.readOpp = activity
      BY <1>1 DEF WorkKnown
    <2>1. activity'[o] = [c \in {"last", "sent", "due"} |->
                            Visits(s)!Column(activity[o][c], activity[o][c], w.writeOpp[o][c])]
      BY <1>0, <2>0 DEF Visits!Commit, DealsOf
    <2>2. w.writeOpp[o] \in VisitMarks
      BY <1>1 DEF VisitWork
    <2>3. \A c \in {"last", "sent", "due"} :
             Visits(s)!Column(activity[o][c], activity[o][c], w.writeOpp[o][c]) = w.writeOpp[o][c]
      BY DEF Visits!Column
    <2>4. activity'[o] = [c \in {"last", "sent", "due"} |-> w.writeOpp[o][c]]
      BY <2>1, <2>3, Zenon
    <2> QED BY <2>2, <2>4 DEF VisitMarks
  <1>7. DatesTold(s, Visits(s)!Rows(followup))'
    <2>1. IF R = {} THEN summary'.next = 0 /\ summary'.last = 0
          ELSE LET x == Visits(s)!LatestOf(R) IN summary'.next = x.next /\ summary'.last = x.updated
      <3>1. summary' = Visits(s)!Reminder(R, w.read, w.kind # "delete") /\ w.read \in VisitDates
        BY <1>1, <1>5 DEF WorkKnown
      <3>2. CASE R = {}
        <4>1. summary' = [w.read EXCEPT !.next = 0, !.last = 0]
          BY <3>1, <3>2 DEF Visits!Reminder
        <4> QED BY <3>1, <3>2, <4>1 DEF VisitDates
      <3>3. CASE R # {}
        <4> DEFINE x == Visits(s)!LatestOf(R)
        <4>1. summary' = [next |-> x.next, last |-> x.updated, latest |-> IF w.kind # "delete" THEN x.day ELSE w.read.latest]
          BY <3>1, <3>3 DEF Visits!Reminder
        <4> HIDE DEF x, R
        <4>2. summary'.next = x.next /\ summary'.last = x.updated
          BY <4>1
        <4> QED BY <3>3, <4>2 DEF x
      <3> QED BY <3>2, <3>3
    <2>2. \A y \in R : summary'.latest >= y.day
      <3>1. CASE w.kind = "delete"
        <4>1. summary'.latest = summary.latest
          BY <1>1, <1>5, <3>1 DEF ProperVisit, WorkKnown
        <4>2. w.record = None
          BY <1>1, <3>1 DEF ProperVisit
        <4>3. R \subseteq Visits(s)!Rows(followup)
          BY <1>2, <4>2 DEF RowsWith, Visits!Rows
        <4> QED BY <4>1, <4>3 DEF VisitsInTurn, DatesTold
      <3>2. CASE w.kind # "delete"
        <4>1. w.record \in R
          <5>1. w.record \in VisitRow(s)
            BY <1>1, <3>2 DEF ProperVisit
          <5> QED BY <1>1, <1>2, <5>1, VisitNumbers DEF RowsWith, Visits!Rows
        <4>2. summary'.latest = Visits(s)!LatestOf(R).day
          <5>1. summary' = Visits(s)!Reminder(R, w.read, TRUE)
            BY <1>1, <1>5, <3>2 DEF WorkKnown
          <5>2. R # {}
            BY <4>1
          <5> HIDE DEF R
          <5> QED BY <5>1, <5>2 DEF Visits!Reminder
        <4>3. Visits(s)!LatestOf(R) \in R /\ \A y \in R : y.day <= Visits(s)!LatestOf(R).day
          <5>1. PICK v \in [Pair -> VisitRow(s) \cup {None}] : Apart(v) /\ Visits(s)!Rows(v) = R
            BY <1>4
          <5>2. Visits(s)!Rows(v) # {}
            BY <4>1, <5>1
          <5>3. /\ Visits(s)!LatestOf(Visits(s)!Rows(v)) \in Visits(s)!Rows(v)
                /\ \A y \in Visits(s)!Rows(v) : y.day <= Visits(s)!LatestOf(Visits(s)!Rows(v)).day
            BY <5>1, <5>2, LatestIs
          <5> HIDE DEF R
          <5> QED BY <5>1, <5>3
        <4>4. \A y \in R : y.day \in Nat
          BY <1>4, VisitNumbers DEF Visits!Rows, VisitRow
        <4> HIDE DEF R
        <4> QED BY <4>2, <4>3, <4>4
      <3> QED BY <3>1, <3>2
    <2> QED BY <1>4, <2>1, <2>2 DEF DatesTold
  <1>8. MarksTold(s, Visits(s)!Rows(followup))'
    <2>1. ASSUME NEW o \in DealsOf(s)
          PROVE  activity'[o].last = Visits(s)!LastOf(R, o) /\ (activity'[o].due => ~Visits(s)!Done(activity'[o]))
      <3>1. activity'[o] = w.writeOpp[o]
        BY <1>6
      <3>2. CASE o \in Visits(s)!OppOf(w.old) \cup Visits(s)!OppOf(w.record)
        <4>1. activity'[o] = Visits(s)!Activity(R, o, w.readOpp[o]) /\ w.readOpp[o] \in VisitMarks
          BY <1>1, <3>1, <3>2 DEF WorkKnown, VisitWork
        <4>2. PICK a, t, m, b : /\ a = w.readOpp[o] /\ t = Visits(s)!LastOf(R, o)
                                /\ m = [a EXCEPT !.last = t] /\ b = Visits(s)!Done(m)
          OBVIOUS
        <4>3. activity'[o] = [m EXCEPT !.due = @ /\ ~b]
          BY <4>1, <4>2 DEF Visits!Activity
        <4>4. PICK n : n = activity'[o]
          OBVIOUS
        <4>5. n.last = t /\ n.sent = m.sent /\ m.last = t /\ (n.due => ~b)
          BY <4>1, <4>2, <4>3, <4>4 DEF VisitMarks
        <4>6. Visits(s)!Done(n) <=> Visits(s)!Done(m)
          BY <4>5 DEF Visits!Done
        <4>7. (n.due => ~Visits(s)!Done(n)) /\ n.last = Visits(s)!LastOf(R, o)
          BY <4>2, <4>5, <4>6
        <4> QED BY <4>4, <4>7
      <3>3. CASE o \notin Visits(s)!OppOf(w.old) \cup Visits(s)!OppOf(w.record)
        <4>1. activity'[o] = activity[o]
          BY <1>1, <3>1, <3>3 DEF WorkKnown
        <4>2. Visits(s)!LastOf(R, o) = Visits(s)!LastOf(Visits(s)!Rows(followup), o)
          BY <1>1, <1>2, <3>3, OthersCounted DEF WorkKnown
        <4>3. activity[o].last = Visits(s)!LastOf(Visits(s)!Rows(followup), o)
              /\ (activity[o].due => ~Visits(s)!Done(activity[o]))
          BY DEF VisitsInTurn, MarksTold
        <4> QED BY <4>1, <4>2, <4>3
      <3> QED BY <3>2, <3>3
    <2> QED BY <1>4, <2>1 DEF MarksTold, DealsOf
  <1>9. \A q \in Clients : ~AtVisit(calls'[q])
    <2>1. calls' = [calls EXCEPT ![r] = [Visits(s)!Idle EXCEPT !.job = "done"]]
      BY DEF Visits!Commit, Visits!EndOf
    <2>2. [Visits(s)!Idle EXCEPT !.job = "done"].job = "done"
      BY DEF Visits!Idle
    <2>3. \A q \in Clients \ {r} : ~AtVisit(calls[q])
      BY <1>0, <1>1 DEF VisitsInTurn
    <2> QED BY <1>1, <2>1, <2>2, <2>3 DEF AtVisit
  <1> QED BY <1>7, <1>8, <1>9 DEF VisitsInTurn, AtVisit

LEMMA InTurnMarked ==
  ASSUME NEW s, VisitsAssumed(s), VisitInv(s), VisitsInTurn(s), ~Together(s), NEW r \in Clients,
         NEW d \in DealsOf(s), Visits(s)!MarkSent(r, d)
  PROVE  VisitsInTurn(s)'
PROOF
  <1>1. /\ Visits(s)!MayStart(r) /\ UNCHANGED <<followup, summary>>
        /\ activity' = [activity EXCEPT ![d].sent = clock + 1, ![d].due = TRUE]
        /\ calls' = [calls EXCEPT ![r] = [Visits(s)!Idle EXCEPT !.job = "done"]]
    BY DEF Visits!MarkSent, Visits!EndOf
  <1>2. /\ calls \in [Clients -> VisitWork(s)] /\ activity \in [DealsOf(s) -> VisitMarks] /\ clock \in Nat
        /\ followup \in [Pair -> VisitRow(s) \cup {None}] /\ UpTo(followup, clock)
    BY TickLeft DEF VisitInv, VisitsTyped
  <1>3. \A q \in Clients : ~AtVisit(calls'[q])
    <2>1. [Visits(s)!Idle EXCEPT !.job = "done"].job = "done"
      BY DEF Visits!Idle
    <2> QED BY <1>1, <1>2, <2>1, NobodyAtVisit DEF AtVisit
  <1>4. DatesTold(s, Visits(s)!Rows(followup))'
    BY <1>1 DEF VisitsInTurn, DatesTold, Visits!Rows
  <1>5. activity[d].last <= clock /\ activity[d].last \in Nat
    <2>1. activity[d].last = Visits(s)!LastOf(Visits(s)!Rows(followup), d)
      BY DEF VisitsInTurn, MarksTold
    <2>2. Visits(s)!Rows(followup) \in SUBSET VisitRow(s)
      BY <1>2 DEF Visits!Rows
    <2>3. activity[d].last \in Ticks /\ (activity[d].last = 0 \/ \E x \in Visits(s)!Rows(followup) : activity[d].last = x.updated)
      BY <2>1, <2>2, LastIs
    <2>4. \A x \in Visits(s)!Rows(followup) : x.updated <= clock
      BY <1>2 DEF Visits!Rows, UpTo
    <2> QED BY <1>2, <2>3, <2>4, VisitNumbers
  <1>6. ASSUME NEW o \in DealsOf(s)
        PROVE  activity'[o].last = activity[o].last /\ (activity'[o].due => ~Visits(s)!Done(activity'[o]))
    <2>1. CASE o = d
      <3>1. PICK n : n = activity'[o]
        OBVIOUS
      <3>2. n.last = activity[d].last /\ n.sent = clock + 1
        BY <1>1, <1>2, <2>1, <3>1 DEF VisitMarks
      <3>3. ~Visits(s)!Done(n)
        BY <1>2, <1>5, <3>2 DEF Visits!Done
      <3> QED BY <2>1, <3>1, <3>2, <3>3
    <2>2. CASE o # d
      <3>1. activity'[o] = activity[o]
        BY <1>1, <1>2, <2>2
      <3> QED BY <3>1 DEF VisitsInTurn, MarksTold
    <2> QED BY <2>1, <2>2
  <1>7. MarksTold(s, Visits(s)!Rows(followup))'
    BY <1>1, <1>6 DEF VisitsInTurn, MarksTold, DealsOf, Visits!Rows
  <1> QED BY <1>3, <1>4, <1>7 DEF VisitsInTurn, AtVisit

LEMMA InTurnTooLate ==
  ASSUME NEW s, VisitInv(s), VisitsInTurn(s), NEW r \in Clients, Visits(s)!TooLate(r)
  PROVE  VisitsInTurn(s)'
PROOF
  <1>1. /\ calls[r].job = "update" /\ followup[calls[r].id] = None
        /\ UNCHANGED <<followup, summary, activity, clock>>
        /\ calls' = [calls EXCEPT ![r] = [Visits(s)!Idle EXCEPT !.job = "done"]]
    BY DEF Visits!TooLate, Visits!EndOf
  <1>2. calls \in [Clients -> VisitWork(s)] /\ AtVisit(calls[r]) /\ \A q \in Clients \ {r} : ~AtVisit(calls[q])
    BY <1>1 DEF VisitInv, VisitsTyped, VisitsInTurn, AtVisit
  <1>3. \A q \in Clients : ~AtVisit(calls'[q])
    <2>1. [Visits(s)!Idle EXCEPT !.job = "done"].job = "done"
      BY DEF Visits!Idle
    <2> QED BY <1>1, <1>2, <2>1 DEF AtVisit
  <1>4. DatesTold(s, Visits(s)!Rows(followup))' /\ MarksTold(s, Visits(s)!Rows(followup))'
    BY <1>1 DEF VisitsInTurn, DatesTold, MarksTold, Visits!Rows, DealsOf
  <1> QED BY <1>3, <1>4 DEF VisitsInTurn, AtVisit

LEMMA VisitsInTurnKept ==
  ASSUME NEW s, VisitsAssumed(s), VisitInv(s), VisitsInTurn(s), ~Together(s),
         Visits(s)!Next \/ UNCHANGED followupVars
  PROVE  VisitsInTurn(s)'
PROOF
  <1>1. CASE UNCHANGED followupVars \/ Visits(s)!Finished
    <2>1. UNCHANGED <<followup, summary, activity, clock, calls>>
      BY <1>1 DEF followupVars, Visits!Finished, Visits!vars
    <2>2. DatesTold(s, Visits(s)!Rows(followup))' /\ MarksTold(s, Visits(s)!Rows(followup))'
      BY <2>1 DEF VisitsInTurn, DatesTold, MarksTold, Visits!Rows, DealsOf
    <2>3. (\A q \in Clients : AtVisit(calls[q]) => WorkKnown(s, calls[q]))'
      <3> SUFFICES ASSUME NEW q \in Clients, AtVisit(calls[q])' PROVE WorkKnown(s, calls[q])'
        OBVIOUS
      <3>1. PICK w : w = calls[q]
        OBVIOUS
      <3>2. WorkKnown(s, w)
        BY <2>1, <3>1 DEF VisitsInTurn, AtVisit
      <3>3. WorkKnown(s, w)'
        BY <2>1, <3>2 DEF WorkKnown, RowsWith, Visits!Rows, DealsOf
      <3> QED BY <2>1, <3>1, <3>3 DEF WorkKnown, RowsWith
    <2> QED BY <2>1, <2>2, <2>3 DEF VisitsInTurn, AtVisit
  <1>2. ASSUME NEW r \in Clients, NEW o \in DealsOf(s), Visits(s)!MarkSent(r, o) PROVE VisitsInTurn(s)'
    BY <1>2, InTurnMarked
  <1>3. ASSUME NEW r \in Clients, Visits(s)!StartCreate(r) \/ Visits(s)!StartUpdate(r) \/ Visits(s)!StartDelete(r)
        PROVE  VisitsInTurn(s)'
    BY <1>3, InTurnStarts
  <1>4. ASSUME NEW r \in Clients, Visits(s)!Flush(r) PROVE VisitsInTurn(s)'
    BY <1>4, InTurnFlushed
  <1>5. ASSUME NEW r \in Clients, Visits(s)!TooLate(r) PROVE VisitsInTurn(s)'
    BY <1>5, InTurnTooLate
  <1>6. ASSUME NEW r \in Clients, Visits(s)!Commit(r) PROVE VisitsInTurn(s)'
    BY <1>6, InTurnCommitted
  <1> QED BY <1>1, <1>2, <1>3, <1>4, <1>5, <1>6 DEF Visits!Next, DealsOf

LEMMA SummariesTold ==
  ASSUME NEW s, VisitsInTurn(s)
  PROVE  /\ Visits(s)!ReminderOfLatest /\ Visits(s)!ActivityOfLast
         /\ Visits(s)!QuoteTaskDone /\ Visits(s)!LatestCoversHistory
  BY DEF VisitsInTurn, DatesTold, MarksTold, DealsOf, Visits!ReminderOfLatest, Visits!ActivityOfLast,
     Visits!QuoteTaskDone, Visits!LatestCoversHistory

LEMMA SameDates ==
  ASSUME NEW s, NEW z, Visits(s)!DeletionKeepsDate
  PROVE  Visits(z)!DeletionKeepsDate
  BY DEF Visits!DeletionKeepsDate

LEMMA VisitAssumptions == VisitsAssumed("together") /\ VisitsAssumed("in order") /\ ~Together("in order")
PROOF
  <1>1. /\ "together" \in {"together", "in order", "categories"} /\ "in order" \in {"together", "in order", "categories"}
        /\ "in order" # "together"
    OBVIOUS
  <1> QED BY <1>1, DeskAssumption, Zenon DEF DeskAssumption, VisitsAssumed, Together

VisitsOnDesk ==
  /\ IF desk = "visits together" THEN VisitInv("together") ELSE VisitInv("in order")
  /\ desk = "visits" => VisitsInTurn("in order")

LEMMA VisitsOnDeskFirst == DeskInit => VisitsOnDesk
PROOF
  <1> SUFFICES ASSUME DeskInit PROVE VisitsOnDesk
    OBVIOUS
  <1>1. IF desk = "visits together" THEN Visits("together")!Init ELSE Visits("in order")!Init
    BY DEF DeskInit
  <1>2. desk = "visits" => desk # "visits together"
    OBVIOUS
  <1> QED BY <1>1, <1>2, VisitAssumptions, VisitsFirst, VisitsInTurnFirst, Zenon DEF VisitsOnDesk

LEMMA VisitSteps ==
  ASSUME [DeskNext]_deskVars
  PROVE  /\ desk' = desk
         /\ \/ UNCHANGED followupVars
            \/ desk = "visits together" /\ Visits("together")!Next
            \/ desk = "visits" /\ Visits("in order")!Next
PROOF
  BY Zenon DEF DeskNext, deskVars, QuotationStep, FollowupStep, CustomerStep, IntakeStep, TagStep

LEMMA VisitsOnDeskStay ==
  ASSUME VisitsOnDesk, [DeskNext]_deskVars
  PROVE  VisitsOnDesk' /\ Visits("together")!DeletionKeepsDate
PROOF
  <1>1. desk' = desk
    BY VisitSteps
  <1>2. CASE desk = "visits together"
    <2>1. VisitInv("together") /\ desk' # "visits" /\ desk # "visits" /\ desk' = "visits together"
      BY <1>1, <1>2, Zenon DEF VisitsOnDesk
    <2>2. Visits("together")!Next \/ UNCHANGED followupVars
      BY <2>1, VisitSteps, Zenon
    <2>3. VisitInv("together")' /\ Visits("together")!DeletionKeepsDate
      BY <2>1, <2>2, VisitAssumptions, VisitsKept, Zenon
    <2> QED BY <2>1, <2>3, Zenon DEF VisitsOnDesk
  <1>3. CASE desk # "visits together"
    <2>1. VisitInv("in order") /\ (desk = "visits" => VisitsInTurn("in order")) /\ desk' # "visits together"
      BY <1>1, <1>3, Zenon DEF VisitsOnDesk
    <2>2. Visits("in order")!Next \/ UNCHANGED followupVars
      BY <1>3, VisitSteps, Zenon
    <2>3. VisitInv("in order")' /\ Visits("in order")!DeletionKeepsDate
      BY <2>1, <2>2, VisitAssumptions, VisitsKept, Zenon
    <2>4. desk = "visits" => VisitsInTurn("in order")'
      BY <2>1, <2>2, VisitAssumptions, VisitsInTurnKept, Zenon
    <2> QED BY <1>1, <2>1, <2>3, <2>4, SameDates, Zenon DEF VisitsOnDesk
  <1> QED BY <1>2, <1>3

(* After every follow-up request that does not overlap another, the columns of*)
(* the customer and of its opportunities are those of the records that are    *)
(* left, a quote task that was answered is not due, and the archive date is   *)
(* not before any record; overlapping requests keep every column in its type. *)
(* For any records, days and opportunities.                                   *)
THEOREM SummariesStayTrue == DeskSpec => []SummaryOfRecords
PROOF
  <1>1. VisitsOnDesk => SummaryOfRecords
    <2> SUFFICES ASSUME VisitsOnDesk PROVE SummaryOfRecords
      OBVIOUS
    <2>1. CASE desk = "visits"
      <3>1. VisitInv("in order") /\ VisitsInTurn("in order") /\ desk # "visits together"
        BY <2>1, Zenon DEF VisitsOnDesk
      <3> QED BY <3>1, VisitAssumptions, VisitsTold, SummariesTold, Zenon DEF SummaryOfRecords
    <2>2. CASE desk = "visits together"
      <3>1. VisitInv("together") /\ desk # "visits"
        BY <2>2, Zenon DEF VisitsOnDesk
      <3> QED BY <3>1, VisitAssumptions, VisitsTold, Zenon DEF SummaryOfRecords
    <2>3. CASE desk # "visits" /\ desk # "visits together"
      BY <2>3, Zenon DEF SummaryOfRecords
    <2> QED BY <2>1, <2>2, <2>3
  <1>2. VisitsOnDesk /\ [DeskNext]_deskVars => VisitsOnDesk'
    BY VisitsOnDeskStay
  <1> QED BY <1>1, <1>2, VisitsOnDeskFirst, PTL DEF DeskSpec
-----------------------------------------------------------------------------
(* However requests overlap, a deletion takes no customer with contacts or    *)
(* histories, none that an inquiry made, no archive date of a customer whose  *)
(* record goes, and no link of a tag that is switched off.                    *)
THEOREM DeletionsStaySafe == DeskSpec => DeletionsTakeNoMore
PROOF
  <1> DEFINE Inv == TagsOnDesk /\ IntakeOnDesk /\ ProfilesOnDesk /\ VisitsOnDesk
             Safe == /\ Profiles("together")!DeletionIsSafe
                     /\ Inquiries("together")!IntakeStays
                     /\ Visits("together")!DeletionKeepsDate
                     /\ Tags("together")!LinksRemain
  <1>1. DeskInit => Inv
    BY TagsOnDeskFirst, IntakeOnDeskFirst, ProfilesOnDeskFirst, VisitsOnDeskFirst, Zenon
  <1>2. Inv /\ [DeskNext]_deskVars => Inv'
    BY TagsOnDeskStay, IntakeOnDeskStay, ProfilesOnDeskStay, VisitsOnDeskStay, Zenon
  <1>3. Inv /\ [DeskNext]_deskVars => Safe
    BY TagsOnDeskStay, IntakeOnDeskStay, ProfilesOnDeskStay, VisitsOnDeskStay, Zenon
  <1>4. Inv /\ [DeskNext]_deskVars => [Safe]_deskVars
    BY <1>3
  <1> HIDE DEF Inv
  <1>5. DeskSpec => [][Safe]_deskVars
    <2> HIDE DEF Safe
    <2> QED BY <1>1, <1>2, <1>4, PTL DEF DeskSpec
  <1> QED BY <1>5 DEF DeletionsTakeNoMore
-----------------------------------------------------------------------------
(* Quotations.  A setting works on some of the quotations with some of the    *)
(* sessions; the others stay as they start.                                   *)
Within(Q, S) ==
  /\ \A q \in Quotes \ Q : rowState[q] = "unborn"
  /\ \A s \in Sessions : job[s].quote \in Q \cup {None}
  /\ \A s \in Sessions \ S : job[s].quote = None

Highest(C) == CHOOSE n \in {0} \cup {number[q] : q \in C} : \A q \in C : number[q] <= n

(* What a step of a session does not touch.                                   *)
LEMMA StepElsewhere ==
  ASSUME QuoteInv, NEW s \in Sessions, Step(s) \/ Fail(s)
  PROVE  /\ job'[s].quote \in {job[s].quote, None} /\ \A t \in Sessions \ {s} : job'[t] = job[t]
         /\ \A q \in Quotes : rowState'[q] = rowState[q] \/ q = job[s].quote
  <1>1. job[s] \in Jobs
    BY DEF QuoteInv, TypeOK
  <1>2. ASSUME Release(s)
        PROVE  job'[s].quote \in {job[s].quote, None} /\ \A t \in Sessions \ {s} : job'[t] = job[t]
    BY <1>2, RecordsTyped DEF Release, QuoteInv, TypeOK
  <1>3. CASE Link(s)
    <2>1. PICK o \in opps \cup {job[s].serial} : job' = [job EXCEPT ![s].opp = o]
      BY <1>3 DEF Link
    <2> QED BY <1>1, <1>3, <2>1 DEF Link, QuoteInv, TypeOK, Jobs, rows
  <1>4. CASE TakeNumber(s)
    BY <1>1, <1>4 DEF TakeNumber, QuoteInv, TypeOK, Jobs, rows
  <1>5. CASE Fail(s) \/ Rollback(s)
    BY <1>2, <1>5 DEF Fail, Rollback, rows
  <1>6. CASE CommitCreate(s)
    BY <1>2, <1>5, <1>6 DEF CommitCreate, QuoteInv, TypeOK
  <1>7. CASE CommitUpdate(s) \/ CommitVersion(s) \/ CommitSend(s)
    BY <1>2, <1>5, <1>7 DEF CommitUpdate, CommitVersion, CommitSend
  <1> QED BY <1>3, <1>4, <1>5, <1>6, <1>7 DEF Step

LEMMA StepWithin ==
  ASSUME QuoteInv, NEW Q \in SUBSET Quotes, NEW S \in SUBSET Sessions, Within(Q, S),
         NEW s \in S, Step(s) \/ Fail(s)
  PROVE  Within(Q, S)'
  <1>1. /\ job'[s].quote \in {job[s].quote, None} /\ \A t \in Sessions \ {s} : job'[t] = job[t]
        /\ \A q \in Quotes : rowState'[q] = rowState[q] \/ q = job[s].quote
    BY StepElsewhere
  <1>2. None \notin Quotes
    BY BoundsAssumption
  <1> QED BY <1>1, <1>2 DEF Within

(* A request that starts on one of them.                                      *)
StartOn(s, q) ==
  \/ \E o \in opps \cup {None}, b \in BOOLEAN : StartCreate(s, q, o, b)
  \/ \E b \in BOOLEAN : StartUpdate(s, q, b)
  \/ StartVersion(s, q) \/ StartSend(s, q)

LEMMA StartWithin ==
  ASSUME QuoteInv, NEW Q \in SUBSET Quotes, NEW S \in SUBSET Sessions, Within(Q, S),
         NEW s \in S, NEW q \in Q, StartOn(s, q)
  PROVE  Within(Q, S)' /\ Start(s)
  <1>1. /\ rowState' = rowState /\ job'[s].quote = q /\ \A t \in Sessions \ {s} : job'[t] = job[t]
    <2>1. ASSUME NEW j, job' = [job EXCEPT ![s] = j], j.quote = q
          PROVE  job'[s].quote = q /\ \A t \in Sessions \ {s} : job'[t] = job[t]
      BY <2>1 DEF QuoteInv, TypeOK
    <2>2. ASSUME NEW o \in opps \cup {None}, NEW b \in BOOLEAN, StartCreate(s, q, o, b)
          PROVE  rowState' = rowState /\ \E j : job' = [job EXCEPT ![s] = j] /\ j.quote = q
      <3> DEFINE j == [kind |-> "create", quote |-> q, opp |-> o, no |-> 0, serial |-> NextSerial(b)]
      <3>1. job' = [job EXCEPT ![s] = j] /\ rowState' = rowState
        BY <2>2 DEF StartCreate, rows
      <3>2. j.quote = q
        OBVIOUS
      <3> HIDE DEF j
      <3> QED BY <3>1, <3>2
    <2>3. ASSUME NEW b \in BOOLEAN, StartUpdate(s, q, b)
          PROVE  rowState' = rowState /\ \E j : job' = [job EXCEPT ![s] = j] /\ j.quote = q
      <3> DEFINE j == [kind |-> "update", quote |-> q, opp |-> link[q], no |-> 0, serial |-> NextSerial(b)]
      <3>1. job' = [job EXCEPT ![s] = j] /\ rowState' = rowState
        BY <2>3 DEF StartUpdate, EditAnything, rows
      <3>2. j.quote = q
        OBVIOUS
      <3> HIDE DEF j
      <3> QED BY <3>1, <3>2
    <2>4. ASSUME NEW kind, LoadFor(kind, s, q)
          PROVE  rowState' = rowState /\ \E j : job' = [job EXCEPT ![s] = j] /\ j.quote = q
      <3> DEFINE j == [NoJob EXCEPT !.kind = kind, !.quote = q]
      <3>1. job' = [job EXCEPT ![s] = j] /\ rowState' = rowState
        BY <2>4 DEF LoadFor, rows
      <3>2. j.quote = q
        BY DEF NoJob
      <3> HIDE DEF j
      <3> QED BY <3>1, <3>2
    <2> QED BY <2>1, <2>2, <2>3, <2>4 DEF StartOn, StartVersion, StartSend
  <1>2. Within(Q, S)'
    BY <1>1 DEF Within
  <1>3. Start(s)
    BY DEF StartOn, Start
  <1> QED BY <1>2, <1>3

LEMMA OutsideWithin ==
  ASSUME QuoteInv, NEW Q \in SUBSET Quotes, NEW S \in SUBSET Sessions, Within(Q, S), NEW q \in Q,
         DeleteQuotation(q) \/ \E n \in 1..MaxVersion : GeneratePdf(q, n)
  PROVE  Within(Q, S)'
  BY DEF DeleteQuotation, GeneratePdf, Within, QuoteInv, TypeOK, sessions

(* The settings use the base with less room and fewer operations, quotations, *)
(* sessions and versions: their steps are steps of the base.                  *)
LEMMA NumbersSteps ==
  ASSUME QuoteInv, Numbers!Next
  PROVE  Next
  <1>1. ASSUME NEW s \in Sessions, Numbers!Start(s) PROVE Start(s)
    <2>1. ASSUME NEW q \in Quotes, NEW o \in opps \cup {None}, NEW b \in BOOLEAN,
                 Numbers!StartCreate(s, q, o, b)
          PROVE  StartCreate(s, q, o, b)
      <3>1. "create" \in Kinds /\ (b => saves < MaxSave)
        BY <2>1, QuotationAssumption, BoundsAssumption DEF Numbers!StartCreate, QuoteInv, TypeOK
      <3> QED BY <2>1, <3>1 DEF Numbers!StartCreate, StartCreate, Numbers!NextSerial, NextSerial, Numbers!rows,
                                Numbers!deals, Numbers!locks, rows, deals, locks
    <2>2. ASSUME NEW q \in Quotes, NEW b \in BOOLEAN,
                 Numbers!StartUpdate(s, q, b) \/ Numbers!StartVersion(s, q) \/ Numbers!StartSend(s, q)
          PROVE  FALSE
      BY <2>2 DEF Numbers!StartUpdate, Numbers!EditAnything, Numbers!StartVersion, Numbers!StartSend, Numbers!LoadFor
    <2> QED BY <1>1, <2>1, <2>2 DEF Numbers!Start, Start
  <1>2. ASSUME NEW s \in Sessions, Numbers!Step(s) \/ Numbers!Fail(s) PROVE Step(s) \/ Fail(s)
    <2>1. Numbers!Release(s) <=> Release(s)
      BY DEF Numbers!Release, Release, Numbers!NoJob, NoJob, Numbers!NoSnap, NoSnap, Numbers!NoVersion, NoVersion
    <2>2. Numbers!Rollback(s) <=> Rollback(s)
      BY <2>1 DEF Numbers!Rollback, Rollback, Numbers!rows, Numbers!deals, rows, deals
    <2>3. Numbers!Link(s) => Link(s)
      BY DEF Numbers!Link, Link, Numbers!rows, Numbers!deals, rows, deals
    <2>4. Numbers!TakeNumber(s) => TakeNumber(s)
      <3>1. Numbers!NextNumber(s) = NextNumber(s)
        BY DEF Numbers!NextNumber, Numbers!HighestNumber, Numbers!Committed, Numbers!Live,
               NextNumber, HighestNumber, Committed, Live
      <3> QED BY <3>1 DEF Numbers!TakeNumber, TakeNumber, Numbers!rows, Numbers!deals, rows, deals
    <2>5. \A o, lines : Numbers!SyncDeal(s, o, lines) <=> SyncDeal(s, o, lines)
      BY DEF Numbers!SyncDeal, SyncDeal, Numbers!Replaced, Replaced
    <2>6. Numbers!CommitCreate(s) => CommitCreate(s)
      BY <2>1, <2>2, <2>5 DEF Numbers!CommitCreate, CommitCreate, Numbers!OfBatch, OfBatch,
         Numbers!Committed, Numbers!Live, Committed, Live
    <2>7. Numbers!CommitUpdate(s) => CommitUpdate(s)
      BY <2>1, <2>2, <2>5 DEF Numbers!CommitUpdate, CommitUpdate, Numbers!Live, Live, Numbers!Edited, Edited,
         Numbers!Replaced, Replaced, Numbers!LinesToSave, LinesToSave
    <2>8. Numbers!CommitVersion(s) => CommitVersion(s)
      BY <2>1, <2>2 DEF Numbers!CommitVersion, CommitVersion, Numbers!Live, Live, Numbers!VersionFree, VersionFree,
         Numbers!deals, deals
    <2>9. Numbers!CommitSend(s) => CommitSend(s)
      BY <2>1, <2>2 DEF Numbers!CommitSend, CommitSend, Numbers!Live, Live, Numbers!TaskOf, TaskOf
    <2> QED BY <1>2, <2>2, <2>3, <2>4, <2>6, <2>7, <2>8, <2>9 DEF Numbers!Step, Step, Numbers!Fail, Fail
  <1>3. ASSUME NEW q \in Quotes, NEW n \in 1..MaxVersion PROVE ~ Numbers!GeneratePdf(q, n)
    BY DEF Numbers!GeneratePdf
  <1>4. ASSUME NEW q \in Quotes, Numbers!DeleteQuotation(q) PROVE DeleteQuotation(q)
    BY <1>4, QuotationAssumption DEF Numbers!DeleteQuotation, DeleteQuotation, Numbers!Live, Live, Numbers!deals, deals,
       Numbers!locks, locks, Numbers!sessions, sessions
  <1> QED BY <1>1, <1>2, <1>3, <1>4 DEF Numbers!Next, Next

LEMMA VersionsSteps ==
  ASSUME QuoteInv, Within({Only}, Sessions), Versions!Next
  PROVE  Next /\ Within({Only}, Sessions)'
  <1>0. Versions!Committed = Committed
    BY QuotationAssumption DEF Versions!Committed, Versions!Live, Committed, Live, Within
  <1>1. ASSUME NEW s \in Sessions, Versions!Start(s) PROVE StartOn(s, Only)
    <2>1. ASSUME NEW o \in opps \cup {None}, NEW b \in BOOLEAN, Versions!StartCreate(s, Only, o, b)
          PROVE  StartCreate(s, Only, o, b)
      <3>1. b => saves < MaxSave
        BY <2>1, QuotationAssumption, BoundsAssumption DEF Versions!StartCreate, QuoteInv, TypeOK
      <3> QED BY <2>1, <3>1 DEF Versions!StartCreate, StartCreate, Versions!NextSerial, NextSerial, Versions!rows,
                                Versions!deals, Versions!locks, rows, deals, locks
    <2>2. Versions!Loaded(Only) = Loaded(Only)
      BY DEF Versions!Loaded, Loaded
    <2>3. ASSUME NEW b \in BOOLEAN, Versions!StartUpdate(s, Only, b) PROVE StartUpdate(s, Only, b)
      <3>1. b => saves < MaxSave
        BY <2>3, QuotationAssumption, BoundsAssumption
           DEF Versions!StartUpdate, Versions!EditAnything, QuoteInv, TypeOK
      <3>2. \A n : Versions!NeedsDeal(Only, n) <=> NeedsDeal(Only, n)
        BY <2>2 DEF Versions!NeedsDeal, NeedsDeal, Versions!HasLines, HasLines, Versions!LinesToSave, LinesToSave
      <3> QED BY <2>2, <2>3, <3>1, <3>2 DEF Versions!StartUpdate, StartUpdate, Versions!EditAnything, EditAnything,
             Versions!NextSerial, NextSerial, Versions!Live, Live, Versions!rows, Versions!deals, Versions!locks,
             rows, deals, locks
    <2>4. \A kind : Versions!LoadFor(kind, s, Only) => LoadFor(kind, s, Only)
      BY <2>2 DEF Versions!LoadFor, LoadFor, Versions!NoJob, NoJob, Versions!Live, Live,
         Versions!rows, Versions!deals, Versions!locks, rows, deals, locks
    <2> QED BY <1>1, <2>1, <2>3, <2>4 DEF Versions!Start, StartOn, Versions!StartVersion, StartVersion,
               Versions!StartSend, StartSend
  <1>2. ASSUME NEW s \in Sessions, Versions!Step(s) \/ Versions!Fail(s) PROVE Step(s) \/ Fail(s)
    <2>1. Versions!Release(s) <=> Release(s)
      BY DEF Versions!Release, Release, Versions!NoJob, NoJob, Versions!NoSnap, NoSnap, Versions!NoVersion, NoVersion
    <2>2. Versions!Rollback(s) <=> Rollback(s)
      BY <2>1 DEF Versions!Rollback, Rollback, Versions!rows, Versions!deals, rows, deals
    <2>3. Versions!Link(s) => Link(s)
      BY DEF Versions!Link, Link, Versions!rows, Versions!deals, rows, deals
    <2>4. Versions!TakeNumber(s) => TakeNumber(s)
      <3>1. Versions!NextNumber(s) = NextNumber(s)
        <4>1. Versions!HighestNumber = Highest(Versions!Committed) /\ HighestNumber = Highest(Committed)
          BY DEF Versions!HighestNumber, HighestNumber, Highest
        <4> QED BY <1>0, <4>1 DEF Versions!NextNumber, NextNumber
      <3> QED BY <3>1 DEF Versions!TakeNumber, TakeNumber, Versions!rows, Versions!deals, rows, deals
    <2>5. \A o, lines : Versions!SyncDeal(s, o, lines) <=> SyncDeal(s, o, lines)
      BY DEF Versions!SyncDeal, SyncDeal, Versions!Replaced, Replaced
    <2>6. Versions!CommitCreate(s) => CommitCreate(s)
      BY <1>0, <2>1, <2>2, <2>5 DEF Versions!CommitCreate, CommitCreate, Versions!OfBatch, OfBatch
    <2>7. Versions!CommitUpdate(s) => CommitUpdate(s)
      BY <2>1, <2>2, <2>5 DEF Versions!CommitUpdate, CommitUpdate, Versions!Live, Live, Versions!Edited, Edited,
         Versions!Replaced, Replaced, Versions!LinesToSave, LinesToSave
    <2>8. Versions!CommitVersion(s) => CommitVersion(s)
      BY <2>1, <2>2 DEF Versions!CommitVersion, CommitVersion, Versions!Live, Live, Versions!VersionFree, VersionFree,
         Versions!deals, deals
    <2>9. Versions!CommitSend(s) => CommitSend(s)
      BY <2>1, <2>2 DEF Versions!CommitSend, CommitSend, Versions!Live, Live, Versions!TaskOf, TaskOf
    <2> QED BY <1>2, <2>2, <2>3, <2>4, <2>6, <2>7, <2>8, <2>9 DEF Versions!Step, Step, Versions!Fail, Fail
  <1>3. ASSUME NEW n \in 1..MaxVersion, Versions!GeneratePdf(Only, n) PROVE GeneratePdf(Only, n)
    BY <1>3 DEF Versions!GeneratePdf, GeneratePdf, Versions!Live, Live, Versions!deals, deals,
       Versions!locks, locks, Versions!sessions, sessions
  <1>4. ASSUME Versions!DeleteQuotation(Only) PROVE DeleteQuotation(Only)
    BY <1>4 DEF Versions!DeleteQuotation, DeleteQuotation, Versions!Live, Live, Versions!deals, deals,
       Versions!locks, locks, Versions!sessions, sessions
  <1>5. {Only} \in SUBSET Quotes /\ Sessions \in SUBSET Sessions /\ Only \in {Only}
    BY QuotationAssumption
  <1>6. CASE \E s \in Sessions : Versions!Start(s) \/ Versions!Step(s) \/ Versions!Fail(s)
    <2>1. PICK s \in Sessions : StartOn(s, Only) \/ Step(s) \/ Fail(s)
      BY <1>1, <1>2, <1>6
    <2>2. CASE StartOn(s, Only)
      BY <1>5, <2>2, StartWithin DEF Next
    <2>3. CASE Step(s) \/ Fail(s)
      BY <1>5, <2>3, StepWithin DEF Next
    <2> QED BY <2>1, <2>2, <2>3
  <1>7. CASE Versions!DeleteQuotation(Only) \/ \E n \in 1..MaxVersion : Versions!GeneratePdf(Only, n)
    <2>1. DeleteQuotation(Only) \/ \E n \in 1..MaxVersion : GeneratePdf(Only, n)
      BY <1>3, <1>4, <1>7
    <2>2. Next
      BY <1>5, <2>1 DEF Next
    <2> QED BY <1>5, <2>1, <2>2, OutsideWithin
  <1> QED BY <1>6, <1>7 DEF Versions!Next

LEMMA OneByOneSteps ==
  ASSUME QuoteInv, Within(Quotes \ {Only}, {Alone}), OneByOne!Next
  PROVE  Turn(Alone) /\ Within(Quotes \ {Only}, {Alone})'
  <1> DEFINE Q == Quotes \ {Only}
  <1>0. OneByOne!Committed = Committed
    BY QuotationAssumption DEF OneByOne!Committed, OneByOne!Live, Committed, Live, Within
  <1>1. ASSUME NEW q \in Q,
               \/ \E o \in opps \cup {None}, b \in BOOLEAN : OneByOne!StartCreate(Alone, q, o, b)
               \/ \E b \in BOOLEAN : OneByOne!StartUpdate(Alone, q, b)
               \/ OneByOne!StartVersion(Alone, q) \/ OneByOne!StartSend(Alone, q)
        PROVE  StartOn(Alone, q)
    <2>1. ASSUME NEW o \in opps \cup {None}, NEW b \in BOOLEAN, OneByOne!StartCreate(Alone, q, o, b)
          PROVE  StartCreate(Alone, q, o, b)
      <3>1. \A r \in Sessions : job[r].quote # q
        BY <2>1, BoundsAssumption DEF OneByOne!StartCreate, Within
      <3> QED BY <2>1, <3>1 DEF OneByOne!StartCreate, StartCreate, OneByOne!NextSerial, NextSerial, OneByOne!rows,
                                OneByOne!deals, OneByOne!locks, rows, deals, locks
    <2>2. OneByOne!Loaded(q) = Loaded(q)
      BY DEF OneByOne!Loaded, Loaded
    <2>3. ASSUME NEW b \in BOOLEAN, OneByOne!StartUpdate(Alone, q, b) PROVE StartUpdate(Alone, q, b)
      <3>1. \A n : OneByOne!NeedsDeal(q, n) <=> NeedsDeal(q, n)
        BY <2>2 DEF OneByOne!NeedsDeal, NeedsDeal, OneByOne!HasLines, HasLines, OneByOne!LinesToSave, LinesToSave
      <3> QED BY <2>2, <2>3, <3>1 DEF OneByOne!StartUpdate, StartUpdate, OneByOne!EditAnything, EditAnything,
             OneByOne!NextSerial, NextSerial, OneByOne!Live, Live, OneByOne!rows, OneByOne!deals, OneByOne!locks,
             rows, deals, locks
    <2>4. \A kind : OneByOne!LoadFor(kind, Alone, q) => LoadFor(kind, Alone, q)
      BY <2>2 DEF OneByOne!LoadFor, LoadFor, OneByOne!NoJob, NoJob, OneByOne!Live, Live,
         OneByOne!rows, OneByOne!deals, OneByOne!locks, rows, deals, locks
    <2>5. current[q] < 2 => current[q] < MaxVersion
      BY QuotationAssumption, BoundsAssumption DEF QuoteInv, TypeOK
    <2> QED BY <1>1, <2>1, <2>3, <2>4, <2>5 DEF StartOn, OneByOne!StartVersion, StartVersion,
               OneByOne!StartSend, StartSend
  <1>2. ASSUME OneByOne!Step(Alone) \/ OneByOne!Fail(Alone) PROVE Step(Alone) \/ Fail(Alone)
    <2>1. OneByOne!Release(Alone) <=> Release(Alone)
      BY DEF OneByOne!Release, Release, OneByOne!NoJob, NoJob, OneByOne!NoSnap, NoSnap, OneByOne!NoVersion, NoVersion
    <2>2. OneByOne!Rollback(Alone) <=> Rollback(Alone)
      BY <2>1 DEF OneByOne!Rollback, Rollback, OneByOne!rows, OneByOne!deals, rows, deals
    <2>3. OneByOne!Link(Alone) => Link(Alone)
      BY DEF OneByOne!Link, Link, OneByOne!rows, OneByOne!deals, rows, deals
    <2>4. OneByOne!TakeNumber(Alone) => TakeNumber(Alone)
      <3>1. OneByOne!NextNumber(Alone) = NextNumber(Alone)
        <4>1. OneByOne!HighestNumber = Highest(OneByOne!Committed) /\ HighestNumber = Highest(Committed)
          BY DEF OneByOne!HighestNumber, HighestNumber, Highest
        <4> QED BY <1>0, <4>1 DEF OneByOne!NextNumber, NextNumber
      <3> QED BY <3>1 DEF OneByOne!TakeNumber, TakeNumber, OneByOne!rows, OneByOne!deals, rows, deals
    <2>5. \A o, lines : OneByOne!SyncDeal(Alone, o, lines) <=> SyncDeal(Alone, o, lines)
      BY DEF OneByOne!SyncDeal, SyncDeal, OneByOne!Replaced, Replaced
    <2>6. OneByOne!CommitCreate(Alone) => CommitCreate(Alone)
      BY <1>0, <2>1, <2>2, <2>5 DEF OneByOne!CommitCreate, CommitCreate, OneByOne!OfBatch, OfBatch
    <2>7. OneByOne!CommitUpdate(Alone) => CommitUpdate(Alone)
      BY <2>1, <2>2, <2>5 DEF OneByOne!CommitUpdate, CommitUpdate, OneByOne!Live, Live, OneByOne!Edited, Edited,
         OneByOne!Replaced, Replaced, OneByOne!LinesToSave, LinesToSave
    <2>8. OneByOne!CommitVersion(Alone) => CommitVersion(Alone)
      BY <2>1, <2>2 DEF OneByOne!CommitVersion, CommitVersion, OneByOne!Live, Live, OneByOne!VersionFree, VersionFree,
         OneByOne!deals, deals
    <2>9. OneByOne!CommitSend(Alone) => CommitSend(Alone)
      BY <2>1, <2>2 DEF OneByOne!CommitSend, CommitSend, OneByOne!Live, Live, OneByOne!TaskOf, TaskOf
    <2> QED BY <1>2, <2>2, <2>3, <2>4, <2>6, <2>7, <2>8, <2>9 DEF OneByOne!Step, Step, OneByOne!Fail, Fail
  <1>3. ASSUME NEW q \in Q, NEW n \in 1..2, OneByOne!GeneratePdf(q, n)
        PROVE  n \in 1..MaxVersion /\ GeneratePdf(q, n)
    <2>1. n \in 1..MaxVersion
      BY QuotationAssumption, BoundsAssumption
    <2> QED BY <1>3, <2>1 DEF OneByOne!GeneratePdf, GeneratePdf, OneByOne!Live, Live, OneByOne!deals, deals,
       OneByOne!locks, locks, OneByOne!sessions, sessions
  <1>4. ASSUME NEW q \in Q, OneByOne!DeleteQuotation(q) PROVE DeleteQuotation(q)
    BY <1>4 DEF OneByOne!DeleteQuotation, DeleteQuotation, OneByOne!Live, Live, OneByOne!deals, deals,
       OneByOne!locks, locks, OneByOne!sessions, sessions
  <1>5. /\ Q \in SUBSET Quotes /\ {Alone} \in SUBSET Sessions /\ Alone \in {Alone}
        /\ Within(Q, {Alone})
    BY QuotationAssumption
  <1>6. CASE OneByOne!Start(Alone)
    <2>1. PICK q \in Q : StartOn(Alone, q)
      BY <1>1, <1>6 DEF OneByOne!Start
    <2> HIDE DEF Q
    <2>2. Within(Q, {Alone})' /\ Start(Alone)
      BY <1>5, <2>1, StartWithin
    <2> QED BY <2>2 DEF Q, Turn
  <1>7. CASE OneByOne!Step(Alone) \/ OneByOne!Fail(Alone)
    <2>1. Step(Alone) \/ Fail(Alone)
      BY <1>2, <1>7
    <2> HIDE DEF Q
    <2>2. Within(Q, {Alone})'
      BY <1>5, <2>1, StepWithin
    <2> QED BY <2>1, <2>2 DEF Q, Turn
  <1>8. ASSUME NEW q \in Q, OneByOne!DeleteQuotation(q) \/ \E n \in 1..2 : OneByOne!GeneratePdf(q, n)
        PROVE  Turn(Alone) /\ Within(Q, {Alone})'
    <2>1. DeleteQuotation(q) \/ \E n \in 1..MaxVersion : GeneratePdf(q, n)
      BY <1>3, <1>4, <1>8
    <2>2. Turn(Alone)
      BY <2>1 DEF Turn
    <2> HIDE DEF Q
    <2> QED BY <1>5, <2>1, <2>2, OutsideWithin
  <1>9. \/ OneByOne!Start(Alone) \/ OneByOne!Step(Alone) \/ OneByOne!Fail(Alone)
        \/ \E q \in Q : OneByOne!DeleteQuotation(q) \/ \E n \in 1..2 : OneByOne!GeneratePdf(q, n)
    BY DEF OneByOne!Next
  <1> QED BY <1>6, <1>7, <1>8, <1>9

QuotesOnDesk ==
  /\ QuoteInv
  /\ desk = "versions" => Within({Only}, Sessions)
  /\ desk = "one by one" => InTurn(Alone) /\ Within(Quotes \ {Only}, {Alone})

LEMMA QuotesOnDeskFirst == DeskInit => QuotesOnDesk
  <1> SUFFICES ASSUME DeskInit PROVE QuotesOnDesk
    OBVIOUS
  <1>1. Init
    BY DEF DeskInit
  <1>2. Within({Only}, Sessions) /\ Within(Quotes \ {Only}, {Alone})
    BY <1>1, RecordsTyped DEF Init, Within
  <1> QED BY <1>1, <1>2, InitQuoteInv, InTurnFirst, QuotationAssumption DEF QuotesOnDesk

LEMMA QuotationSteps ==
  ASSUME [DeskNext]_deskVars
  PROVE  /\ desk' = desk
         /\ \/ UNCHANGED vars
            \/ desk = "numbers" /\ Numbers!Next
            \/ desk = "versions" /\ Versions!Next
            \/ desk = "one by one" /\ OneByOne!Next
  BY Zenon DEF DeskNext, deskVars, QuotationStep, FollowupStep, CustomerStep, IntakeStep, TagStep

LEMMA QuotesOnDeskStay ==
  ASSUME QuotesOnDesk, [DeskNext]_deskVars
  PROVE  QuotesOnDesk' /\ (desk = "one by one" => SentStays /\ LinkStays)
  <1>1. desk' = desk /\ QuoteInv
    BY QuotationSteps DEF QuotesOnDesk
  <1>2. CASE UNCHANGED vars
    <2>1. QuoteInv'
      BY <1>1, <1>2, NextQuoteInv
    <2>2. \A Q, S : Within(Q, S) => Within(Q, S)'
      BY <1>2 DEF Within, vars, rows, sessions
    <2>3. desk = "one by one" => InTurn(Alone)' /\ SentStays /\ LinkStays
      BY <1>1, <1>2, TurnInTurn, QuotationAssumption DEF QuotesOnDesk
    <2> QED BY <1>1, <2>1, <2>2, <2>3 DEF QuotesOnDesk
  <1>3. CASE desk = "numbers" /\ Numbers!Next
    <2>1. QuoteInv'
      BY <1>1, <1>3, NumbersSteps, NextQuoteInv
    <2> QED BY <1>1, <1>3, <2>1 DEF QuotesOnDesk
  <1>4. CASE desk = "versions" /\ Versions!Next
    <2>1. Next /\ Within({Only}, Sessions)'
      BY <1>1, <1>4, VersionsSteps DEF QuotesOnDesk
    <2>2. QuoteInv'
      BY <1>1, <2>1, NextQuoteInv
    <2> QED BY <1>1, <1>4, <2>1, <2>2 DEF QuotesOnDesk
  <1>5. CASE desk = "one by one" /\ OneByOne!Next
    <2>1. /\ InTurn(Alone) /\ Turn(Alone) /\ Within(Quotes \ {Only}, {Alone})'
      BY <1>1, <1>5, OneByOneSteps DEF QuotesOnDesk
    <2>2. Next
      BY <2>1, QuotationAssumption DEF Turn, Next
    <2>3. QuoteInv'
      BY <1>1, <2>2, NextQuoteInv
    <2>4. InTurn(Alone)' /\ SentStays /\ LinkStays
      BY <1>1, <2>1, TurnInTurn, QuotationAssumption
    <2> QED BY <1>1, <1>5, <2>1, <2>3, <2>4 DEF QuotesOnDesk
  <1> QED BY <1>2, <1>3, <1>4, <1>5, QuotationSteps

(* Requests on quotations one after another: what was sent or superseded never*)
(* changes, no save moves a quotation to another opportunity, each version's  *)
(* total is that of its lines, and a sent quotation has its PDF and its       *)
(* follow-up task; with any overlap every column keeps its type.              *)
THEOREM QuotesKeepTheirWord == DeskSpec => QuotesOneByOne
  <1> DEFINE Told == TypeOK /\ (desk = "one by one" => TotalsAddUp /\ SentIsDelivered)
             Kept == desk = "one by one" => SentStays /\ LinkStays
  <1>1. QuotesOnDesk => Told
    BY DEF QuotesOnDesk, QuoteInv, InTurn
  <1>2. QuotesOnDesk /\ [DeskNext]_deskVars => QuotesOnDesk'
    BY QuotesOnDeskStay
  <1>3. QuotesOnDesk /\ [DeskNext]_deskVars => [Kept]_deskVars
    BY QuotesOnDeskStay
  <1>4. DeskSpec => []Told /\ [][Kept]_deskVars
    <2> HIDE DEF Told, Kept
    <2> QED BY <1>1, <1>2, <1>3, QuotesOnDeskFirst, PTL DEF DeskSpec
  <1> QED BY <1>4 DEF QuotesOneByOne
=============================================================================
