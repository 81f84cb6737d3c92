--------------------------- MODULE MailSyncProofs ---------------------------
(* Theorems about sync_mailbox: every variable keeps its type, and while      *)
(* nothing else writes the archive, no message is filed twice.  The proof     *)
(* holds for any number of messages, mailboxes, runners, UIDs, generations    *)
(* and faults.                                                                *)
EXTENDS MailSync, WellFoundedInduction, FiniteSetTheorems, SequenceTheorems, TLAPS

Busy == {"fetch", "look", "insert", "advance"}
Shape == \A r \in Runners :
  /\ Syncing(r) => task[r].left # <<>>
  /\ pc[r] \in Busy => task[r].uids # {}
  /\ pc[r] \in {"look", "insert", "store"} => task[r].mail \in Mails

(* A mailbox that is searched has its state row.                              *)
Opened == \A r \in Runners : pc[r] \in Busy \cup {"search"} => state[Box(r)] # None

Typed == TypeOK /\ Shape /\ Opened
-----------------------------------------------------------------------------
LEMMA HasLeast ==
  ASSUME NEW S \in SUBSET Nat, S # {}
  PROVE  \E u \in S : \A v \in S : u <= v
PROOF
  <1>1. PICK u \in S : \A v \in S : ~ (<<v, u>> \in OpToRel(<, Nat))
    BY NatLessThanWellFounded, WFMin
  <1>2. \A v \in S : ~ (v < u)
    BY <1>1 DEF OpToRel
  <1> QED BY <1>2
LEMMA LeastIs ==
  ASSUME NEW S \in SUBSET Uids, S # {}
  PROVE  Least(S) \in S /\ \A v \in S : Least(S) <= v
PROOF
  <1>1. \E u \in S : \A v \in S : u <= v
    BY HasLeast, MailAssumption DEF Uids
  <1> QED BY <1>1 DEF Least
LEMMA GreatestIs ==
  ASSUME NEW S \in SUBSET Uids, S # {}
  PROVE  Greatest(S) \in S /\ \A v \in S : v <= Greatest(S)
PROOF
  <1> DEFINE T == {MaxUid - u : u \in S}
  <1>1. \A u \in S : u \in Nat /\ MaxUid - u \in Nat
    BY MailAssumption DEF Uids
  <1>2. T \in SUBSET Nat /\ T # {}
    BY <1>1
  <1>3. PICK t \in T : \A s \in T : t <= s
    <2> HIDE DEF T
    <2> QED BY <1>2, HasLeast
  <1>4. PICK u \in S : t = MaxUid - u
    BY <1>3
  <1>5. \A v \in S : MaxUid - u <= MaxUid - v
    BY <1>3, <1>4
  <1>6. \A v \in S : v <= u
    BY <1>1, <1>5, MailAssumption
  <1> QED BY <1>6 DEF Greatest
LEMMA LeftFacts ==
  ASSUME NEW l \in Seq(BoxSet), l # <<>>
  PROVE  /\ Head(l) \in BoxSet /\ Tail(l) \in Seq(BoxSet)
         /\ Len(l) # 1 => Tail(l) # <<>>
PROOF
  <1>1. /\ Head(l) \in BoxSet /\ Tail(l) \in Seq(BoxSet)
        /\ Len(Tail(l)) = Len(l) - 1 /\ Len(l) \in Nat
    BY HeadTailProperties
  <1>2. \A t \in Seq(BoxSet) : t = <<>> => Len(t) = 0
    OBVIOUS
  <1> QED BY <1>1, <1>2

LEMMA BoxesFacts ==
  /\ Boxes \in Seq(BoxSet) /\ Boxes # <<>>
  /\ <<Boxes[1]>> \in Seq(BoxSet) /\ <<Boxes[1]>> # <<>> /\ Boxes[1] \in BoxSet
PROOF
  BY MailAssumption DEF BoxSet

LEMMA WorkFacts ==
  ASSUME Typed, NEW r \in Runners, Syncing(r)
  PROVE  /\ task[r] \in Tasks /\ Box(r) \in BoxSet
         /\ pc[r] \in Busy => /\ Uid(r) \in Uids /\ Uid(r) \in task[r].uids
                              /\ \A v \in task[r].uids : Uid(r) <= v
PROOF
  <1>1. task[r] \in Tasks /\ task[r].left # <<>>
    BY DEF Typed, TypeOK, Shape
  <1>2. Box(r) \in BoxSet
    <2>1. task[r].left \in Seq(BoxSet)
      BY <1>1 DEF Tasks
    <2> QED BY <1>1, <2>1, LeftFacts DEF Box
  <1>3. pc[r] \in Busy => task[r].uids \in SUBSET Uids /\ task[r].uids # {}
    BY <1>1 DEF Typed, Shape, Tasks
  <1> QED BY <1>1, <1>2, <1>3, LeastIs DEF Uid

(* The ways a runner stops: for good, or to go to the next mailbox.           *)
LEMMA FinishTyped ==
  ASSUME Typed, NEW r \in Runners, Finish(r)
  PROVE  lock' \in Runners \cup {None} /\ task' \in [Runners -> Tasks] /\ Shape'
         /\ pc' \in [Runners -> {"idle", "open", "search", "fetch", "look", "insert", "advance", "store"}]
PROOF
  <1>1. NoTask \in Tasks
    BY DEF NoTask, Task, Tasks
  <1> QED BY <1>1 DEF Typed, TypeOK, Shape, Syncing, Busy, Finish

LEMMA LeaveBoxTyped ==
  ASSUME Typed, NEW r \in Runners, Syncing(r), LeaveBox(r)
  PROVE  lock' \in Runners \cup {None} /\ task' \in [Runners -> Tasks] /\ Shape'
         /\ pc' \in [Runners -> {"idle", "open", "search", "fetch", "look", "insert", "advance", "store"}]
PROOF
  <1>1. CASE Len(task[r].left) = 1
    BY <1>1, FinishTyped DEF LeaveBox
  <1>2. CASE Len(task[r].left) # 1
    <2> DEFINE t == Task(Tail(task[r].left), task[r].broken)
    <2>1. task[r].left \in Seq(BoxSet) /\ task[r].left # <<>> /\ task[r].broken \in BOOLEAN
      BY DEF Typed, TypeOK, Shape, Tasks
    <2>2. t \in Tasks /\ t.left # <<>> 
      BY <1>2, <2>1, LeftFacts DEF Task, Tasks
    <2>3. task' = [task EXCEPT ![r] = t] /\ pc' = [pc EXCEPT ![r] = "open"] /\ lock' = lock
      BY <1>2 DEF LeaveBox
    <2> HIDE DEF t
    <2> QED BY <2>2, <2>3 DEF Typed, TypeOK, Shape, Syncing, Busy
  <1> QED BY <1>1, <1>2

(* A mailbox keeps its state row, so that what is opened stays opened.        *)
LEMMA StaysOpened ==
  ASSUME Typed,
         \A b \in BoxSet : state[b] # None => state'[b] # None,
         \A r \in Runners : pc'[r] \in Busy \cup {"search"} =>
           \/ pc[r] \in Busy \cup {"search"} /\ task'[r].left = task[r].left
           \/ state'[Head(task'[r].left)] # None
  PROVE  Opened'
PROOF
  <1> SUFFICES ASSUME NEW r \in Runners, pc'[r] \in Busy \cup {"search"}
               PROVE  state'[Head(task'[r].left)] # None
    BY DEF Opened, Box, Busy
  <1>1. CASE pc[r] \in Busy \cup {"search"} /\ task'[r].left = task[r].left
    <2>1. Syncing(r)
      BY <1>1 DEF Busy, Syncing
    <2>2. Box(r) \in BoxSet /\ Box(r) = Head(task'[r].left)
      BY <1>1, <2>1, WorkFacts DEF Box
    <2>3. state[Box(r)] # None
      BY <1>1 DEF Typed, Opened
    <2> QED BY <2>2, <2>3
  <1> QED BY <1>1

LEMMA LeavesBox ==
  ASSUME Typed, NEW r \in Runners, LeaveBox(r)
  PROVE  \A q \in Runners : pc'[q] \in Busy \cup {"search"} =>
           q # r /\ pc[q] \in Busy \cup {"search"} /\ task'[q] = task[q]
PROOF
  BY DEF LeaveBox, Finish, Typed, TypeOK, Busy

LEMMA FetchTyped ==
  ASSUME Typed, NEW r \in Runners, Fetch(r)
  PROVE  Typed'
PROOF
  <1> DEFINE m == held[Box(r)][Uid(r)]
  <1>1. Box(r) \in BoxSet /\ Uid(r) \in Uids /\ task[r] \in Tasks
    BY WorkFacts DEF Fetch, Syncing, Busy
  <1>2. m \in Mails
    BY <1>1 DEF Typed, TypeOK, Fetch
  <1> HIDE DEF m
  <1>3. [task[r] EXCEPT !.mail = m] \in Tasks
    BY <1>1, <1>2 DEF Tasks
  <1>4. TypeOK'
    BY <1>3 DEF Typed, TypeOK, Fetch, m, server
  <1>5. Shape'
    BY <1>1, <1>2 DEF Typed, TypeOK, Shape, Fetch, Tasks, Syncing, Busy, m
  <1>9. Opened'
    BY DEF Typed, TypeOK, Opened, Box, Busy, Fetch
  <1> QED BY <1>9, <1>4, <1>5 DEF Typed

LEMMA SizeFacts ==
  ASSUME NEW S \in SUBSET Uids
  PROVE  /\ IsFiniteSet(S) /\ Cardinality(S) \in 0..MaxUid
         /\ \A T \in SUBSET S : Cardinality(T) <= Cardinality(S) /\ Cardinality(T) \in Nat
PROOF
  <1>1. IsFiniteSet(Uids) /\ Cardinality(Uids) = MaxUid
    BY MailAssumption, FS_Interval DEF Uids
  <1>2. IsFiniteSet(S) /\ Cardinality(S) <= MaxUid
    BY <1>1, FS_Subset
  <1>3. Cardinality(S) \in Nat
    BY <1>2, FS_CardinalityType
  <1>4. \A T \in SUBSET S : Cardinality(T) <= Cardinality(S) /\ Cardinality(T) \in Nat
    BY <1>2, FS_Subset, FS_CardinalityType
  <1> QED BY <1>2, <1>3, <1>4, MailAssumption

LEMMA InitiallyTyped == Init => Typed
PROOF
  <1> SUFFICES ASSUME Init PROVE Typed
    OBVIOUS
  <1>1. NoTask \in Tasks
    BY DEF NoTask, Task, Tasks
  <1>2. TypeOK
    BY <1>1, MailAssumption DEF Init, TypeOK
  <1>3. Shape /\ Opened
    BY DEF Init, Shape, Opened, Syncing, Busy
  <1> QED BY <1>2, <1>3 DEF Typed

LEMMA PutInTyped ==
  ASSUME Typed, NEW b \in BoxSet, NEW m \in Mails, PutIn(b, m)
  PROVE  /\ gen' \in [BoxSet -> 1..MaxGen] /\ next' \in [BoxSet -> 1..(MaxUid + 1)]
         /\ held' \in [BoxSet -> [Uids -> Mails \cup {None}]] /\ seen' \subseteq Mails
PROOF
  BY MailAssumption DEF Typed, TypeOK, PutIn, Uids

LEMMA DeliverTyped ==
  ASSUME Typed, NEW b \in BoxSet, NEW m \in Mails, Deliver(b, m)
  PROVE  Typed'
PROOF
  <1>1. TypeOK'
    BY PutInTyped DEF Typed, TypeOK, Deliver
  <1>2. Shape'
    BY DEF Typed, Shape, Syncing, Busy, Deliver
  <1>9. Opened'
    BY DEF Typed, TypeOK, Opened, Box, Busy, Deliver
  <1> QED BY <1>9, <1>1, <1>2 DEF Typed

LEMMA SubmitTyped ==
  ASSUME Typed, NEW r \in Runners, NEW m \in Mails, Submit(r, m)
  PROVE  Typed'
PROOF
  <1>1. Boxes[Len(Boxes)] \in BoxSet
    BY MailAssumption DEF BoxSet
  <1>2. [task[r] EXCEPT !.mail = m] \in Tasks
    BY DEF Typed, TypeOK, Tasks
  <1>3. TypeOK'
    BY <1>1, <1>2, PutInTyped DEF Typed, TypeOK, Submit
  <1>4. Shape'
    BY <1>2 DEF Typed, TypeOK, Shape, Syncing, Busy, Submit, Tasks
  <1>9. Opened'
    BY DEF Typed, TypeOK, Opened, Box, Busy, Submit
  <1> QED BY <1>9, <1>3, <1>4 DEF Typed

LEMMA ExpungeTyped ==
  ASSUME Typed, NEW b \in BoxSet, NEW u \in Uids, Expunge(b, u)
  PROVE  Typed'
PROOF
  <1>1. TypeOK'
    BY DEF Typed, TypeOK, Expunge
  <1>2. Shape'
    BY DEF Typed, Shape, Syncing, Busy, Expunge
  <1>9. Opened'
    BY DEF Typed, TypeOK, Opened, Box, Busy, Expunge
  <1> QED BY <1>9, <1>1, <1>2 DEF Typed

LEMMA RebuildTyped ==
  ASSUME Typed, NEW b \in BoxSet, Rebuild(b)
  PROVE  Typed'
PROOF
  <1> DEFINE Rank(u) == Cardinality({v \in Present(b) : v <= u})
             Renumbered == [n \in Uids |-> IF \E u \in Present(b) : Rank(u) = n
                                           THEN held[b][CHOOSE u \in Present(b) : Rank(u) = n] ELSE None]
  <1>1. Cardinality(Present(b)) + 1 \in 1..(MaxUid + 1)
    BY SizeFacts, MailAssumption DEF Present
  <1>2. Renumbered \in [Uids -> Mails \cup {None}]
    <2>1. ASSUME NEW n \in Uids, \E u \in Present(b) : Rank(u) = n
          PROVE  held[b][CHOOSE u \in Present(b) : Rank(u) = n] \in Mails \cup {None}
      <3> HIDE DEF Rank
      <3>1. (CHOOSE u \in Present(b) : Rank(u) = n) \in Uids
        BY <2>1 DEF Present
      <3> QED BY <3>1 DEF Typed, TypeOK
    <2> HIDE DEF Rank
    <2> QED BY <2>1
  <1>3. held' = [held EXCEPT ![b] = Renumbered] /\ next' = [next EXCEPT ![b] = Cardinality(Present(b)) + 1]
    BY DEF Rebuild
  <1> HIDE DEF Renumbered
  <1>4. gen' \in [BoxSet -> 1..MaxGen] /\ skipped' \in [BoxSet -> SUBSET Uids]
    BY MailAssumption DEF Typed, TypeOK, Rebuild
  <1>5. TypeOK'
    BY <1>1, <1>2, <1>3, <1>4 DEF Typed, TypeOK, Rebuild
  <1>6. Shape'
    BY DEF Typed, Shape, Syncing, Busy, Rebuild
  <1>9. Opened'
    BY DEF Typed, TypeOK, Opened, Box, Busy, Rebuild
  <1> QED BY <1>9, <1>5, <1>6 DEF Typed

LEMMA StartTyped ==
  ASSUME Typed, NEW r \in Runners, Start(r)
  PROVE  Typed'
PROOF
  <1>1. PICK left \in {Boxes, <<Boxes[1]>>} : task' = [task EXCEPT ![r] = Task(left, FALSE)]
    BY DEF Start
  <1> DEFINE t == Task(left, FALSE)
  <1>2. t \in Tasks /\ t.left # <<>>
    BY BoxesFacts DEF Task, Tasks
  <1> HIDE DEF t
  <1>3. TypeOK'
    BY <1>1, <1>2 DEF Typed, TypeOK, Start, t, server
  <1>4. Shape'
    BY <1>1, <1>2 DEF Typed, TypeOK, Shape, Syncing, Busy, Start, t
  <1>9. Opened'
    BY DEF Typed, TypeOK, Opened, Box, Busy, Start
  <1> QED BY <1>9, <1>3, <1>4 DEF Typed

LEMMA OpenTyped ==
  ASSUME Typed, NEW r \in Runners, Open(r)
  PROVE  Typed'
PROOF
  <1>1. Box(r) \in BoxSet /\ task[r] \in Tasks /\ task[r].left # <<>>
    BY WorkFacts DEF Open, Syncing, Typed, Shape
  <1>2. [task[r] EXCEPT !.initial = IsInitial(Box(r))] \in Tasks
    BY <1>1 DEF IsInitial, Tasks
  <1>3. [gen |-> gen[Box(r)], uid |-> 0] \in States
    BY <1>1, MailAssumption DEF Typed, TypeOK, States
  <1>4. TypeOK'
    BY <1>1, <1>2, <1>3 DEF Typed, TypeOK, Open, server
  <1>5. Shape'
    BY <1>1 DEF Typed, TypeOK, Shape, Syncing, Busy, Open, Tasks
  <1>6. \A b \in BoxSet : state[b] # None => state'[b] # None
    BY <1>1, <1>3, NoneAssumption DEF Typed, TypeOK, Open
  <1>7. state'[Box(r)] # None
    BY <1>1, <1>3, NoneAssumption DEF Typed, TypeOK, Open, IsInitial
  <1>8. \A q \in Runners : /\ task'[q].left = task[q].left
                           /\ q # r => pc'[q] = pc[q]
    BY <1>1 DEF Typed, TypeOK, Open, Tasks
  <1>9. Opened'
    BY <1>6, <1>7, <1>8, StaysOpened DEF Open, Box, Typed, TypeOK
  <1> QED BY <1>9, <1>4, <1>5 DEF Typed

LEMMA FoundFacts ==
  ASSUME Typed, NEW r \in Runners, Syncing(r)
  PROVE  Present(Box(r)) \subseteq Uids /\ Found(r) \subseteq Present(Box(r))
PROOF
  <1>1. Present(Box(r)) \in SUBSET Uids
    BY DEF Present
  <1>2. Present(Box(r)) # {} => Greatest(Present(Box(r))) \in Present(Box(r))
    BY <1>1, GreatestIs
  <1> QED BY <1>1, <1>2 DEF Found, LastOf, NewUids

LEMMA SearchTyped ==
  ASSUME Typed, NEW r \in Runners, Search(r)
  PROVE  Typed'
PROOF
  <1>1. Box(r) \in BoxSet /\ task[r] \in Tasks /\ Syncing(r) /\ Found(r) \in SUBSET Uids
    BY WorkFacts, FoundFacts DEF Search, Syncing
  <1>2. /\ lock' \in Runners \cup {None} /\ task' \in [Runners -> Tasks] /\ Shape'
        /\ pc' \in [Runners -> {"idle", "open", "search", "fetch", "look", "insert", "advance", "store"}]
    <2>1. CASE Found(r) = {}
      BY <1>1, <2>1, LeaveBoxTyped DEF Search
    <2>2. CASE Found(r) # {}
      <3> DEFINE t == [task[r] EXCEPT !.uids = Found(r)]
      <3>1. t \in Tasks /\ t.left = task[r].left /\ t.uids # {}
        BY <1>1, <2>2 DEF Tasks
      <3>2. task' = [task EXCEPT ![r] = t] /\ pc' = [pc EXCEPT ![r] = "fetch"] /\ lock' = lock
        BY <2>2 DEF Search
      <3> HIDE DEF t
      <3> QED BY <1>1, <3>1, <3>2 DEF Typed, TypeOK, Shape, Syncing, Busy
    <2> QED BY <2>1, <2>2
  <1>3. skipped' \in [BoxSet -> SUBSET Uids]
    BY <1>1 DEF Typed, TypeOK, Search
  <1>4. TypeOK'
    BY <1>2, <1>3 DEF Typed, TypeOK, Search, server
  <1>5. \A q \in Runners : pc'[q] \in Busy \cup {"search"} =>
          pc[q] \in Busy \cup {"search"} /\ task'[q].left = task[q].left
    <2>1. CASE Found(r) = {}
      <3>1. LeaveBox(r)
        BY <2>1 DEF Search
      <3> QED BY <3>1, LeavesBox
    <2>2. CASE Found(r) # {}
      <3> DEFINE t == [task[r] EXCEPT !.uids = Found(r)]
      <3>1. t.left = task[r].left
        BY <1>1 DEF Tasks
      <3>2. /\ task' = [task EXCEPT ![r] = t] /\ pc' = [pc EXCEPT ![r] = "fetch"]
            /\ pc[r] = "search"
        BY <2>2 DEF Search
      <3> HIDE DEF t
      <3> QED BY <3>1, <3>2 DEF Typed, TypeOK
    <2> QED BY <2>1, <2>2
  <1>9. Opened'
    BY <1>5, StaysOpened DEF Search
  <1> QED BY <1>9, <1>2, <1>4 DEF Typed

LEMMA FaultTyped ==
  ASSUME Typed, Fault \/ UNCHANGED faults
  PROVE  faults' \in 0..MaxFaults
PROOF
  BY MailAssumption DEF Typed, TypeOK, Fault

LEMMA UnavailableTyped ==
  ASSUME Typed, NEW r \in Runners, Unavailable(r)
  PROVE  Typed'
PROOF
  <1>1. Syncing(r) /\ LeaveBox(r) /\ (Fault \/ UNCHANGED faults)
    BY DEF Unavailable, Syncing
  <1>9. Opened'
    BY DEF Typed, TypeOK, Opened, Box, Busy, Unavailable, LeaveBox, Finish
  <1> QED BY <1>9, <1>1, LeaveBoxTyped, FaultTyped DEF Typed, TypeOK, Unavailable, server

LEMMA UnfetchedTyped ==
  ASSUME Typed, NEW r \in Runners, Unfetched(r)
  PROVE  Typed'
PROOF
  <1>1. Box(r) \in BoxSet /\ Uid(r) \in Uids /\ (Fault \/ UNCHANGED faults)
    BY WorkFacts DEF Unfetched, Syncing, Busy
  <1>2. skipped' \in [BoxSet -> SUBSET Uids]
    BY <1>1 DEF Typed, TypeOK, Unfetched
  <1>3. TypeOK'
    BY <1>1, <1>2, FaultTyped DEF Typed, TypeOK, Unfetched, server
  <1>4. Shape'
    BY DEF Typed, TypeOK, Shape, Syncing, Busy, Unfetched
  <1>9. Opened'
    BY DEF Typed, TypeOK, Opened, Box, Busy, Unfetched
  <1> QED BY <1>9, <1>3, <1>4 DEF Typed

LEMMA LookTyped ==
  ASSUME Typed, NEW r \in Runners, Look(r)
  PROVE  Typed'
PROOF
  <1>1. TypeOK'
    BY DEF Typed, TypeOK, Look, server
  <1>2. Shape'
    BY DEF Typed, TypeOK, Shape, Syncing, Busy, Look
  <1>9. Opened'
    BY DEF Typed, TypeOK, Opened, Box, Busy, Look
  <1> QED BY <1>9, <1>1, <1>2 DEF Typed

LEMMA InsertTyped ==
  ASSUME Typed, NEW r \in Runners, Insert(r)
  PROVE  Typed'
PROOF
  <1> DEFINE x == [mail |-> task[r].mail, key |-> ImapKey(Box(r), gen[Box(r)], Uid(r))]
  <1>1. Box(r) \in BoxSet /\ Uid(r) \in Uids /\ task[r].mail \in Mails /\ gen[Box(r)] \in 1..MaxGen
    BY WorkFacts DEF Typed, TypeOK, Shape, Insert, Syncing, Busy
  <1>2. x \in Rows
    BY <1>1 DEF Rows
  <1> HIDE DEF x
  <1>3. TypeOK'
    BY <1>2 DEF Typed, TypeOK, Insert, x, server
  <1>4. Shape'
    BY DEF Typed, TypeOK, Shape, Syncing, Busy, Insert
  <1>9. Opened'
    BY DEF Typed, TypeOK, Opened, Box, Busy, Insert
  <1> QED BY <1>9, <1>3, <1>4 DEF Typed

LEMMA AdvanceTyped ==
  ASSUME Typed, NEW r \in Runners, Advance(r)
  PROVE  Typed'
PROOF
  <1>1. /\ Box(r) \in BoxSet /\ Uid(r) \in task[r].uids /\ Uid(r) \in Uids /\ task[r] \in Tasks
        /\ Syncing(r) /\ task[r].left # <<>>
    BY WorkFacts DEF Advance, Syncing, Busy, Typed, Shape
  <1>2. state' \in [BoxSet -> States \cup {None}]
    <2>1. state[Box(r)] \in States
      BY <1>1 DEF Typed, TypeOK, Opened, Advance, Busy
    <2>2. [state[Box(r)] EXCEPT !.uid = Uid(r)] \in States
      BY <1>1, <2>1, MailAssumption DEF States, Uids
    <2> QED BY <1>1, <2>2 DEF Typed, TypeOK, Advance, CursorAfter
  <1>3. /\ lock' \in Runners \cup {None} /\ task' \in [Runners -> Tasks] /\ Shape'
        /\ pc' \in [Runners -> {"idle", "open", "search", "fetch", "look", "insert", "advance", "store"}]
    <2>1. CASE task[r].uids = {Uid(r)}
      BY <1>1, <2>1, LeaveBoxTyped DEF Advance
    <2>2. CASE task[r].uids # {Uid(r)}
      <3> DEFINE t == [task[r] EXCEPT !.uids = @ \ {Uid(r)}, !.mail = None]
      <3>1. t \in Tasks /\ t.left = task[r].left /\ t.uids # {}
        BY <1>1, <2>2 DEF Tasks
      <3>2. task' = [task EXCEPT ![r] = t] /\ pc' = [pc EXCEPT ![r] = "fetch"] /\ lock' = lock
        BY <2>2 DEF Advance
      <3> HIDE DEF t
      <3> QED BY <1>1, <3>1, <3>2 DEF Typed, TypeOK, Shape, Syncing, Busy
    <2> QED BY <2>1, <2>2
  <1>4. TypeOK'
    BY <1>2, <1>3 DEF Typed, TypeOK, Advance, server
  <1>5. \A b \in BoxSet : state[b] # None => state'[b] # None
    <2>3. state[Box(r)] \in States
      BY <1>1 DEF Typed, TypeOK, Opened, Advance, Busy
    <2>1. [state[Box(r)] EXCEPT !.uid = Uid(r)] \in States
      BY <1>1, <2>3, MailAssumption DEF States, Uids
    <2>2. state' = [state EXCEPT ![Box(r)] = [state[Box(r)] EXCEPT !.uid = Uid(r)]]
      BY DEF Advance, CursorAfter
    <2> QED BY <1>1, <2>1, <2>2, NoneAssumption DEF Typed, TypeOK
  <1>6. \A q \in Runners : pc'[q] \in Busy \cup {"search"} =>
          pc[q] \in Busy \cup {"search"} /\ task'[q].left = task[q].left
    <2>1. CASE task[r].uids = {Uid(r)}
      <3>1. LeaveBox(r)
        BY <2>1 DEF Advance
      <3> QED BY <3>1, LeavesBox
    <2>2. CASE task[r].uids # {Uid(r)}
      <3> DEFINE t == [task[r] EXCEPT !.uids = @ \ {Uid(r)}, !.mail = None]
      <3>1. t.left = task[r].left
        BY <1>1 DEF Tasks
      <3>2. /\ task' = [task EXCEPT ![r] = t] /\ pc' = [pc EXCEPT ![r] = "fetch"]
            /\ pc[r] = "advance"
        BY <2>2 DEF Advance
      <3> HIDE DEF t
      <3> QED BY <3>1, <3>2 DEF Typed, TypeOK, Busy
    <2> QED BY <2>1, <2>2
  <1>9. Opened'
    BY <1>5, <1>6, StaysOpened
  <1> QED BY <1>9, <1>3, <1>4 DEF Typed

LEMMA StoreSentTyped ==
  ASSUME Typed, NEW r \in Runners, StoreSent(r)
  PROVE  Typed'
PROOF
  <1> DEFINE x == [mail |-> task[r].mail, key |-> SmtpKey(task[r].mail)]
  <1>1. task[r].mail \in Mails
    BY DEF Typed, Shape, StoreSent
  <1>2. x \in Rows
    BY <1>1 DEF Rows
  <1> HIDE DEF x
  <1>3. TypeOK'
    BY <1>2, FinishTyped DEF Typed, TypeOK, StoreSent, x, server
  <1>9. Opened'
    BY DEF Typed, TypeOK, Opened, Box, Busy, StoreSent, Finish
  <1> QED BY <1>9, <1>3, FinishTyped DEF Typed, StoreSent

LEMMA DisconnectTyped ==
  ASSUME Typed, NEW r \in Runners, Disconnect(r)
  PROVE  Typed'
PROOF
  <1>1. [task[r] EXCEPT !.broken = TRUE] \in Tasks
    BY DEF Typed, TypeOK, Tasks
  <1>2. TypeOK'
    BY <1>1, FaultTyped DEF Typed, TypeOK, Disconnect, server
  <1>3. Shape'
    BY <1>1 DEF Typed, TypeOK, Shape, Syncing, Busy, Disconnect, Tasks
  <1>9. Opened'
    BY DEF Typed, TypeOK, Opened, Box, Busy, Disconnect
  <1> QED BY <1>9, <1>2, <1>3 DEF Typed

LEMMA CrashTyped ==
  ASSUME Typed, NEW r \in Runners, Crash(r)
  PROVE  Typed'
PROOF
  <1>9. Opened'
    BY DEF Typed, TypeOK, Opened, Box, Busy, Crash, Finish
  <1> QED BY <1>9, FinishTyped, FaultTyped DEF Typed, TypeOK, Crash, server

LEMMA NextTyped == Typed /\ [Next]_vars => Typed'
PROOF
  <1> SUFFICES ASSUME Typed, [Next]_vars PROVE Typed'
    OBVIOUS
  <1>1. CASE \E b \in BoxSet, m \in Mails : Deliver(b, m)
    BY <1>1, DeliverTyped
  <1>2. CASE \E b \in BoxSet, u \in Uids : Expunge(b, u)
    BY <1>2, ExpungeTyped
  <1>3. CASE \E b \in BoxSet : Rebuild(b)
    BY <1>3, RebuildTyped
  <1>4. ASSUME NEW r \in Runners, Step(r) PROVE Typed'
    BY <1>4, OpenTyped, SearchTyped, UnavailableTyped, FetchTyped, UnfetchedTyped, LookTyped,
       InsertTyped, AdvanceTyped, StoreSentTyped DEF Step
  <1>5. ASSUME NEW r \in Runners, Start(r) \/ Disconnect(r) \/ Crash(r) PROVE Typed'
    BY <1>5, StartTyped, DisconnectTyped, CrashTyped
  <1>6. CASE \E r \in Runners, m \in Mails : Submit(r, m)
    BY <1>6, SubmitTyped
  <1>7. CASE UNCHANGED vars
    BY <1>7 DEF Typed, TypeOK, Shape, Opened, Syncing, Box, vars, server
  <1> QED BY <1>1, <1>2, <1>3, <1>4, <1>5, <1>6, <1>7 DEF Next

(* Every variable of the synchronization keeps its type, for any number of    *)
(* messages, mailboxes, instances, generations and faults.                    *)
THEOREM SyncIsTyped == Spec => []TypeOK
PROOF
  <1>1. Typed => TypeOK
    BY DEF Typed
  <1> QED BY <1>1, InitiallyTyped, NextTyped, PTL DEF Spec
-----------------------------------------------------------------------------
(* FiledOnce by itself is not inductive: it needs to know that nobody else    *)
(* inserts between the look of an instance and its insert, and that what the  *)
(* CRM is about to store as sent was never in a mailbox before.               *)
StoresAlone == \A r, s \in Runners : pc[r] = "store" => r = s

AboutToStore == \A r \in Runners : pc[r] = "store" => \A x \in rows : x.mail # task[r].mail

AllSeen ==
  /\ \A b \in BoxSet : \A u \in Present(b) : held[b][u] \in seen
  /\ \A x \in rows : x.mail \in seen
  /\ \A r \in Runners : pc[r] \in {"look", "insert", "store"} => task[r].mail \in seen

Filing == StoresAlone /\ OnlyOneRuns /\ AboutToFile /\ AboutToStore /\ FiledOnce
FilingInv == Typed /\ AllSeen /\ Filing

(* Either nothing is sent by the CRM while mailboxes are synchronized, or one *)
(* instance does both, one after the other.                                   *)
SendsApart == ~ Sending \/ \A r, s \in Runners : r = s

(* Steps that insert nothing: whoever is about to insert was so before, and   *)
(* its row is still missing.                                                  *)
LEMMA NothingFiled ==
  ASSUME FilingInv, UNCHANGED rows,
         \A r \in Runners : pc'[r] \in {"insert", "store"} => pc'[r] = pc[r] /\ task'[r].mail = task[r].mail
  PROVE  AboutToFile' /\ AboutToStore' /\ FiledOnce'
PROOF
  BY DEF FilingInv, Filing, AboutToFile, AboutToStore, ByMessageId, FiledOnce

(* A step of a runner at work that inserts nothing and lets the lock be.      *)
LEMMA RunnerGoesTo ==
  ASSUME FilingInv, NEW r \in Runners, Syncing(r), UNCHANGED lock,
         NEW s \in {"open", "search", "fetch", "look", "insert", "advance"},
         pc' = [pc EXCEPT ![r] = s]
  PROVE  OnlyOneRuns' /\ StoresAlone'
PROOF
  BY DEF FilingInv, Filing, OnlyOneRuns, StoresAlone, Syncing, Typed, TypeOK

LEMMA QuietStep ==
  ASSUME FilingInv, NEW r \in Runners, Syncing(r), UNCHANGED <<rows, lock>>,
         NEW s \in {"open", "search", "fetch", "look", "advance"},
         pc' = [pc EXCEPT ![r] = s],
         \A q \in Runners : q # r => task'[q] = task[q]
  PROVE  Filing'
PROOF
  <1>1. OnlyOneRuns' /\ StoresAlone'
    BY RunnerGoesTo
  <1>2. \A q \in Runners : pc'[q] \in {"insert", "store"} => pc'[q] = pc[q] /\ task'[q].mail = task[q].mail
    BY DEF FilingInv, Typed, TypeOK
  <1> QED BY <1>1, <1>2, NothingFiled DEF Filing

LEMMA LockReleased ==
  ASSUME FilingInv, NEW r \in Runners, Finish(r)
  PROVE  /\ OnlyOneRuns' /\ StoresAlone'
         /\ \A q \in Runners : pc'[q] \in {"insert", "store"} => pc'[q] = pc[q] /\ task'[q].mail = task[q].mail
PROOF
  BY DEF FilingInv, Filing, OnlyOneRuns, StoresAlone, Syncing, Finish, Typed, TypeOK

LEMMA BoxLeft ==
  ASSUME FilingInv, NEW r \in Runners, Syncing(r), LeaveBox(r), UNCHANGED rows
  PROVE  Filing'
PROOF
  <1>1. CASE Len(task[r].left) = 1
    BY <1>1, LockReleased, NothingFiled DEF LeaveBox, Filing
  <1>2. CASE Len(task[r].left) # 1
    <2>1. /\ task' = [task EXCEPT ![r] = Task(Tail(task[r].left), task[r].broken)]
          /\ pc' = [pc EXCEPT ![r] = "open"] /\ lock' = lock
      BY <1>2 DEF LeaveBox
    <2> QED BY <2>1, QuietStep DEF FilingInv, Typed, TypeOK
  <1> QED BY <1>1, <1>2

LEMMA ServerFiles ==
  ASSUME FilingInv, UNCHANGED <<rows, lock, pc, task>>
  PROVE  Filing'
PROOF
  <1>1. StoresAlone' /\ OnlyOneRuns'
    BY DEF FilingInv, Filing, StoresAlone, OnlyOneRuns, Syncing
  <1> QED BY <1>1, NothingFiled DEF Filing

LEMMA StepFiles ==
  ASSUME FilingInv, NEW r \in Runners, Step(r)
  PROVE  Filing'
PROOF
  <1>1. CASE Open(r)
    <2>1. Syncing(r) /\ pc' = [pc EXCEPT ![r] = "search"] /\ UNCHANGED <<rows, lock>>
      BY <1>1 DEF Open, Syncing
    <2>2. \A q \in Runners : q # r => task'[q] = task[q]
      BY <1>1 DEF Open, FilingInv, Typed, TypeOK
    <2> QED BY <2>1, <2>2, QuietStep
  <1>2. CASE Search(r)
    <2>1. CASE Found(r) = {}
      BY <1>2, <2>1, BoxLeft DEF Search, Syncing
    <2>2. CASE Found(r) # {}
      <3>1. Syncing(r) /\ pc' = [pc EXCEPT ![r] = "fetch"] /\ UNCHANGED <<rows, lock>>
        BY <1>2, <2>2 DEF Search, Syncing
      <3>2. \A q \in Runners : q # r => task'[q] = task[q]
        BY <1>2, <2>2 DEF Search, FilingInv, Typed, TypeOK
      <3> QED BY <3>1, <3>2, QuietStep
    <2> QED BY <2>1, <2>2
  <1>3. CASE Unavailable(r)
    BY <1>3, BoxLeft DEF Unavailable, Syncing
  <1>4. CASE Fetch(r)
    <2>1. Syncing(r) /\ pc' = [pc EXCEPT ![r] = "look"] /\ UNCHANGED <<rows, lock>>
      BY <1>4 DEF Fetch, Syncing
    <2>2. \A q \in Runners : q # r => task'[q] = task[q]
      BY <1>4 DEF Fetch, FilingInv, Typed, TypeOK
    <2> QED BY <2>1, <2>2, QuietStep
  <1>5. CASE Unfetched(r)
    <2>1. Syncing(r) /\ pc' = [pc EXCEPT ![r] = "advance"] /\ UNCHANGED <<rows, lock>>
      BY <1>5 DEF Unfetched, Syncing
    <2>2. \A q \in Runners : q # r => task'[q] = task[q]
      BY <1>5 DEF Unfetched, FilingInv, Typed, TypeOK
    <2> QED BY <2>1, <2>2, QuietStep
  <1>6. CASE Look(r)
    <2>1. StoresAlone' /\ OnlyOneRuns'
      <3>1. /\ Syncing(r) /\ UNCHANGED lock
            /\ pc' = [pc EXCEPT ![r] = IF Stored(r) THEN "advance" ELSE "insert"]
        BY <1>6 DEF Look, Syncing
      <3> QED BY <3>1, RunnerGoesTo
    <2>2. AboutToFile' /\ AboutToStore' /\ FiledOnce'
      BY <1>6 DEF FilingInv, Filing, Look, Stored, AboutToFile, AboutToStore, ByMessageId, FiledOnce, Typed, TypeOK
    <2> QED BY <2>1, <2>2 DEF Filing
  <1>7. CASE Insert(r)
    <2> DEFINE x == [mail |-> task[r].mail, key |-> ImapKey(Box(r), gen[Box(r)], Uid(r))]
    <2>1. StoresAlone' /\ OnlyOneRuns'
      BY <1>7, RunnerGoesTo DEF Insert, Syncing
    <2>2. \A q \in Runners : q # r => pc[q] \notin {"insert", "store"}
      BY <1>7 DEF FilingInv, Filing, Insert, OnlyOneRuns, StoresAlone, Syncing
    <2>3. AboutToFile' /\ AboutToStore'
      BY <1>7, <2>2 DEF AboutToFile, AboutToStore, Insert, FilingInv, Typed, TypeOK
    <2>4. x.mail = task[r].mail /\ (rows' = rows \/ rows' = rows \cup {x})
      BY <1>7 DEF Insert
    <2>5. x.mail \in NoId \/ \A y \in rows : y.mail # x.mail
      BY <1>7, <2>4 DEF FilingInv, Filing, AboutToFile, ByMessageId, Insert
    <2> HIDE DEF x
    <2>6. FiledOnce'
      BY <2>4, <2>5 DEF FilingInv, Filing, FiledOnce
    <2> QED BY <2>1, <2>3, <2>6 DEF Filing
  <1>8. CASE Advance(r)
    <2>1. CASE task[r].uids = {Uid(r)}
      BY <1>8, <2>1, BoxLeft DEF Advance, Syncing
    <2>2. CASE task[r].uids # {Uid(r)}
      <3>1. Syncing(r) /\ pc' = [pc EXCEPT ![r] = "fetch"] /\ UNCHANGED <<rows, lock>>
        BY <1>8, <2>2 DEF Advance, Syncing
      <3>2. \A q \in Runners : q # r => task'[q] = task[q]
        BY <1>8, <2>2 DEF Advance, FilingInv, Typed, TypeOK
      <3> QED BY <3>1, <3>2, QuietStep
    <2> QED BY <2>1, <2>2
  <1>9. CASE StoreSent(r)
    <2> DEFINE x == [mail |-> task[r].mail, key |-> SmtpKey(task[r].mail)]
    <2>1. Finish(r) /\ pc[r] = "store" /\ rows' = rows \cup {x} /\ x.mail = task[r].mail
      BY <1>9 DEF StoreSent
    <2>2. \A q \in Runners : q = r
      BY <2>1 DEF FilingInv, Filing, StoresAlone
    <2>3. pc'[r] = "idle" /\ OnlyOneRuns' /\ StoresAlone'
      BY <2>1, LockReleased DEF Finish, FilingInv, Typed, TypeOK
    <2>4. AboutToFile' /\ AboutToStore'
      BY <2>2, <2>3 DEF AboutToFile, AboutToStore
    <2>5. \A y \in rows : y.mail # x.mail
      BY <2>1 DEF FilingInv, Filing, AboutToStore
    <2> HIDE DEF x
    <2>6. FiledOnce'
      BY <2>1, <2>5 DEF FilingInv, Filing, FiledOnce
    <2> QED BY <2>3, <2>4, <2>6 DEF Filing
  <1> QED BY <1>1, <1>2, <1>3, <1>4, <1>5, <1>6, <1>7, <1>8, <1>9 DEF Step

LEMMA RunFiles ==
  ASSUME FilingInv, NEW r \in Runners, Start(r) \/ Disconnect(r) \/ Crash(r)
  PROVE  Filing'
PROOF
  <1> USE DEF FilingInv
  <1>1. CASE Start(r)
    <2>1. /\ pc' = [pc EXCEPT ![r] = "open"] /\ rows' = rows /\ lock' = r /\ lock = None
          /\ \E left \in {Boxes, <<Boxes[1]>>} : task' = [task EXCEPT ![r] = Task(left, FALSE)]
      BY <1>1 DEF Start, LockFree
    <2>2. \A q \in Runners : ~ Syncing(q)
      BY <2>1, MailAssumption DEF Filing, OnlyOneRuns
    <2>3. StoresAlone' /\ OnlyOneRuns'
      BY <2>1, <2>2 DEF Filing, StoresAlone, OnlyOneRuns, Syncing, Typed, TypeOK
    <2>4. AboutToFile' /\ AboutToStore' /\ FiledOnce'
      BY <2>1, NothingFiled DEF Typed, TypeOK
    <2> QED BY <2>3, <2>4 DEF Filing
  <1>2. CASE Disconnect(r)
    <2>1. task' = [task EXCEPT ![r] = [task[r] EXCEPT !.broken = TRUE]] /\ task[r] \in Tasks
      BY <1>2 DEF Disconnect, Typed, TypeOK
    <2>2. \A q \in Runners : task'[q].mail = task[q].mail
      BY <2>1 DEF Typed, TypeOK, Tasks
    <2>3. StoresAlone' /\ OnlyOneRuns'
      BY <1>2 DEF Disconnect, Filing, StoresAlone, OnlyOneRuns, Syncing
    <2>4. AboutToFile' /\ AboutToStore' /\ FiledOnce'
      BY <1>2, <2>2, NothingFiled DEF Disconnect
    <2> QED BY <2>3, <2>4 DEF Filing
  <1>3. CASE Crash(r)
    BY <1>3, LockReleased, NothingFiled DEF Crash, Filing
  <1> QED BY <1>1, <1>2, <1>3

LEMMA SubmitFiles ==
  ASSUME FilingInv, SendsApart, NEW r \in Runners, NEW m \in Mails, Submit(r, m)
  PROVE  Filing'
PROOF
  <1>1. /\ pc[r] = "idle" /\ m \notin seen /\ rows' = rows
        /\ task' = [task EXCEPT ![r] = [task[r] EXCEPT !.mail = m]] /\ pc' = [pc EXCEPT ![r] = "store"]
    BY DEF Submit
  <1>2. \A q, s \in Runners : q = s
    BY DEF SendsApart, Submit
  <1>3. pc'[r] = "store" /\ task'[r].mail = m
    BY <1>1 DEF FilingInv, Typed, TypeOK, Tasks
  <1>4. StoresAlone' /\ OnlyOneRuns' /\ AboutToFile'
    BY <1>2, <1>3 DEF StoresAlone, OnlyOneRuns, AboutToFile, Syncing
  <1>5. AboutToStore'
    BY <1>1, <1>2, <1>3 DEF AboutToStore, FilingInv, AllSeen
  <1>6. FiledOnce'
    BY <1>1 DEF FilingInv, Filing, FiledOnce
  <1> QED BY <1>4, <1>5, <1>6 DEF Filing
-----------------------------------------------------------------------------
(* Whatever is in a mailbox, in a row or in hand has been in a mailbox.       *)
LEMMA PutInSeen ==
  ASSUME Typed, AllSeen, NEW b \in BoxSet, NEW m \in Mails, PutIn(b, m)
  PROVE  /\ \A c \in BoxSet : \A u \in Present(c)' : held'[c][u] \in seen'
         /\ seen \subseteq seen' /\ m \in seen'
PROOF
  BY DEF Typed, TypeOK, AllSeen, PutIn, Present, Uids

LEMMA RebuildKeeps ==
  ASSUME Typed, NEW b \in BoxSet, Rebuild(b)
  PROVE  /\ \A c \in BoxSet : c # b => held'[c] = held[c] /\ next'[c] = next[c] /\ gen'[c] = gen[c]
         /\ \A u \in Present(b)' : u < next'[b] /\ \E v \in Present(b) : held'[b][u] = held[b][v]
         /\ gen'[b] = gen[b] + 1
PROOF
  <1> DEFINE Rank(u) == Cardinality({v \in Present(b) : v <= u})
             Old(n) == CHOOSE u \in Present(b) : Rank(u) = n
             Renumbered == [n \in Uids |-> IF \E u \in Present(b) : Rank(u) = n
                                           THEN held[b][Old(n)] ELSE None]
  <1>1. held' = [held EXCEPT ![b] = Renumbered] /\ next' = [next EXCEPT ![b] = Cardinality(Present(b)) + 1]
        /\ gen' = [gen EXCEPT ![b] = @ + 1]
    BY DEF Rebuild
  <1>2. ASSUME NEW u \in Uids, Renumbered[u] # None
        PROVE  u < Cardinality(Present(b)) + 1 /\ \E v \in Present(b) : Renumbered[u] = held[b][v]
    <2>1. PICK v \in Present(b) : Rank(v) = u
      BY <1>2
    <2>2. Present(b) \in SUBSET Uids /\ {w \in Present(b) : w <= v} \in SUBSET Present(b)
      BY DEF Present
    <2>3. u <= Cardinality(Present(b)) /\ u \in Nat /\ Cardinality(Present(b)) \in Nat
      BY <2>1, <2>2, SizeFacts
    <2>4. Old(u) \in Present(b)
      <3> HIDE DEF Rank
      <3> QED BY <2>1
    <2>5. Renumbered[u] = held[b][Old(u)]
      <3> HIDE DEF Rank, Old
      <3> QED BY <2>1
    <2> HIDE DEF Rank, Old, Renumbered
    <2> QED BY <2>3, <2>4, <2>5
  <1> HIDE DEF Renumbered
  <1>3. held'[b] = Renumbered /\ next'[b] = Cardinality(Present(b)) + 1
    BY <1>1 DEF Typed, TypeOK
  <1>4. gen'[b] = gen[b] + 1
    BY <1>1 DEF Typed, TypeOK
  <1> QED BY <1>1, <1>2, <1>3, <1>4 DEF Present, Typed, TypeOK

LEMMA ServerSeen ==
  ASSUME Typed, AllSeen, UNCHANGED <<rows, pc, task>>, seen \subseteq seen',
         \A c \in BoxSet : \A u \in Present(c)' : held'[c][u] \in seen'
  PROVE  AllSeen'
PROOF
  BY DEF AllSeen

LEMMA HandsOffSeen ==
  ASSUME Typed, AllSeen, UNCHANGED <<server, rows>>,
         \A q \in Runners : pc'[q] \in {"look", "insert", "store"} =>
           pc[q] \in {"look", "insert", "store"} /\ task'[q].mail = task[q].mail
  PROVE  AllSeen'
PROOF
  BY DEF AllSeen, server, Present

LEMMA LeavesSeen ==
  ASSUME Typed, AllSeen, NEW r \in Runners, LeaveBox(r) \/ Finish(r), UNCHANGED <<server, rows>>
  PROVE  AllSeen'
PROOF
  <1>1. \A q \in Runners : pc'[q] \in {"look", "insert", "store"} =>
           pc[q] \in {"look", "insert", "store"} /\ task'[q].mail = task[q].mail
    BY DEF LeaveBox, Finish, Typed, TypeOK
  <1> QED BY <1>1, HandsOffSeen

LEMMA StepSeen ==
  ASSUME Typed, AllSeen, NEW r \in Runners, Step(r)
  PROVE  AllSeen'
PROOF
  <1>1. CASE Open(r)
    BY <1>1, HandsOffSeen DEF Open, Typed, TypeOK
  <1>2. CASE Search(r)
    <2>1. CASE Found(r) = {}
      BY <1>2, <2>1, LeavesSeen DEF Search
    <2>2. CASE Found(r) # {}
      <3>1. \A q \in Runners : pc'[q] \in {"look", "insert", "store"} =>
              pc[q] \in {"look", "insert", "store"} /\ task'[q].mail = task[q].mail
        BY <1>2, <2>2 DEF Search, Typed, TypeOK
      <3> QED BY <3>1, <1>2, HandsOffSeen DEF Search
    <2> QED BY <2>1, <2>2
  <1>3. CASE Unavailable(r)
    BY <1>3, LeavesSeen DEF Unavailable
  <1>4. CASE Fetch(r)
    <2>1. Box(r) \in BoxSet /\ Uid(r) \in Present(Box(r))
      BY <1>4, WorkFacts DEF Fetch, Syncing, Busy, Present
    <2>2. held[Box(r)][Uid(r)] \in seen
      BY <2>1 DEF AllSeen
    <2>3. task'[r].mail = held[Box(r)][Uid(r)] /\ \A q \in Runners : q # r => task'[q] = task[q] /\ pc'[q] = pc[q]
      BY <1>4 DEF Fetch, Typed, TypeOK, Tasks
    <2> QED BY <1>4, <2>2, <2>3 DEF AllSeen, Fetch, server, Present
  <1>5. CASE Unfetched(r)
    BY <1>5, HandsOffSeen DEF Unfetched, Typed, TypeOK
  <1>6. CASE Look(r)
    <2>1. \A q \in Runners : pc'[q] \in {"look", "insert", "store"} => pc[q] \in {"look", "insert", "store"}
      BY <1>6 DEF Look, Typed, TypeOK
    <2> QED BY <1>6, <2>1, HandsOffSeen DEF Look
  <1>7. CASE Insert(r)
    <2> DEFINE x == [mail |-> task[r].mail, key |-> ImapKey(Box(r), gen[Box(r)], Uid(r))]
    <2>1. rows' \subseteq rows \cup {x} /\ x.mail = task[r].mail /\ task[r].mail \in seen
      BY <1>7 DEF Insert, AllSeen
    <2>2. \A q \in Runners : pc'[q] \in {"look", "insert", "store"} => pc'[q] = pc[q]
      BY <1>7 DEF Insert, Typed, TypeOK
    <2> HIDE DEF x
    <2> QED BY <1>7, <2>1, <2>2 DEF Insert, AllSeen, server, Present
  <1>8. CASE Advance(r)
    <2>1. CASE task[r].uids = {Uid(r)}
      BY <1>8, <2>1, LeavesSeen DEF Advance
    <2>2. CASE task[r].uids # {Uid(r)}
      <3>1. \A q \in Runners : pc'[q] \in {"look", "insert", "store"} =>
              pc[q] \in {"look", "insert", "store"} /\ task'[q].mail = task[q].mail
        BY <1>8, <2>2 DEF Advance, Typed, TypeOK
      <3> QED BY <3>1, <1>8, HandsOffSeen DEF Advance
    <2> QED BY <2>1, <2>2
  <1>9. CASE StoreSent(r)
    <2> DEFINE x == [mail |-> task[r].mail, key |-> SmtpKey(task[r].mail)]
    <2>1. rows' = rows \cup {x} /\ x.mail = task[r].mail /\ task[r].mail \in seen
      BY <1>9 DEF StoreSent, AllSeen
    <2>2. \A q \in Runners : pc'[q] \in {"look", "insert", "store"} => pc'[q] = pc[q] /\ task'[q] = task[q]
      BY <1>9 DEF StoreSent, Finish, Typed, TypeOK
    <2> HIDE DEF x
    <2> QED BY <1>9, <2>1, <2>2 DEF StoreSent, AllSeen, server, Present
  <1> QED BY <1>1, <1>2, <1>3, <1>4, <1>5, <1>6, <1>7, <1>8, <1>9 DEF Step

LEMMA NextSeen ==
  ASSUME Typed, AllSeen, [Next]_vars
  PROVE  AllSeen'
PROOF
  <1>1. ASSUME NEW b \in BoxSet, NEW m \in Mails, Deliver(b, m) PROVE AllSeen'
    BY <1>1, PutInSeen, ServerSeen DEF Deliver
  <1>2. ASSUME NEW b \in BoxSet, NEW u \in Uids, Expunge(b, u) PROVE AllSeen'
    <2>1. \A c \in BoxSet : \A v \in Present(c)' : held'[c][v] \in seen'
      BY <1>2 DEF Expunge, AllSeen, Present, Typed, TypeOK
    <2> QED BY <1>2, <2>1, ServerSeen DEF Expunge
  <1>3. ASSUME NEW b \in BoxSet, Rebuild(b) PROVE AllSeen'
    <2>1. seen' = seen /\ UNCHANGED <<rows, pc, task>>
      BY <1>3 DEF Rebuild
    <2>2. \A v \in Present(b)' : held'[b][v] \in seen
      BY <1>3, RebuildKeeps DEF AllSeen
    <2>3. \A c \in BoxSet : c # b => held'[c] = held[c]
      BY <1>3, RebuildKeeps
    <2>4. \A c \in BoxSet : \A v \in Present(c)' : held'[c][v] \in seen'
      BY <2>1, <2>2, <2>3 DEF AllSeen, Present
    <2> QED BY <2>1, <2>4, ServerSeen
  <1>4. ASSUME NEW r \in Runners, Start(r) \/ Step(r) \/ Disconnect(r) \/ Crash(r) PROVE AllSeen'
    <2>1. CASE Start(r)
      BY <2>1, HandsOffSeen DEF Start, Typed, TypeOK
    <2>2. CASE Disconnect(r)
      <3>1. task' = [task EXCEPT ![r] = [task[r] EXCEPT !.broken = TRUE]] /\ task[r] \in Tasks
        BY <2>2 DEF Disconnect, Typed, TypeOK
      <3>2. \A q \in Runners : task'[q].mail = task[q].mail
        BY <3>1 DEF Typed, TypeOK, Tasks
      <3> QED BY <2>2, <3>2, HandsOffSeen DEF Disconnect
    <2>3. CASE Crash(r)
      BY <2>3, LeavesSeen DEF Crash
    <2> QED BY <1>4, <2>1, <2>2, <2>3, StepSeen
  <1>5. ASSUME NEW r \in Runners, NEW m \in Mails, Submit(r, m) PROVE AllSeen'
    <2>1. Boxes[Len(Boxes)] \in BoxSet
      BY MailAssumption DEF BoxSet
    <2>2. /\ \A c \in BoxSet : \A v \in Present(c)' : held'[c][v] \in seen'
          /\ seen \subseteq seen' /\ m \in seen'
      BY <1>5, <2>1, PutInSeen DEF Submit
    <2>3. task'[r].mail = m /\ \A q \in Runners : q # r => task'[q] = task[q] /\ pc'[q] = pc[q]
      BY <1>5 DEF Submit, Typed, TypeOK, Tasks
    <2> QED BY <1>5, <2>2, <2>3 DEF AllSeen, Submit
  <1>6. CASE UNCHANGED vars
    BY <1>6 DEF AllSeen, Present, vars, server
  <1> QED BY <1>1, <1>2, <1>3, <1>4, <1>5, <1>6 DEF Next

LEMMA NextFiles == SendsApart /\ FilingInv /\ [Next]_vars => FilingInv'
PROOF
  <1> SUFFICES ASSUME SendsApart, FilingInv, [Next]_vars
               PROVE  Filing'
    BY NextTyped, NextSeen DEF FilingInv
  <1>1. CASE \E b \in BoxSet, m \in Mails : Deliver(b, m)
    BY <1>1, ServerFiles DEF Deliver
  <1>2. CASE \E b \in BoxSet, u \in Uids : Expunge(b, u)
    BY <1>2, ServerFiles DEF Expunge
  <1>3. CASE \E b \in BoxSet : Rebuild(b)
    BY <1>3, ServerFiles DEF Rebuild
  <1>4. CASE \E r \in Runners : Start(r) \/ Step(r) \/ Disconnect(r) \/ Crash(r)
    BY <1>4, StepFiles, RunFiles
  <1>5. CASE \E r \in Runners, m \in Mails : Submit(r, m)
    BY <1>5, SubmitFiles
  <1>6. CASE UNCHANGED vars
    BY <1>6, ServerFiles DEF vars
  <1> QED BY <1>1, <1>2, <1>3, <1>4, <1>5, <1>6 DEF Next

LEMMA FilingStarts == Init => FilingInv
PROOF
  <1>1. Init => Filing /\ AllSeen
    BY DEF Init, Filing, StoresAlone, OnlyOneRuns, AboutToFile, AboutToStore, FiledOnce, Syncing, AllSeen, Present
  <1> QED BY <1>1, InitiallyTyped DEF FilingInv

(* No message with a Message-ID is filed twice, however many instances        *)
(* synchronize however many mailboxes, and whatever the server, crashes and   *)
(* lost connections do to their cursors: the advisory lock is enough, as long *)
(* as what the CRM sends is not stored while a mailbox is synchronized.       *)
THEOREM SyncFilesOnce ==
  ASSUME SendsApart
  PROVE  Spec => []FiledOnce
PROOF
  <1>1. FilingInv => FiledOnce
    BY DEF FilingInv, Filing
  <1>2. SendsApart
    OBVIOUS
  <1> QED BY <1>1, <1>2, FilingStarts, NextFiles, PTL DEF Spec
-----------------------------------------------------------------------------
(* What a runner found neither by Message-ID nor by token stays unknown until *)
(* its row is there.                                                          *)
TokenUnknown == \A r \in Runners : pc[r] = "insert" => ~ ByToken(r)

SentInv == TokenUnknown /\ SentCopyIsNotFiled

LEMMA KeysApart ==
  ASSUME NEW b, NEW g \in 1..MaxGen, NEW u, NEW m
  PROVE  ImapKey(b, g, u) # SmtpKey(m)
PROOF
  BY MailAssumption DEF ImapKey, SmtpKey

LEMMA NothingSent ==
  ASSUME SentInv, UNCHANGED rows,
         \A q \in Runners : pc'[q] = "insert" =>
           pc[q] = "insert" /\ task'[q].mail = task[q].mail /\ task'[q].left = task[q].left
  PROVE  SentInv'
PROOF
  BY DEF SentInv, TokenUnknown, ByToken, Box, SentCopyIsNotFiled

LEMMA LeavesUnsent ==
  ASSUME Typed, NEW r \in Runners, LeaveBox(r)
  PROVE  \A q \in Runners : pc'[q] = "insert" => pc[q] = "insert" /\ task'[q] = task[q]
PROOF
  BY DEF LeaveBox, Finish, Typed, TypeOK

LEMMA LookSent ==
  ASSUME FilingInv, SentInv, NEW r \in Runners, Look(r)
  PROVE  SentInv'
PROOF
  <1>1. /\ UNCHANGED <<rows, task>> /\ pc'[r] = (IF Stored(r) THEN "advance" ELSE "insert")
        /\ \A q \in Runners : q # r => pc'[q] = pc[q]
    BY DEF Look, FilingInv, Typed, TypeOK
  <1>2. ASSUME NEW q \in Runners, pc'[q] = "insert" PROVE ~ ByToken(q)
    <2>1. CASE q = r
      BY <1>1, <1>2, <2>1 DEF Stored
    <2>2. CASE q # r
      BY <1>1, <1>2, <2>2 DEF SentInv, TokenUnknown
    <2> QED BY <2>1, <2>2
  <1>3. TokenUnknown'
    BY <1>1, <1>2 DEF TokenUnknown, ByToken, Box
  <1> QED BY <1>1, <1>3 DEF SentInv, SentCopyIsNotFiled

(* An imported row is a second one only where neither lookup applied.         *)
LEMMA InsertSent ==
  ASSUME FilingInv, SentInv, NEW r \in Runners, Insert(r)
  PROVE  SentInv'
PROOF
  <1> DEFINE m == task[r].mail  x == [mail |-> m, key |-> ImapKey(Box(r), gen[Box(r)], Uid(r))]
  <1>1. /\ pc[r] = "insert" /\ pc'[r] = "advance" /\ UNCHANGED task
        /\ \A q \in Runners : q # r => pc'[q] = pc[q]
        /\ rows' = rows \/ rows' = rows \cup {x}
    BY DEF Insert, FilingInv, Typed, TypeOK
  <1>2. \A q \in Runners : q # r => pc'[q] # "insert"
    BY <1>1 DEF FilingInv, Filing, OnlyOneRuns, Syncing
  <1>3. TokenUnknown'
    BY <1>1, <1>2 DEF TokenUnknown
  <1>4. x.mail = m /\ x.key[1] = Box(r) /\ \A n : x.key # SmtpKey(n)
    <2>1. Syncing(r) /\ Typed
      BY <1>1 DEF Syncing, FilingInv
    <2>2. gen[Box(r)] \in 1..MaxGen
      BY <2>1, WorkFacts DEF Typed, TypeOK
    <2>3. \A n : x.key # SmtpKey(n)
      BY <2>2, KeysApart
    <2>4. x.key[1] = Box(r)
      BY DEF ImapKey
    <2> QED BY <2>3, <2>4
  <1>5. /\ m \notin NoId => \A y \in rows : y.mail # m
        /\ Box(r) # Boxes[1] /\ m \in Tracked => \A y \in rows : y.key # SmtpKey(m)
    BY <1>1 DEF FilingInv, Filing, AboutToFile, ByMessageId, SentInv, TokenUnknown, ByToken
  <1> HIDE DEF m, x
  <1>6. SentCopyIsNotFiled'
    BY <1>1, <1>4, <1>5 DEF SentInv, SentCopyIsNotFiled
  <1> QED BY <1>3, <1>6 DEF SentInv

(* A message about to be stored has not been imported before.                 *)
LEMMA StoreSentSent ==
  ASSUME FilingInv, SentInv, NEW r \in Runners, StoreSent(r)
  PROVE  SentInv'
PROOF
  <1> DEFINE x == [mail |-> task[r].mail, key |-> SmtpKey(task[r].mail)]
  <1>1. Finish(r) /\ pc[r] = "store" /\ rows' = rows \cup {x} /\ x.mail = task[r].mail
    BY DEF StoreSent
  <1>2. \A q \in Runners : q = r
    BY <1>1 DEF FilingInv, Filing, StoresAlone
  <1>3. TokenUnknown'
    BY <1>1, <1>2 DEF TokenUnknown, Finish, FilingInv, Typed, TypeOK
  <1>4. \A y \in rows : y.mail # x.mail
    BY <1>1 DEF FilingInv, Filing, AboutToStore
  <1> HIDE DEF x
  <1>5. SentCopyIsNotFiled'
    BY <1>1, <1>4 DEF SentInv, SentCopyIsNotFiled
  <1> QED BY <1>3, <1>5 DEF SentInv

LEMMA NextSent ==
  ASSUME FilingInv, SentInv, [Next]_vars
  PROVE  SentInv'
PROOF
  <1>t. Typed
    BY DEF FilingInv
  <1>1. CASE \/ \E b \in BoxSet, m \in Mails : Deliver(b, m)
             \/ \E b \in BoxSet, u \in Uids : Expunge(b, u)
             \/ \E b \in BoxSet : Rebuild(b)
             \/ UNCHANGED vars
    BY <1>1, NothingSent DEF Deliver, Expunge, Rebuild, vars
  <1>2. ASSUME NEW r \in Runners, Start(r) PROVE SentInv'
    <2>1. rows' = rows /\ pc'[r] = "open" /\ \A q \in Runners : q # r => pc'[q] = pc[q] /\ task'[q] = task[q]
      BY <1>2, <1>t DEF Start, Typed, TypeOK
    <2> QED BY <2>1, NothingSent
  <1>3. ASSUME NEW r \in Runners, Disconnect(r) PROVE SentInv'
    <2>1. task' = [task EXCEPT ![r] = [task[r] EXCEPT !.broken = TRUE]] /\ task[r] \in Tasks
          /\ UNCHANGED <<rows, pc>>
      BY <1>3, <1>t DEF Disconnect, Typed, TypeOK
    <2>2. \A q \in Runners : task'[q].mail = task[q].mail /\ task'[q].left = task[q].left
      BY <2>1, <1>t DEF Typed, TypeOK, Tasks
    <2> QED BY <2>1, <2>2, NothingSent
  <1>4. ASSUME NEW r \in Runners, Crash(r) PROVE SentInv'
    BY <1>4, <1>t, NothingSent DEF Crash, Finish, Typed, TypeOK
  <1>5. ASSUME NEW r \in Runners, NEW m \in Mails, Submit(r, m) PROVE SentInv'
    <2>1. rows' = rows /\ pc'[r] = "store" /\ \A q \in Runners : q # r => pc'[q] = pc[q] /\ task'[q] = task[q]
      BY <1>5, <1>t DEF Submit, Typed, TypeOK
    <2> QED BY <2>1, NothingSent
  <1>6. ASSUME NEW r \in Runners, Step(r) PROVE SentInv'
    <2>1. CASE Open(r) \/ Fetch(r) \/ Unfetched(r)
      <3>1. rows' = rows /\ pc'[r] # "insert" /\ \A q \in Runners : q # r => pc'[q] = pc[q] /\ task'[q] = task[q]
        BY <2>1, <1>t DEF Open, Fetch, Unfetched, Typed, TypeOK
      <3> QED BY <3>1, NothingSent
    <2>2. CASE Search(r) \/ Unavailable(r) \/ Advance(r)
      <3>1. rows' = rows
        BY <2>2 DEF Search, Unavailable, Advance
      <3>2. CASE LeaveBox(r)
        BY <3>1, <3>2, <1>t, LeavesUnsent, NothingSent
      <3>3. CASE ~ LeaveBox(r)
        <4>1. pc'[r] # "insert" /\ \A q \in Runners : q # r => pc'[q] = pc[q] /\ task'[q] = task[q]
          BY <2>2, <3>3, <1>t DEF Search, Unavailable, Advance, Typed, TypeOK
        <4> QED BY <3>1, <4>1, NothingSent
      <3> QED BY <3>2, <3>3
    <2>3. CASE Look(r) \/ Insert(r) \/ StoreSent(r)
      BY <2>3, LookSent, InsertSent, StoreSentSent
    <2> QED BY <1>6, <2>1, <2>2, <2>3 DEF Step
  <1> QED BY <1>1, <1>2, <1>3, <1>4, <1>5, <1>6 DEF Next

(* A message the CRM sent is in the archive once, also when the provider      *)
(* drops the Message-ID of its copy in Sent: that copy is found by the token. *)
(* Only copies without Message-ID that have no token, or lie in the INBOX,    *)
(* become second rows.                                                        *)
THEOREM SentCopyFoundAgain ==
  ASSUME SendsApart
  PROVE  Spec => []SentCopyIsNotFiled
PROOF
  <1>1. SendsApart
    OBVIOUS
  <1>2. Init => FilingInv /\ SentInv
    <2>1. Init => SentInv
      BY DEF Init, SentInv, TokenUnknown, SentCopyIsNotFiled
    <2> QED BY <2>1, FilingStarts
  <1>3. FilingInv /\ SentInv /\ [Next]_vars => FilingInv' /\ SentInv'
    BY <1>1, NextFiles, NextSent
  <1>4. SentInv => SentCopyIsNotFiled
    BY DEF SentInv
  <1> QED BY <1>2, <1>3, <1>4, PTL DEF Spec
-----------------------------------------------------------------------------
(* A new row of a message that has none is the filing of that message.        *)
LEMMA FilesOneRow ==
  ASSUME Typed, NEW x, x.mail \in Mails, x.mail \in seen, UNCHANGED seen, rows' = rows \cup {x},
         x.mail \in NoId \/ \A y \in rows : y.mail # x.mail
  PROVE  [Filed!ArchiveNext]_(Filed!archiveVars)
PROOF
  <1>1. \A m : m # x.mail => {y \in rows' : y.mail = m} = {y \in rows : y.mail = m}
    OBVIOUS
  <1>2. \A m : m # x.mail => RowsOf(m)' = RowsOf(m)
    BY <1>1 DEF RowsOf
  <1>3. CASE x.mail \in NoId
    BY <1>2, <1>3 DEF Filed!archiveVars
  <1>4. CASE x.mail \notin NoId
    <2>1. {y \in rows : y.mail = x.mail} = {} /\ {y \in rows' : y.mail = x.mail} = {x}
      BY <1>4
    <2>2. RowsOf(x.mail) = 0
      BY <2>1, FS_EmptySet DEF RowsOf
    <2>3. RowsOf(x.mail)' = 1
      BY <2>1, FS_Singleton DEF RowsOf
    <2>4. Filed!File(x.mail)
      BY <1>2, <1>4, <2>2, <2>3 DEF Filed!File
    <2> QED BY <1>4, <2>4 DEF Filed!ArchiveNext
  <1> QED BY <1>3, <1>4

(* Everything else is a message that arrives, or nothing to the archive.      *)
LEMMA ArchiveWaits ==
  ASSUME Typed, UNCHANGED rows, UNCHANGED seen \/ \E m \in Mails : seen' = seen \cup {m}
  PROVE  [Filed!ArchiveNext]_(Filed!archiveVars)
PROOF
  <1>1. \A m : RowsOf(m)' = RowsOf(m)
    BY DEF RowsOf
  <1>2. CASE UNCHANGED seen
    BY <1>1, <1>2 DEF Filed!archiveVars
  <1>3. ASSUME NEW m \in Mails, seen' = seen \cup {m}
        PROVE  [Filed!ArchiveNext]_(Filed!archiveVars)
    <2>1. CASE m \in NoId
      BY <1>1, <1>3, <2>1 DEF Filed!archiveVars
    <2>2. CASE m \notin NoId
      <3>1. Filed!Arrive(m)
        BY <1>1, <1>3, <2>2 DEF Filed!Arrive
      <3> QED BY <2>2, <3>1 DEF Filed!ArchiveNext
    <2> QED BY <2>1, <2>2
  <1> QED BY <1>2, <1>3

LEMMA StepArchives ==
  ASSUME FilingInv, NEW r \in Runners, Step(r)
  PROVE  [Filed!ArchiveNext]_(Filed!archiveVars)
PROOF
  <1>1. CASE Open(r) \/ Search(r) \/ Unavailable(r) \/ Fetch(r) \/ Unfetched(r) \/ Look(r) \/ Advance(r)
    <2>1. UNCHANGED <<rows, seen>>
      BY <1>1 DEF Open, Search, Unavailable, Fetch, Unfetched, Look, Advance, server
    <2> QED BY <2>1, ArchiveWaits DEF FilingInv
  <1>2. CASE Insert(r)
    <2> DEFINE x == [mail |-> task[r].mail, key |-> ImapKey(Box(r), gen[Box(r)], Uid(r))]
    <2>1. pc[r] = "insert" /\ UNCHANGED seen /\ (UNCHANGED rows \/ rows' = rows \cup {x}) /\ x.mail = task[r].mail
      BY <1>2 DEF Insert, server
    <2>2. x.mail \in Mails /\ x.mail \in seen
      BY <2>1 DEF FilingInv, Typed, Shape, AllSeen
    <2>3. x.mail \in NoId \/ \A y \in rows : y.mail # x.mail
      BY <2>1 DEF FilingInv, Filing, AboutToFile, ByMessageId
    <2> HIDE DEF x
    <2> QED BY <2>1, <2>2, <2>3, ArchiveWaits, FilesOneRow DEF FilingInv
  <1>3. CASE StoreSent(r)
    <2> DEFINE x == [mail |-> task[r].mail, key |-> SmtpKey(task[r].mail)]
    <2>1. pc[r] = "store" /\ UNCHANGED seen /\ rows' = rows \cup {x} /\ x.mail = task[r].mail
      BY <1>3 DEF StoreSent, server
    <2>2. x.mail \in Mails /\ x.mail \in seen
      BY <2>1 DEF FilingInv, Typed, Shape, AllSeen
    <2>3. \A y \in rows : y.mail # x.mail
      BY <2>1 DEF FilingInv, Filing, AboutToStore
    <2> HIDE DEF x
    <2> QED BY <2>1, <2>2, <2>3, FilesOneRow DEF FilingInv
  <1> QED BY <1>1, <1>2, <1>3 DEF Step

LEMMA NextArchives == FilingInv /\ [Next]_vars => [Filed!ArchiveNext]_(Filed!archiveVars)
PROOF
  <1> SUFFICES ASSUME FilingInv, [Next]_vars PROVE [Filed!ArchiveNext]_(Filed!archiveVars)
    OBVIOUS
  <1> USE DEF FilingInv
  <1>1. CASE \E b \in BoxSet, m \in Mails : Deliver(b, m)
    BY <1>1, ArchiveWaits DEF Deliver, PutIn
  <1>2. CASE \E b \in BoxSet, u \in Uids : Expunge(b, u)
    BY <1>2, ArchiveWaits DEF Expunge
  <1>3. CASE \E b \in BoxSet : Rebuild(b)
    <2>1. UNCHANGED <<rows, seen>>
      BY <1>3 DEF Rebuild
    <2> QED BY <2>1, ArchiveWaits
  <1>4. ASSUME NEW r \in Runners, Start(r) \/ Step(r) \/ Disconnect(r) \/ Crash(r)
        PROVE  [Filed!ArchiveNext]_(Filed!archiveVars)
    <2>1. CASE Step(r)
      BY <2>1, StepArchives
    <2>2. CASE Start(r) \/ Disconnect(r) \/ Crash(r)
      <3>1. UNCHANGED <<rows, seen>>
        BY <2>2 DEF Start, Disconnect, Crash, server
      <3> QED BY <3>1, ArchiveWaits
    <2> QED BY <1>4, <2>1, <2>2
  <1>5. CASE \E r \in Runners, m \in Mails : Submit(r, m)
    BY <1>5, ArchiveWaits DEF Submit, PutIn
  <1>6. CASE UNCHANGED vars
    BY <1>6, ArchiveWaits DEF vars, server
  <1> QED BY <1>1, <1>2, <1>3, <1>4, <1>5, <1>6 DEF Next

(* sync_mailbox implements the archive: a message is filed at most once, only *)
(* after it was in a mailbox, and what was filed stays filed, whatever the    *)
(* server, crashes and lost connections do to the cursors.                    *)
THEOREM SyncArchives ==
  ASSUME SendsApart
  PROVE  Spec => ImplementsArchive
PROOF
  <1>1. Init => Filed!ArchiveInit
    <2> SUFFICES ASSUME Init PROVE Filed!ArchiveInit
      OBVIOUS
    <2>1. \A m : RowsOf(m) = 0
      <3> TAKE m
      <3>1. {x \in rows : x.mail = m} = {}
        BY DEF Init
      <3> QED BY <3>1, FS_EmptySet DEF RowsOf
    <2> QED BY <2>1 DEF Init, Filed!ArchiveInit
  <1>2. SendsApart
    OBVIOUS
  <1> QED BY <1>1, <1>2, FilingStarts, NextFiles, NextArchives, PTL DEF Spec, ImplementsArchive, Filed!Archive
-----------------------------------------------------------------------------
(* CursorIsHonest is about all that lies below a cursor, and a cursor moves to*)
(* the UID at hand without a look at what lies below it.  That is right as    *)
(* long as the work of an instance covers the mailbox: of what is present,    *)
(* every message is still to be fetched, has been tried, or came after the    *)
(* work was listed.                                                           *)
Tried(b, u) == u \in skipped[b] \/ \E x \in rows : x.mail = held[b][u]

(* What a key of the archive tells about the mailbox as it is.                *)
KeysTrue ==
  \A x \in rows :
    /\ \A m \in Mails : x.key = SmtpKey(m) => x.mail = m
    /\ \A b \in BoxSet, g \in 1..MaxGen, u \in Uids : x.key = ImapKey(b, g, u) =>
         /\ g <= gen[b]
         /\ g = gen[b] => u < next[b] /\ (u \in Present(b) => x.mail = held[b][u])

Numbered ==
  \A b \in BoxSet :
    /\ \A u \in Present(b) : u < next[b]
    /\ state[b] # None => state[b].gen <= gen[b]
    /\ ~ IsInitial(b) => state[b].uid < next[b]

Honest ==
  \A b \in BoxSet : ~ IsInitial(b) => \A u \in Present(b) : u > state[b].uid \/ Tried(b, u)

OnBox(r) == pc[r] \in Busy \cup {"search"} => state[Box(r)].gen = gen[Box(r)]

Covers(r) ==
  pc[r] \in Busy =>
    /\ \A v \in task[r].uids : v < next[Box(r)]
    /\ \A u \in Present(Box(r)) :
         u \in task[r].uids \/ Tried(Box(r), u) \/ \A v \in task[r].uids : v < u

AtHand(r) ==
  /\ pc[r] \in {"look", "insert"} /\ Uid(r) \in Present(Box(r)) => held[Box(r)][Uid(r)] = task[r].mail
  /\ pc[r] = "advance" /\ Uid(r) \in Present(Box(r)) => Tried(Box(r), Uid(r))

Works(r) == OnBox(r) /\ Covers(r) /\ AtHand(r)

Cursors == KeysTrue /\ Numbered /\ Honest /\ \A r \in Runners : Works(r)
CursorInv == Typed /\ Cursors

LEMMA OpenedStates ==
  ASSUME Typed, NEW r \in Runners, pc[r] \in Busy \cup {"search"}
  PROVE  state[Box(r)] \in States /\ Box(r) \in BoxSet /\ Syncing(r)
PROOF
  <1>1. Syncing(r)
    BY DEF Busy, Syncing
  <1>2. Box(r) \in BoxSet /\ state[Box(r)] # None
    BY <1>1, WorkFacts DEF Typed, Opened
  <1> QED BY <1>1, <1>2 DEF Typed, TypeOK

(* What an instance does to the work of the others: rows and tried UIDs are   *)
(* only added, the mailboxes stay, a cursor stays in its generation.          *)
LEMMA OthersWork ==
  ASSUME CursorInv, UNCHANGED server, rows \subseteq rows',
         \A b \in BoxSet : skipped[b] \subseteq skipped'[b],
         \A b \in BoxSet : state[b] # None => state'[b] = state[b] \/ state'[b].gen = gen[b],
         NEW q \in Runners, task'[q] = task[q], pc'[q] = pc[q]
  PROVE  Works(q)'
PROOF
  <1>1. Works(q) /\ Typed
    BY DEF CursorInv, Cursors
  <1>2. Box(q)' = Box(q) /\ Uid(q)' = Uid(q)
    BY DEF Box, Uid
  <1>3. CASE pc[q] \in Busy \cup {"search"}
    <2>1. Box(q) \in BoxSet /\ state[Box(q)] # None
      BY <1>1, <1>3, OpenedStates, NoneAssumption
    <2>2. Present(Box(q))' = Present(Box(q)) /\ held'[Box(q)] = held[Box(q)] /\ gen'[Box(q)] = gen[Box(q)]
          /\ next'[Box(q)] = next[Box(q)]
      BY <1>2 DEF Present, server
    <2>3. \A u : Tried(Box(q), u) => Tried(Box(q), u)'
      BY <1>2, <2>1, <2>2 DEF Tried
    <2>4. OnBox(q)'
      BY <1>1, <1>2, <2>1, <2>2 DEF Works, OnBox
    <2>5. Covers(q)'
      BY <1>1, <1>2, <2>2, <2>3 DEF Works, Covers
    <2>6. AtHand(q)'
      BY <1>1, <1>2, <2>2, <2>3 DEF Works, AtHand
    <2> QED BY <2>4, <2>5, <2>6 DEF Works
  <1>4. CASE pc[q] \notin Busy \cup {"search"}
    BY <1>4 DEF Works, OnBox, Covers, AtHand, Busy
  <1> QED BY <1>3, <1>4

(* One that is in no mailbox, or has only opened one, has nothing to cover.   *)
LEMMA IdleWorks ==
  ASSUME NEW q \in Runners, pc'[q] \notin Busy \cup {"search"}
  PROVE  Works(q)'
PROOF
  BY DEF Works, OnBox, Covers, AtHand, Busy

(* Cursors, as far as neither they nor the mailboxes move.                    *)
LEMMA CursorsStay ==
  ASSUME CursorInv, UNCHANGED <<server, state>>, rows \subseteq rows',
         \A b \in BoxSet : skipped[b] \subseteq skipped'[b]
  PROVE  Numbered' /\ Honest'
PROOF
  <1>1. Numbered'
    BY DEF CursorInv, Cursors, Numbered, IsInitial, Present, server
  <1>2. Honest'
    BY DEF CursorInv, Cursors, Honest, IsInitial, Tried, Present, server
  <1> QED BY <1>1, <1>2

LEMMA KeysStay ==
  ASSUME CursorInv, UNCHANGED <<server, rows>>
  PROVE  KeysTrue'
PROOF
  BY DEF CursorInv, Cursors, KeysTrue, Present, server

(* Leaving a mailbox, or the run, moves no cursor.                            *)
LEMMA LeavesBehind ==
  ASSUME CursorInv, NEW r \in Runners, LeaveBox(r) \/ Finish(r)
  PROVE  /\ pc'[r] \notin Busy \cup {"search"}
         /\ \A q \in Runners : q # r => task'[q] = task[q] /\ pc'[q] = pc[q]
PROOF
  BY DEF LeaveBox, Finish, CursorInv, Typed, TypeOK, Busy

LEMMA LeavesCursor ==
  ASSUME CursorInv, NEW r \in Runners, LeaveBox(r) \/ Finish(r), UNCHANGED <<server, rows, state, skipped>>
  PROVE  Cursors'
PROOF
  <1>1. KeysTrue' /\ Numbered' /\ Honest'
    BY KeysStay, CursorsStay
  <1>2. Works(r)'
    BY LeavesBehind, IdleWorks
  <1>3. ASSUME NEW q \in Runners, q # r PROVE Works(q)'
    BY <1>3, LeavesBehind, OthersWork
  <1> QED BY <1>1, <1>2, <1>3 DEF Cursors

LEMMA OpenCursor ==
  ASSUME CursorInv, NEW r \in Runners, Open(r)
  PROVE  Cursors'
PROOF
  <1>1. /\ Typed /\ Box(r) \in BoxSet /\ pc[r] = "open" /\ task[r] \in Tasks
        /\ UNCHANGED <<server, rows, skipped>>
    BY WorkFacts DEF Open, CursorInv, Syncing
  <1>2. /\ \A b \in BoxSet : b # Box(r) \/ ~ IsInitial(b) => state'[b] = state[b]
        /\ IsInitial(Box(r)) => state'[Box(r)] = [gen |-> gen[Box(r)], uid |-> 0]
    BY <1>1 DEF Open, Typed, TypeOK
  <1>3. IsInitial(Box(r)) => state'[Box(r)].gen = gen[Box(r)] /\ state'[Box(r)].uid = 0
    BY <1>2
  <1>4. KeysTrue'
    BY <1>1, KeysStay
  <1>5. Numbered'
    <2>1. \A b \in BoxSet : state'[b] # None => state'[b].gen <= gen[b]
      BY <1>1, <1>2, <1>3 DEF CursorInv, Cursors, Numbered, Typed, TypeOK
    <2>2. ASSUME NEW b \in BoxSet, ~ IsInitial(b)' PROVE state'[b].uid < next[b]
      <3>1. CASE b = Box(r) /\ IsInitial(b)
        <4>1. next[b] \in 1..(MaxUid + 1)
          BY <1>1 DEF Typed, TypeOK
        <4> QED BY <1>3, <3>1, <4>1, MailAssumption
      <3>2. CASE b # Box(r) \/ ~ IsInitial(b)
        <4>1. state'[b] = state[b] /\ gen'[b] = gen[b]
          BY <1>1, <1>2, <3>2 DEF server
        <4> QED BY <2>2, <4>1 DEF IsInitial, CursorInv, Cursors, Numbered
      <3> QED BY <3>1, <3>2
    <2> QED BY <1>1, <2>1, <2>2 DEF CursorInv, Cursors, Numbered, Present, server
  <1>6. Honest'
    <2> SUFFICES ASSUME NEW b \in BoxSet, ~ IsInitial(b)', NEW u \in Present(b)
                 PROVE  u > state'[b].uid \/ Tried(b, u)
      BY <1>1 DEF Honest, Present, Tried, server
    <2>1. CASE b = Box(r) /\ IsInitial(b)
      BY <1>3, <2>1 DEF Present, Uids
    <2>2. CASE ~ (b = Box(r) /\ IsInitial(b))
      <3>1. state'[b] = state[b] /\ gen'[b] = gen[b]
        BY <1>1, <1>2, <2>2 DEF server
      <3>2. ~ IsInitial(b)
        BY <3>1 DEF IsInitial
      <3> QED BY <3>1, <3>2 DEF CursorInv, Cursors, Honest
    <2> QED BY <2>1, <2>2
  <1>7. \A q \in Runners : q # r => task'[q] = task[q] /\ pc'[q] = pc[q]
    BY <1>1 DEF Open, Typed, TypeOK
  <1>8. \A b \in BoxSet : state[b] # None => state'[b] = state[b] \/ state'[b].gen = gen[b]
    BY <1>2, <1>3
  <1>9. ASSUME NEW q \in Runners, q # r PROVE Works(q)'
    BY <1>1, <1>7, <1>8, <1>9, OthersWork
  <1>10. Works(r)'
    <2>1. pc'[r] = "search" /\ task'[r].left = task[r].left
      BY <1>1 DEF Open, Typed, TypeOK, Tasks
    <2>2. Box(r)' = Box(r)
      BY <2>1 DEF Box
    <2>3. state'[Box(r)].gen = gen[Box(r)]
      BY <1>1, <1>2, <1>3 DEF IsInitial
    <2> QED BY <1>1, <2>1, <2>2, <2>3 DEF Works, OnBox, Covers, AtHand, Busy, server
  <1> QED BY <1>4, <1>5, <1>6, <1>9, <1>10 DEF Cursors

(* What a search finds leaves nothing untried below it: the window passes over*)
(* what is older, and "n:*" starts at the cursor, or is the highest UID.      *)
LEMMA SearchCovers ==
  ASSUME CursorInv, NEW r \in Runners, Search(r), Found(r) # {}, NEW b \in BoxSet, b = Box(r)
  PROVE  \A u \in Present(b) : u \in Found(r) \/ Tried(b, u)' \/ \A v \in Found(r) : v < u
PROOF
  <1> DEFINE P == Present(b)
  <1>1. /\ Typed /\ pc[r] = "search" /\ Syncing(r) /\ b \in BoxSet /\ state[b] \in States
        /\ state[b].gen = gen[b] /\ UNCHANGED <<server, rows, state>>
    BY OpenedStates DEF Search, CursorInv, Cursors, Works, OnBox
  <1>2. P \in SUBSET Uids /\ Found(r) \in SUBSET P /\ P \in SUBSET Int
    BY <1>1, FoundFacts DEF Uids
  <1>3. Least(Found(r)) \in Found(r) /\ \A v \in Found(r) : Least(Found(r)) <= v
    BY <1>2, LeastIs
  <1>4. CASE task[r].initial
    <2>1. skipped'[b] = skipped[b] \cup {u \in Uids : u < Least(Found(r))}
      BY <1>1, <1>4 DEF Search, Typed, TypeOK
    <2>2. ASSUME NEW u \in P, u \notin Found(r) PROVE \A v \in Found(r) : u < v
      <3>1. ASSUME NEW v \in Found(r), v <= u PROVE FALSE
        <4>1. Found(r) = LastOf(P)
          BY <1>4 DEF Found
        <4>2. v \in P /\ Cardinality({w \in P : w > v}) < Window
          BY <4>1, <3>1 DEF LastOf
        <4>3. {w \in P : w > u} \in SUBSET {w \in P : w > v} /\ {w \in P : w > v} \in SUBSET Uids
          BY <1>2, <3>1, <4>2
        <4>4. Cardinality({w \in P : w > u}) <= Cardinality({w \in P : w > v})
          BY <4>3, SizeFacts
        <4>5. Cardinality({w \in P : w > u}) \in Nat /\ Cardinality({w \in P : w > v}) \in Nat
          BY <4>3, SizeFacts
        <4>6. Cardinality({w \in P : w > u}) < Window
          BY <4>2, <4>4, <4>5, MailAssumption
        <4> QED BY <2>2, <4>1, <4>6 DEF LastOf
      <3>2. u \in Int /\ Found(r) \subseteq Int
        BY <1>2
      <3> HIDE DEF P
      <3> QED BY <3>1, <3>2
    <2>3. ASSUME NEW u \in P, u \notin Found(r) PROVE Tried(b, u)'
      <3>1. u < Least(Found(r)) /\ u \in Uids
        BY <1>2, <1>3, <2>2, <2>3
      <3>2. u \in skipped'[b]
        BY <2>1, <3>1
      <3> QED BY <3>2 DEF Tried
    <2> QED BY <2>3
  <1>5. CASE ~ task[r].initial
    <2>1. Found(r) = NewUids(b)
      BY <1>5 DEF Found
    <2>2. ~ IsInitial(b)
      BY <1>1, NoneAssumption DEF IsInitial
    <2>3. skipped' = skipped
      BY <1>5 DEF Search
    <2>4. \A u \in P : u \in Found(r) \/ ~ (u > state[b].uid)
      BY <2>1 DEF NewUids
    <2>5. \A u \in P : u \in Found(r) \/ Tried(b, u)
      BY <1>1, <2>2, <2>4 DEF CursorInv, Cursors, Honest
    <2>6. \A u : Tried(b, u)' = Tried(b, u)
      <3>1. held' = held
        BY <1>1 DEF server
      <3> QED BY <1>1, <2>3, <3>1 DEF Tried
    <2> QED BY <2>5, <2>6
  <1> QED BY <1>4, <1>5

LEMMA SearchCursor ==
  ASSUME CursorInv, NEW r \in Runners, Search(r)
  PROVE  Cursors'
PROOF
  <1>1. CASE Found(r) = {}
    BY <1>1, LeavesCursor DEF Search
  <1>2. CASE Found(r) # {}
    <2>1. /\ Typed /\ pc[r] = "search" /\ Syncing(r) /\ Box(r) \in BoxSet /\ task[r] \in Tasks
          /\ UNCHANGED <<server, rows, state>>
      BY WorkFacts DEF Search, CursorInv, Syncing
    <2>2. \A b \in BoxSet : skipped[b] \subseteq skipped'[b]
      BY <2>1 DEF Search, Typed, TypeOK
    <2>3. KeysTrue' /\ Numbered' /\ Honest'
      BY <2>1, <2>2, KeysStay, CursorsStay
    <2>4. /\ task'[r] = [task[r] EXCEPT !.uids = Found(r)] /\ pc'[r] = "fetch"
          /\ \A q \in Runners : q # r => task'[q] = task[q] /\ pc'[q] = pc[q]
      BY <1>2, <2>1 DEF Search, Typed, TypeOK
    <2>5. ASSUME NEW q \in Runners, q # r PROVE Works(q)'
      BY <2>1, <2>2, <2>4, <2>5, OthersWork
    <2>6. task'[r].uids = Found(r) /\ task'[r].left = task[r].left
      BY <2>1, <2>4 DEF Tasks
    <2>7. Box(r)' = Box(r)
      BY <2>6 DEF Box
    <2>8. Present(Box(r))' = Present(Box(r))
      BY <2>1, <2>7 DEF Present, server
    <2>9. \A v \in Found(r) : v < next[Box(r)]
      BY <2>1, FoundFacts DEF CursorInv, Cursors, Numbered
    <2>10. Covers(r)'
      <3>1. PICK b \in BoxSet : b = Box(r) /\ b = Box(r)'
        BY <2>1, <2>7
      <3>2. \A u \in Present(b) : u \in Found(r) \/ Tried(b, u)' \/ \A v \in Found(r) : v < u
        BY <1>2, <3>1, SearchCovers
      <3>3. Present(b)' = Present(b) /\ next'[b] = next[b]
        BY <2>1 DEF Present, server
      <3>4. \A u : Tried(b, u)' => Tried(Box(r), u)'
        BY <3>1 DEF Tried
      <3>5. \A u \in Present(Box(r))' : u \in task'[r].uids \/ Tried(Box(r), u)' \/ \A v \in task'[r].uids : v < u
        BY <2>6, <3>1, <3>2, <3>3, <3>4, <2>8
      <3>6. \A v \in task'[r].uids : v < next'[Box(r)']
        BY <2>6, <2>9, <3>1, <3>3
      <3> QED BY <3>5, <3>6 DEF Covers
    <2>11. OnBox(r)'
      BY <2>1, <2>7 DEF OnBox, server, CursorInv, Cursors, Works
    <2>12. AtHand(r)'
      BY <2>4 DEF AtHand
    <2> QED BY <2>3, <2>5, <2>10, <2>11, <2>12 DEF Cursors, Works
  <1> QED BY <1>1, <1>2

(* Steps on the message at hand.                                              *)
LEMMA StepAtHand ==
  ASSUME CursorInv, NEW r \in Runners, pc[r] \in Busy, pc'[r] \in Busy,
         UNCHANGED <<server, state>>, rows \subseteq rows',
         \A b \in BoxSet : skipped[b] \subseteq skipped'[b],
         task'[r].left = task[r].left, task'[r].uids = task[r].uids,
         \A q \in Runners : q # r => task'[q] = task[q] /\ pc'[q] = pc[q]
  PROVE  /\ Box(r)' = Box(r) /\ Uid(r)' = Uid(r)
         /\ KeysTrue' /\ AtHand(r)' => Cursors'
PROOF
  <1>1. Box(r)' = Box(r) /\ Uid(r)' = Uid(r)
    BY DEF Box, Uid
  <1>2. PICK b \in BoxSet : b = Box(r) /\ b = Box(r)' /\ Works(r)
    BY <1>1, OpenedStates DEF CursorInv, Cursors
  <1>3. Present(b)' = Present(b) /\ next'[b] = next[b] /\ gen'[b] = gen[b] /\ held'[b] = held[b]
    BY DEF Present, server
  <1>4. \A u : Tried(b, u) => Tried(b, u)'
    BY <1>3 DEF Tried
  <1>5. OnBox(r)'
    BY <1>2, <1>3 DEF Works, OnBox
  <1>6. Covers(r)'
    <2>1. \A u : Tried(b, u)' => Tried(Box(r), u)'
      BY <1>2 DEF Tried
    <2>2. Present(Box(r))' = Present(b)
      BY <1>2, <1>3 DEF Present
    <2>3. /\ \A v \in task[r].uids : v < next[b]
          /\ \A u \in Present(b) : u \in task[r].uids \/ Tried(b, u) \/ \A v \in task[r].uids : v < u
      BY <1>2 DEF Works, Covers
    <2> QED BY <1>2, <1>3, <1>4, <2>1, <2>2, <2>3 DEF Covers
  <1>7. ASSUME NEW q \in Runners, q # r PROVE Works(q)'
    BY <1>7, OthersWork
  <1> QED BY <1>1, <1>5, <1>6, <1>7, CursorsStay DEF Cursors, Works

LEMMA FetchCursor ==
  ASSUME CursorInv, NEW r \in Runners, Fetch(r)
  PROVE  Cursors'
PROOF
  <1>1. /\ Typed /\ pc[r] = "fetch" /\ task[r] \in Tasks /\ UNCHANGED <<server, rows, state, skipped>>
    BY WorkFacts DEF Fetch, CursorInv, Syncing
  <1>2. /\ task'[r] = [task[r] EXCEPT !.mail = held[Box(r)][Uid(r)]] /\ pc'[r] = "look"
        /\ \A q \in Runners : q # r => task'[q] = task[q] /\ pc'[q] = pc[q]
    BY <1>1 DEF Fetch, Typed, TypeOK
  <1>3. task'[r].left = task[r].left /\ task'[r].uids = task[r].uids /\ task'[r].mail = held[Box(r)][Uid(r)]
    BY <1>1, <1>2 DEF Tasks
  <1>4. Box(r)' = Box(r) /\ Uid(r)' = Uid(r) /\ (KeysTrue' /\ AtHand(r)' => Cursors')
    BY <1>1, <1>2, <1>3, StepAtHand DEF Busy
  <1>5. AtHand(r)'
    BY <1>1, <1>2, <1>3, <1>4 DEF AtHand, server
  <1> QED BY <1>1, <1>4, <1>5, KeysStay

LEMMA UnfetchedCursor ==
  ASSUME CursorInv, NEW r \in Runners, Unfetched(r)
  PROVE  Cursors'
PROOF
  <1>1. /\ Typed /\ pc[r] \in Busy /\ UNCHANGED <<server, rows, state, task>> /\ Box(r) \in BoxSet
    BY WorkFacts DEF Unfetched, CursorInv, Syncing, Busy
  <1>2. /\ pc'[r] = "advance" /\ \A q \in Runners : q # r => pc'[q] = pc[q]
        /\ \A b \in BoxSet : skipped[b] \subseteq skipped'[b]
        /\ Uid(r) \in skipped'[Box(r)]
    BY <1>1 DEF Unfetched, Typed, TypeOK
  <1>3. Box(r)' = Box(r) /\ Uid(r)' = Uid(r) /\ (KeysTrue' /\ AtHand(r)' => Cursors')
    BY <1>1, <1>2, StepAtHand DEF Busy
  <1>4. AtHand(r)'
    BY <1>2, <1>3 DEF AtHand, Tried
  <1> QED BY <1>1, <1>3, <1>4, KeysStay

(* A message is recognized only by a row of its own.                          *)
LEMMA RecognizedIsFiled ==
  ASSUME CursorInv, NEW r \in Runners, pc[r] \in {"look", "insert"}, Stored(r), Uid(r) \in Present(Box(r))
  PROVE  \E x \in rows : x.mail = held[Box(r)][Uid(r)]
PROOF
  <1>1. /\ Typed /\ Box(r) \in BoxSet /\ Uid(r) \in Uids /\ task[r].mail \in Mails /\ gen[Box(r)] \in 1..MaxGen
    BY WorkFacts DEF CursorInv, Typed, TypeOK, Shape, Syncing, Busy
  <1>2. held[Box(r)][Uid(r)] = task[r].mail
    BY DEF CursorInv, Cursors, Works, AtHand
  <1>3. CASE ByKey(r)
    <2>1. PICK x \in rows : x.key = ImapKey(Box(r), gen[Box(r)], Uid(r))
      BY <1>3 DEF ByKey
    <2>2. x.mail = held[Box(r)][Uid(r)]
      BY <1>1, <2>1 DEF CursorInv, Cursors, KeysTrue
    <2> QED BY <2>2
  <1>4. CASE ByMessageId(r)
    BY <1>2, <1>4 DEF ByMessageId
  <1>5. CASE ByToken(r)
    <2>1. PICK x \in rows : x.key = SmtpKey(task[r].mail)
      BY <1>5 DEF ByToken
    <2>2. x.mail = task[r].mail
      BY <1>1, <2>1 DEF CursorInv, Cursors, KeysTrue
    <2> QED BY <1>2, <2>2
  <1> QED BY <1>3, <1>4, <1>5 DEF Stored

LEMMA LookCursor ==
  ASSUME CursorInv, NEW r \in Runners, Look(r)
  PROVE  Cursors'
PROOF
  <1>1. /\ Typed /\ pc[r] = "look" /\ UNCHANGED <<server, rows, state, skipped, task>> /\ Box(r) \in BoxSet
    BY WorkFacts DEF Look, CursorInv, Syncing
  <1>2. /\ pc'[r] = IF Stored(r) THEN "advance" ELSE "insert"
        /\ \A q \in Runners : q # r => pc'[q] = pc[q]
    BY <1>1 DEF Look, Typed, TypeOK
  <1>3. Box(r)' = Box(r) /\ Uid(r)' = Uid(r) /\ (KeysTrue' /\ AtHand(r)' => Cursors')
    BY <1>1, <1>2, StepAtHand DEF Busy
  <1>4. Present(Box(r))' = Present(Box(r)) /\ held' = held
    BY <1>1, <1>3 DEF Present, server
  <1>5. CASE Stored(r)
    <2>1. Uid(r) \in Present(Box(r)) => Tried(Box(r), Uid(r))
      BY <1>1, <1>5, RecognizedIsFiled DEF Tried
    <2>2. Tried(Box(r), Uid(r)) => Tried(Box(r), Uid(r))'
      BY <1>1, <1>3, <1>4 DEF Tried
    <2>3. AtHand(r)'
      BY <1>2, <1>3, <1>4, <1>5, <2>1, <2>2 DEF AtHand
    <2> QED BY <1>1, <1>3, <2>3, KeysStay
  <1>6. CASE ~ Stored(r)
    <2>1. AtHand(r)
      BY DEF CursorInv, Cursors, Works
    <2>2. AtHand(r)'
      BY <1>1, <1>2, <1>3, <1>4, <1>6, <2>1 DEF AtHand
    <2> QED BY <1>1, <1>3, <2>2, KeysStay
  <1> QED BY <1>5, <1>6

LEMMA InsertCursor ==
  ASSUME CursorInv, NEW r \in Runners, Insert(r)
  PROVE  Cursors'
PROOF
  <1>1. /\ Typed /\ pc[r] = "insert" /\ UNCHANGED <<server, state, skipped, task>>
        /\ Box(r) \in BoxSet /\ Uid(r) \in Uids /\ Uid(r) \in task[r].uids
        /\ task[r].mail \in Mails /\ gen[Box(r)] \in 1..MaxGen
    BY WorkFacts DEF Insert, CursorInv, Typed, TypeOK, Shape, Syncing, Busy
  <1>2. pc'[r] = "advance" /\ \A q \in Runners : q # r => pc'[q] = pc[q]
    BY <1>1 DEF Insert, Typed, TypeOK
  <1>3. rows \subseteq rows'
    BY DEF Insert
  <1>4. Box(r)' = Box(r) /\ Uid(r)' = Uid(r) /\ (KeysTrue' /\ AtHand(r)' => Cursors')
    BY <1>1, <1>2, <1>3, StepAtHand DEF Busy
  <1>5. Present(Box(r))' = Present(Box(r)) /\ held' = held
    BY <1>1, <1>4 DEF Present, server
  <1>6. CASE ByKey(r)
    <2>1. rows' = rows
      BY <1>6 DEF Insert
    <2>2. Uid(r) \in Present(Box(r)) => \E x \in rows : x.mail = held[Box(r)][Uid(r)]
      BY <1>1, <1>6, RecognizedIsFiled DEF Stored
    <2>3. AtHand(r)'
      BY <1>2, <1>4, <1>5, <2>1, <2>2 DEF AtHand, Tried
    <2> QED BY <1>1, <1>4, <2>1, <2>3, KeysStay
  <1>7. CASE ~ ByKey(r)
    <2> DEFINE k == ImapKey(Box(r), gen[Box(r)], Uid(r))
               x == [mail |-> task[r].mail, key |-> k]
    <2>1. rows' = rows \cup {x} /\ x.mail = task[r].mail /\ x.key = k
      BY <1>7 DEF Insert
    <2>2. Uid(r) \in Present(Box(r)) => held[Box(r)][Uid(r)] = task[r].mail
      BY <1>1 DEF CursorInv, Cursors, Works, AtHand
    <2>3. Uid(r) < next[Box(r)]
      BY <1>1 DEF CursorInv, Cursors, Works, Covers, Busy
    <2>4. \A m \in Mails : k # SmtpKey(m)
      BY <1>1, KeysApart
    <2>5. \A b \in BoxSet, g \in 1..MaxGen, u \in Uids : k = ImapKey(b, g, u) => b = Box(r) /\ g = gen[b] /\ u = Uid(r)
      BY DEF ImapKey
    <2> HIDE DEF x, k
    <2>6. /\ \A m \in Mails : x.key = SmtpKey(m) => x.mail = m
          /\ \A b \in BoxSet, g \in 1..MaxGen, u \in Uids : x.key = ImapKey(b, g, u) =>
               g <= gen[b] /\ (g = gen[b] => u < next[b] /\ (u \in Present(b) => x.mail = held[b][u]))
      BY <1>1, <2>1, <2>2, <2>3, <2>4, <2>5
    <2>7. KeysTrue'
      BY <1>1, <2>1, <2>6 DEF CursorInv, Cursors, KeysTrue, Present, server
    <2>8. AtHand(r)'
      BY <1>2, <1>4, <1>5, <2>1, <2>2 DEF AtHand, Tried
    <2> QED BY <1>4, <2>7, <2>8
  <1> QED BY <1>6, <1>7

LEMMA AdvanceCursor ==
  ASSUME CursorInv, NEW r \in Runners, Advance(r)
  PROVE  Cursors'
PROOF
  <1>1. /\ Typed /\ pc[r] = "advance" /\ UNCHANGED <<server, rows, skipped>> /\ task[r] \in Tasks
        /\ Uid(r) \in Uids /\ Uid(r) \in task[r].uids /\ \A v \in task[r].uids : Uid(r) <= v
    BY WorkFacts DEF Advance, CursorInv, Syncing, Busy
  <1>2. PICK b \in BoxSet : b = Box(r) /\ state[b] \in States /\ Works(r)
    BY <1>1, OpenedStates DEF CursorInv, Cursors, Busy
  <1>3. /\ state'[b] = [state[b] EXCEPT !.uid = Uid(r)]
        /\ \A c \in BoxSet : c # b => state'[c] = state[c]
    BY <1>1, <1>2 DEF Advance, CursorAfter, Typed, TypeOK
  <1>4. state'[b].gen = gen[b] /\ state'[b].uid = Uid(r)
    BY <1>1, <1>2, <1>3 DEF Works, OnBox, Busy, States
  <1>5. /\ \A v \in task[r].uids : v < next[b]
        /\ \A u \in Present(b) : u \in task[r].uids \/ Tried(b, u) \/ \A v \in task[r].uids : v < u
        /\ Uid(r) \in Present(b) => Tried(b, Uid(r))
    BY <1>1, <1>2 DEF Works, Covers, AtHand, Busy
  <1>6. \A c \in BoxSet : /\ Present(c)' = Present(c) /\ gen'[c] = gen[c] /\ next'[c] = next[c] /\ held'[c] = held[c]
                          /\ \A u : Tried(c, u)' = Tried(c, u)
    BY <1>1 DEF Present, Tried, server
  <1>7. KeysTrue'
    BY <1>1, KeysStay
  <1>8. Numbered'
    <2>1. \A c \in BoxSet : gen[c] \in Int /\ (state[c] # None => state[c].gen <= gen[c])
      BY <1>1 DEF CursorInv, Cursors, Numbered, Typed, TypeOK
    <2>2. ASSUME NEW c \in BoxSet, state'[c] # None PROVE state'[c].gen <= gen[c]
      <3>1. c = b => state'[c].gen = gen[c]
        BY <1>4
      <3>2. c # b => state'[c] = state[c]
        BY <1>3
      <3> QED BY <2>1, <2>2, <3>1, <3>2
    <2>3. \A c \in BoxSet : \A u \in Present(c) : u < next[c]
      BY DEF CursorInv, Cursors, Numbered
    <2>4. ASSUME NEW c \in BoxSet, ~ IsInitial(c)' PROVE state'[c].uid < next[c]
      <3>1. CASE c = b
        BY <1>1, <1>4, <1>5, <3>1
      <3>2. CASE c # b
        BY <1>3, <1>6, <2>4, <3>2 DEF IsInitial, CursorInv, Cursors, Numbered
      <3> QED BY <3>1, <3>2
    <2> QED BY <1>6, <2>2, <2>3, <2>4 DEF Numbered
  <1>9. Honest'
    <2>1. ASSUME NEW u \in Present(b) PROVE u > Uid(r) \/ Tried(b, u)
      <3>1. u \in Nat /\ Uid(r) \in Nat /\ task[r].uids \in SUBSET Nat
        BY <1>1, <2>1 DEF Present, Uids, Tasks
      <3>2. CASE u < Uid(r)
        BY <1>1, <1>5, <3>1, <3>2
      <3>3. CASE u = Uid(r)
        BY <1>5, <3>3
      <3> QED BY <3>1, <3>2, <3>3
    <2>2. \A u \in Present(b)' : u > state'[b].uid \/ Tried(b, u)'
      BY <1>4, <1>6, <2>1
    <2>3. ASSUME NEW c \in BoxSet, c # b, ~ IsInitial(c)' PROVE \A u \in Present(c)' : u > state'[c].uid \/ Tried(c, u)'
      <3>1. ~ IsInitial(c) /\ state'[c] = state[c]
        BY <1>3, <1>6, <2>3 DEF IsInitial
      <3> QED BY <1>6, <3>1 DEF CursorInv, Cursors, Honest
    <2> QED BY <2>2, <2>3 DEF Honest
  <1>10. \A q \in Runners : q # r => task'[q] = task[q] /\ pc'[q] = pc[q]
    <2>1. CASE task[r].uids = {Uid(r)}
      BY <2>1, LeavesBehind DEF Advance
    <2>2. CASE task[r].uids # {Uid(r)}
      BY <1>1, <2>2 DEF Advance, Typed, TypeOK
    <2> QED BY <2>1, <2>2
  <1>11. ASSUME NEW q \in Runners, q # r PROVE Works(q)'
    <2>1. \A c \in BoxSet : state[c] # None => state'[c] = state[c] \/ state'[c].gen = gen[c]
      BY <1>3, <1>4
    <2> QED BY <1>1, <1>10, <1>11, <2>1, OthersWork
  <1>12. Works(r)'
    <2>1. CASE task[r].uids = {Uid(r)}
      BY <2>1, LeavesBehind, IdleWorks DEF Advance
    <2>2. CASE task[r].uids # {Uid(r)}
      <3>1. task'[r] = [task[r] EXCEPT !.uids = @ \ {Uid(r)}, !.mail = None] /\ pc'[r] = "fetch"
        BY <1>1, <2>2 DEF Advance, Typed, TypeOK
      <3>2. task'[r].left = task[r].left /\ task'[r].uids = task[r].uids \ {Uid(r)}
        BY <1>1, <3>1 DEF Tasks
      <3>3. b = Box(r)'
        BY <1>2, <3>2 DEF Box
      <3>4. OnBox(r)'
        BY <1>4, <1>6, <3>3 DEF OnBox
      <3>5. Covers(r)'
        <4>1. \A u : Tried(b, u)' => Tried(Box(r), u)'
          BY <3>3 DEF Tried
        <4>2. Present(Box(r))' = Present(b)
          BY <1>6, <3>3 DEF Present
        <4>3. \A u \in Present(b) : u \in task'[r].uids \/ Tried(b, u) \/ \A v \in task'[r].uids : v < u
          BY <1>5, <3>2
        <4> QED BY <1>5, <1>6, <3>2, <3>3, <4>1, <4>2, <4>3 DEF Covers
      <3>6. AtHand(r)'
        BY <3>1 DEF AtHand
      <3> QED BY <3>4, <3>5, <3>6 DEF Works
    <2> QED BY <2>1, <2>2
  <1> QED BY <1>7, <1>8, <1>9, <1>11, <1>12 DEF Cursors

LEMMA StoreSentCursor ==
  ASSUME CursorInv, NEW r \in Runners, StoreSent(r)
  PROVE  Cursors'
PROOF
  <1> DEFINE k == SmtpKey(task[r].mail)
             x == [mail |-> task[r].mail, key |-> k]
  <1>1. /\ Typed /\ Finish(r) /\ UNCHANGED <<server, state, skipped>> /\ rows' = rows \cup {x}
        /\ x.mail = task[r].mail /\ x.key = k
    BY DEF StoreSent, CursorInv
  <1>2. \A m \in Mails : k = SmtpKey(m) => m = task[r].mail
    BY DEF SmtpKey
  <1>3. \A b \in BoxSet, g \in 1..MaxGen, u \in Uids : k # ImapKey(b, g, u)
    BY KeysApart
  <1> HIDE DEF x, k
  <1>4. KeysTrue'
    BY <1>1, <1>2, <1>3 DEF CursorInv, Cursors, KeysTrue, Present, server
  <1>5. Numbered' /\ Honest'
    BY <1>1, CursorsStay
  <1>6. Works(r)'
    BY <1>1, LeavesBehind, IdleWorks
  <1>7. ASSUME NEW q \in Runners, q # r PROVE Works(q)'
    BY <1>1, <1>7, LeavesBehind, OthersWork
  <1> QED BY <1>4, <1>5, <1>6, <1>7 DEF Cursors

LEMMA StartCursor ==
  ASSUME CursorInv, NEW r \in Runners, Start(r)
  PROVE  Cursors'
PROOF
  <1>1. /\ Typed /\ UNCHANGED <<server, rows, state, skipped>>
        /\ \A q \in Runners : q # r => task'[q] = task[q] /\ pc'[q] = pc[q]
        /\ pc'[r] \notin Busy \cup {"search"}
    BY DEF Start, CursorInv, Typed, TypeOK, Busy
  <1>2. ASSUME NEW q \in Runners, q # r PROVE Works(q)'
    BY <1>1, <1>2, OthersWork
  <1> QED BY <1>1, <1>2, IdleWorks, KeysStay, CursorsStay DEF Cursors

LEMMA DisconnectCursor ==
  ASSUME CursorInv, NEW r \in Runners, Disconnect(r)
  PROVE  Cursors'
PROOF
  <1>1. /\ Typed /\ UNCHANGED <<server, rows, state, skipped, pc>>
        /\ \A q \in Runners : q # r => task'[q] = task[q]
        /\ task'[r] = [task[r] EXCEPT !.broken = TRUE] /\ task[r] \in Tasks
    BY DEF Disconnect, CursorInv, Typed, TypeOK
  <1>2. /\ task'[r].left = task[r].left /\ task'[r].uids = task[r].uids /\ task'[r].mail = task[r].mail
    BY <1>1 DEF Tasks
  <1>3. Works(r)'
    <2>1. CASE pc[r] \in Busy
      <3>1. Box(r)' = Box(r) /\ Uid(r)' = Uid(r) /\ Present(Box(r))' = Present(Box(r))
        BY <1>1, <1>2 DEF Box, Uid, Present, server
      <3>2. AtHand(r)' /\ KeysTrue'
        BY <1>1, <1>2, <3>1, KeysStay DEF CursorInv, Cursors, Works, AtHand, Tried, server
      <3>3. Cursors'
        BY <1>1, <1>2, <2>1, <3>2, StepAtHand
      <3> QED BY <3>3 DEF Cursors
    <2>2. CASE pc[r] = "search"
      <3>1. Box(r)' = Box(r)
        BY <1>2 DEF Box
      <3> QED BY <1>1, <2>2, <3>1 DEF CursorInv, Cursors, Works, OnBox, Covers, AtHand, Busy, server
    <2> QED BY <1>1, <2>1, <2>2, IdleWorks
  <1>4. ASSUME NEW q \in Runners, q # r PROVE Works(q)'
    BY <1>1, <1>4, OthersWork
  <1> QED BY <1>1, <1>3, <1>4, KeysStay, CursorsStay DEF Cursors

(* What the server does to the work of an instance: a new message comes after *)
(* all that was there, and a mailbox is renumbered only when nobody has it    *)
(* open.                                                                      *)
LEMMA ServerWork ==
  ASSUME CursorInv, UNCHANGED <<rows, state>>, NEW r \in Runners, pc'[r] = pc[r], task'[r] = task[r],
         \A b \in BoxSet : b = Box(r) /\ Syncing(r) =>
           /\ gen'[b] = gen[b] /\ next[b] <= next'[b] /\ next'[b] \in Int /\ skipped'[b] = skipped[b]
           /\ \A u \in Present(b)' : (u \in Present(b) /\ held'[b][u] = held[b][u]) \/ u >= next[b]
  PROVE  Works(r)'
PROOF
  <1>1. CASE pc[r] \in Busy \cup {"search"}
    <2>1. PICK b \in BoxSet : b = Box(r) /\ b = Box(r)' /\ Syncing(r)
      BY <1>1, OpenedStates DEF CursorInv, Box
    <2>2. /\ gen'[b] = gen[b] /\ next[b] <= next'[b] /\ next'[b] \in Int /\ skipped'[b] = skipped[b]
          /\ \A u \in Present(b)' : (u \in Present(b) /\ held'[b][u] = held[b][u]) \/ u >= next[b]
      BY <2>1
    <2>3. /\ Typed /\ Works(r) /\ Uid(r)' = Uid(r) /\ Present(Box(r))' = Present(b)'
          /\ next[b] \in Int /\ Present(b)' \subseteq Int
      BY <2>1 DEF CursorInv, Cursors, Uid, Typed, TypeOK, Present, Uids
    <2>4. OnBox(r)'
      BY <2>1, <2>2, <2>3 DEF Works, OnBox
    <2>5. Covers(r)' /\ AtHand(r)'
      <3> SUFFICES ASSUME pc[r] \in Busy PROVE Covers(r)' /\ AtHand(r)'
        BY DEF Covers, AtHand, Busy
      <3>1. Uid(r) \in task[r].uids /\ task[r].uids \subseteq Int
        BY <2>1, <2>3, WorkFacts DEF Tasks, Uids
      <3>2. /\ \A v \in task[r].uids : v < next[b]
            /\ \A u \in Present(b) : u \in task[r].uids \/ Tried(b, u) \/ \A v \in task[r].uids : v < u
        BY <2>1, <2>3 DEF Works, Covers
      <3>3. \A u : Tried(b, u)' => Tried(Box(r), u)'
        BY <2>1 DEF Tried
      <3>4. \A u \in Present(b)' : held'[b][u] = held[b][u] => (Tried(b, u) => Tried(b, u)')
        BY <2>2 DEF Tried
      <3>5. ASSUME NEW u \in Present(b)'
            PROVE  u \in task[r].uids \/ Tried(Box(r), u)' \/ \A v \in task[r].uids : v < u
        <4>1. CASE u >= next[b]
          BY <2>3, <3>1, <3>2, <4>1
        <4>2. CASE u \in Present(b) /\ held'[b][u] = held[b][u]
          BY <3>2, <3>3, <3>4, <4>2
        <4> QED BY <2>2, <4>1, <4>2
      <3>6. \A v \in task[r].uids : v < next'[b]
        BY <2>2, <2>3, <3>1, <3>2
      <3>7. Covers(r)'
        BY <2>1, <2>3, <3>5, <3>6 DEF Covers
      <3>8. Uid(r) \in Present(b)' => Uid(r) \in Present(b) /\ held'[b][Uid(r)] = held[b][Uid(r)]
        BY <2>2, <2>3, <3>1, <3>2
      <3>9. AtHand(r)'
        BY <2>1, <2>3, <3>3, <3>4, <3>8 DEF Works, AtHand
      <3> QED BY <3>7, <3>9
    <2> QED BY <2>4, <2>5 DEF Works
  <1>2. CASE pc[r] \notin Busy \cup {"search"}
    BY <1>2, IdleWorks
  <1> QED BY <1>1, <1>2

LEMMA PutInCursor ==
  ASSUME CursorInv, NEW b \in BoxSet, NEW m \in Mails, PutIn(b, m), UNCHANGED <<rows, state, skipped>>
  PROVE  /\ KeysTrue' /\ Numbered' /\ Honest'
         /\ \A c \in BoxSet : /\ gen'[c] = gen[c] /\ next[c] <= next'[c] /\ next'[c] \in Int
                             /\ \A u \in Present(c)' : (u \in Present(c) /\ held'[c][u] = held[c][u]) \/ u >= next[c]
PROOF
  <1>1. /\ Typed /\ next[b] \in Uids /\ gen' = gen /\ next'[b] = next[b] + 1
        /\ held'[b] = [held[b] EXCEPT ![next[b]] = m]
        /\ \A c \in BoxSet : next[c] \in Int /\ (c # b => next'[c] = next[c] /\ held'[c] = held[c])
    BY DEF PutIn, CursorInv, Typed, TypeOK, Uids
  <1>2. \A c \in BoxSet : \A u \in Present(c)' :
          (u \in Present(c) /\ held'[c][u] = held[c][u]) \/ (c = b /\ u = next[b])
    <2>1. \A u \in Uids : u # next[b] => held'[b][u] = held[b][u]
      BY <1>1 DEF Typed, TypeOK
    <2>2. \A c \in BoxSet : \A u \in Uids : held'[c][u] = held[c][u] \/ (c = b /\ u = next[b])
      BY <1>1, <2>1
    <2> QED BY <2>2 DEF Present
  <1>3. \A c \in BoxSet : gen'[c] = gen[c] /\ next[c] <= next'[c] /\ next'[c] \in Int
    BY <1>1
  <1>4. \A c \in BoxSet : \A u \in Present(c)' : (u \in Present(c) /\ held'[c][u] = held[c][u]) \/ u >= next[c]
    BY <1>1, <1>2
  <1>5. \A c \in BoxSet : \A u \in Present(c) : u < next[c] /\ u \in Int
    BY DEF CursorInv, Cursors, Numbered, Present, Uids
  <1>6. KeysTrue'
    <2> SUFFICES ASSUME NEW x \in rows, NEW c \in BoxSet, NEW g \in 1..MaxGen, NEW u \in Uids, x.key = ImapKey(c, g, u)
                 PROVE  /\ g <= gen[c]
                        /\ g = gen[c] => u < next'[c] /\ (u \in Present(c)' => x.mail = held'[c][u])
      BY <1>1 DEF KeysTrue, CursorInv, Cursors
    <2>1. g <= gen[c] /\ (g = gen[c] => u < next[c] /\ (u \in Present(c) => x.mail = held[c][u]))
      BY DEF CursorInv, Cursors, KeysTrue
    <2>2. u \in Int
      BY DEF Uids
    <2> QED BY <1>1, <1>3, <1>4, <2>1, <2>2
  <1>7. Numbered'
    <2>1. \A c \in BoxSet : \A u \in Present(c)' : u < next'[c]
      BY <1>1, <1>2, <1>3, <1>5
    <2>2. \A c \in BoxSet : state[c] # None => state[c].gen <= gen[c]
      BY DEF CursorInv, Cursors, Numbered
    <2>3. ASSUME NEW c \in BoxSet, ~ IsInitial(c)' PROVE state[c].uid < next'[c]
      <3>1. ~ IsInitial(c) /\ state[c].uid \in Int
        BY <1>1, <2>3 DEF IsInitial, Typed, TypeOK, States
      <3> QED BY <1>1, <1>3, <3>1 DEF CursorInv, Cursors, Numbered
    <2> QED BY <1>1, <2>1, <2>2, <2>3 DEF Numbered
  <1>8. Honest'
    <2> SUFFICES ASSUME NEW c \in BoxSet, ~ IsInitial(c)', NEW u \in Present(c)'
                 PROVE  u > state[c].uid \/ Tried(c, u)'
      BY DEF Honest
    <2>1. ~ IsInitial(c)
      BY <1>1 DEF IsInitial
    <2>2. CASE u \in Present(c) /\ held'[c][u] = held[c][u]
      BY <2>1, <2>2 DEF CursorInv, Cursors, Honest, Tried
    <2>3. CASE c = b /\ u = next[b]
      <3>1. state[c].uid < next[c] /\ state[c].uid \in Int
        BY <1>1, <2>1 DEF IsInitial, CursorInv, Cursors, Numbered, Typed, TypeOK, States
      <3> QED BY <1>1, <2>3, <3>1
    <2> QED BY <1>2, <2>2, <2>3
  <1> QED BY <1>3, <1>4, <1>6, <1>7, <1>8

LEMMA ExpungeCursor ==
  ASSUME CursorInv, NEW b \in BoxSet, NEW u \in Uids, Expunge(b, u)
  PROVE  Cursors'
PROOF
  <1>1. /\ Typed /\ UNCHANGED <<gen, next, rows, state, skipped, pc, task>>
        /\ held' = [held EXCEPT ![b] = [held[b] EXCEPT ![u] = None]]
    BY DEF Expunge, CursorInv
  <1>2. \A c \in BoxSet : \A v \in Present(c)' : v \in Present(c) /\ held'[c][v] = held[c][v]
    BY <1>1 DEF Present, Typed, TypeOK
  <1>3. KeysTrue'
    BY <1>1, <1>2 DEF CursorInv, Cursors, KeysTrue
  <1>4. Numbered'
    BY <1>1, <1>2 DEF CursorInv, Cursors, Numbered, IsInitial
  <1>5. Honest'
    BY <1>1, <1>2 DEF CursorInv, Cursors, Honest, IsInitial, Tried
  <1>6. \A c \in BoxSet : next[c] \in Int /\ next[c] <= next[c]
    BY <1>1 DEF Typed, TypeOK
  <1>7. \A r \in Runners : Works(r)'
    BY <1>1, <1>2, <1>6, ServerWork
  <1> QED BY <1>3, <1>4, <1>5, <1>7 DEF Cursors

LEMMA RebuildCursor ==
  ASSUME CursorInv, NEW b \in BoxSet, Rebuild(b)
  PROVE  Cursors'
PROOF
  <1>1. /\ Typed /\ UNCHANGED <<rows, state, pc, task>>
        /\ \A c \in BoxSet : c # b => /\ held'[c] = held[c] /\ next'[c] = next[c] /\ gen'[c] = gen[c]
                                     /\ skipped'[c] = skipped[c] /\ Present(c)' = Present(c)
        /\ \A u \in Present(b)' : u < next'[b]
        /\ gen'[b] = gen[b] + 1
    BY RebuildKeeps DEF Rebuild, CursorInv, Typed, TypeOK, Present
  <1>2. \A c \in BoxSet : gen[c] \in Int /\ (state[c] # None => state[c].gen \in Int)
    BY <1>1 DEF Typed, TypeOK, States
  <1>3. IsInitial(b)'
    BY <1>1, <1>2 DEF CursorInv, Cursors, Numbered, IsInitial
  <1>4. KeysTrue'
    <2> SUFFICES ASSUME NEW x \in rows, NEW c \in BoxSet, NEW g \in 1..MaxGen, NEW u \in Uids, x.key = ImapKey(c, g, u)
                 PROVE  /\ g <= gen'[c]
                        /\ g = gen'[c] => u < next'[c] /\ (u \in Present(c)' => x.mail = held'[c][u])
      BY <1>1 DEF KeysTrue, CursorInv, Cursors
    <2>1. g <= gen[c] /\ (g = gen[c] => u < next[c] /\ (u \in Present(c) => x.mail = held[c][u]))
      BY DEF CursorInv, Cursors, KeysTrue
    <2> QED BY <1>1, <1>2, <2>1
  <1>5. Numbered'
    <2>1. ASSUME NEW c \in BoxSet
          PROVE  /\ \A u \in Present(c)' : u < next'[c]
                 /\ state[c] # None => state[c].gen <= gen'[c]
                 /\ ~ IsInitial(c)' => state[c].uid < next'[c]
      <3>1. CASE c = b
        BY <1>1, <1>2, <1>3, <3>1 DEF CursorInv, Cursors, Numbered
      <3>2. CASE c # b
        BY <1>1, <3>2 DEF CursorInv, Cursors, Numbered, IsInitial
      <3> QED BY <3>1, <3>2
    <2> QED BY <1>1, <2>1 DEF Numbered
  <1>6. Honest'
    <2> SUFFICES ASSUME NEW c \in BoxSet, ~ IsInitial(c)', NEW u \in Present(c)'
                 PROVE  u > state[c].uid \/ Tried(c, u)'
      BY <1>1 DEF Honest
    <2>1. c # b
      BY <1>3
    <2>2. ~ IsInitial(c) /\ u \in Present(c) /\ (Tried(c, u) => Tried(c, u)')
      BY <1>1, <2>1 DEF IsInitial, Tried
    <2> QED BY <2>2 DEF CursorInv, Cursors, Honest
  <1>7. ASSUME NEW r \in Runners PROVE Works(r)'
    <2>1. Syncing(r) => Box(r) # b
      BY DEF Rebuild, CursorInv, Typed, Shape, Box
    <2>2. \A c \in BoxSet : next[c] \in Int
      BY <1>1 DEF Typed, TypeOK
    <2> QED BY <1>1, <2>1, <2>2, ServerWork
  <1> QED BY <1>4, <1>5, <1>6, <1>7 DEF Cursors

LEMMA SubmitCursor ==
  ASSUME CursorInv, NEW r \in Runners, NEW m \in Mails, Submit(r, m)
  PROVE  Cursors'
PROOF
  <1>1. Boxes[Len(Boxes)] \in BoxSet
    BY MailAssumption DEF BoxSet
  <1>2. /\ Typed /\ PutIn(Boxes[Len(Boxes)], m) /\ UNCHANGED <<rows, state, skipped>>
        /\ \A q \in Runners : q # r => task'[q] = task[q] /\ pc'[q] = pc[q]
        /\ pc'[r] = "store"
    BY DEF Submit, CursorInv, Typed, TypeOK
  <1>3. Works(r)'
    BY <1>2, IdleWorks DEF Busy
  <1>4. ASSUME NEW q \in Runners, q # r PROVE Works(q)'
    BY <1>1, <1>2, <1>4, PutInCursor, ServerWork
  <1> QED BY <1>1, <1>2, <1>3, <1>4, PutInCursor DEF Cursors

LEMMA NextCursor == CursorInv /\ [Next]_vars => CursorInv'
PROOF
  <1> SUFFICES ASSUME CursorInv, [Next]_vars PROVE Cursors'
    BY NextTyped DEF CursorInv
  <1>1. ASSUME NEW b \in BoxSet, NEW m \in Mails, Deliver(b, m) PROVE Cursors'
    <2>1. PutIn(b, m) /\ UNCHANGED <<rows, state, skipped, pc, task>>
      BY <1>1 DEF Deliver
    <2>2. \A r \in Runners : Works(r)'
      BY <2>1, PutInCursor, ServerWork
    <2> QED BY <2>1, <2>2, PutInCursor DEF Cursors
  <1>2. CASE \E b \in BoxSet, u \in Uids : Expunge(b, u)
    BY <1>2, ExpungeCursor
  <1>3. CASE \E b \in BoxSet : Rebuild(b)
    BY <1>3, RebuildCursor
  <1>4. ASSUME NEW r \in Runners, Step(r) PROVE Cursors'
    <2>1. CASE Unavailable(r)
      BY <2>1, LeavesCursor DEF Unavailable
    <2> QED BY <1>4, <2>1, OpenCursor, SearchCursor, FetchCursor, UnfetchedCursor, LookCursor,
               InsertCursor, AdvanceCursor, StoreSentCursor DEF Step
  <1>5. ASSUME NEW r \in Runners, Start(r) \/ Disconnect(r) \/ Crash(r) PROVE Cursors'
    <2>1. CASE Crash(r)
      BY <2>1, LeavesCursor DEF Crash
    <2> QED BY <1>5, <2>1, StartCursor, DisconnectCursor
  <1>6. CASE \E r \in Runners, m \in Mails : Submit(r, m)
    BY <1>6, SubmitCursor
  <1>7. CASE UNCHANGED vars
    <2>1. UNCHANGED <<server, rows, state, skipped, pc, task>>
      BY <1>7 DEF vars, server
    <2>2. KeysTrue' /\ Numbered' /\ Honest'
      BY <2>1, KeysStay, CursorsStay
    <2>3. \A r \in Runners : Works(r)'
      BY <2>1, OthersWork
    <2> QED BY <2>2, <2>3 DEF Cursors
  <1> QED BY <1>1, <1>2, <1>3, <1>4, <1>5, <1>6, <1>7 DEF Next

(* The cursor of a mailbox never passes over a message without trying it,     *)
(* whatever is delivered, sent or expunged meanwhile, however a mailbox is    *)
(* renumbered, wherever an instance crashes or loses its connection, and      *)
(* though "n:*" makes the cursor fall back: what is present at or below a     *)
(* cursor has its row, failed itself, or was too old for the first window.    *)
THEOREM CursorPassesNothing == Spec => []CursorIsHonest
PROOF
  <1>1. Init => CursorInv
    <2>1. Init => Cursors
      BY DEF Init, Cursors, KeysTrue, Numbered, Honest, Works, OnBox, Covers, AtHand, Busy, IsInitial, Present
    <2> QED BY <2>1, InitiallyTyped DEF CursorInv
  <1>2. CursorInv => CursorIsHonest
    <2> SUFFICES ASSUME CursorInv PROVE CursorIsHonest
      OBVIOUS
    <2>1. DOMAIN state = BoxSet /\ \A b \in BoxSet : DOMAIN held[b] = Uids
      BY DEF CursorInv, Typed, TypeOK
    <2> QED BY <2>1 DEF CursorInv, Cursors, Honest, Tried, Present, CursorIsHonest
  <1> QED BY <1>1, <1>2, NextCursor, PTL DEF Spec
=============================================================================
