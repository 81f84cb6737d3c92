---------------------------- MODULE MailDeskProofs ----------------------------
(* Why the outbox tells the truth, the views agree, and attachments are kept, *)
(* whatever the desks' requests, mails, users and folders are.                *)
EXTENDS MailDesk, FiniteSetTheorems, WellFoundedInduction, TLAPS

-----------------------------------------------------------------------------
(* The outbox, in either setting s.  What a request under way has read, and   *)
(* what it has handed to SMTP: one that read no row will make a row, which    *)
(* nobody else can.                                                           *)
Done == {r \in Clients : sends[r].job = "done"}
Working(r) == sends[r].job \in {"save", "send", "store", "open"}

OnItsRow(r) ==
  /\ Working(r) => sends[r].row \in Letters
  /\ sends[r].job = "store" =>
       mailed[r] = [row |-> sends[r].row, token |-> IF sends[r].tracking THEN r ELSE None]
  /\ sends[r].job \in {"idle", "save", "send", "open"} => mailed[r] = None
  /\ Working(r) /\ sends[r].read = None =>
       /\ sends[r].job # "open" /\ box[sends[r].row] = None
       /\ \A s \in Clients \ {r} : sends[s].row # sends[r].row
  /\ Working(r) /\ sends[r].read # None => box[sends[r].row] # None
  /\ sends[r].job = "open" =>
       box[sends[r].row].tracked /\ sends[r].read.opens <= opens[sends[r].row]

OnTheirRows == \A r \in Clients : OnItsRow(r)

(* An audit row is written by a request that ends with it.                    *)
Audited == \A m \in Letters : opens[m] <= Cardinality(Done) /\ (box[m] = None => opens[m] = 0)

BoxTyped(s) == Outbox(s)!TypeOK
BoxInv(s) ==
  /\ BoxTyped(s) /\ OnTheirRows /\ Audited
  /\ Outbox(s)!TokensAreMailed /\ Outbox(s)!OpensAreAudited

BoxAssumption(s) == Outbox(s)!OutboxAssumption

(* The component's cardinality is the one the library's theorems speak of.    *)
LEMMA FiniteClients ==
  ASSUME NEW s, BoxAssumption(s)
  PROVE  /\ IsFiniteSet(Clients) /\ Cardinality(Clients) \in Nat
         /\ Outbox(s)!Cardinality(Clients) = Cardinality(Clients)
         /\ Outbox(s)!Cardinality(Clients) \in Nat
PROOF
  <1>0. \A S : Outbox(s)!Cardinality(S) = Cardinality(S) /\ Outbox(s)!IsFiniteSet(S) = IsFiniteSet(S)
    BY DEF Outbox!Cardinality, Cardinality, Outbox!IsFiniteSet, IsFiniteSet
  <1>1. IsFiniteSet(Clients)
    BY <1>0 DEF BoxAssumption, Outbox!OutboxAssumption
  <1>2. Outbox(s)!Cardinality(Clients) = Cardinality(Clients)
    BY <1>0
  <1>3. Cardinality(Clients) \in Nat
    BY <1>1, FS_CardinalityType
  <1>4. Outbox(s)!Cardinality(Clients) \in Nat
    BY <1>2, <1>3, Zenon
  <1> QED BY <1>1, <1>2, <1>3, <1>4

LEMMA BoxInit ==
  ASSUME NEW s, BoxAssumption(s), Outbox(s)!Init
  PROVE  BoxInv(s)
PROOF
  <1>0. Cardinality(Done) \in Nat
    <2>1. Done \in SUBSET Clients
      BY DEF Done
    <2>2. IsFiniteSet(Done)
      BY <2>1, FiniteClients, FS_Subset
    <2> QED BY <2>2, FiniteClients, FS_CardinalityType
  <1>1. BoxTyped(s)
    <2>1. opens = [m \in Letters |-> 0] /\ Outbox(s)!Cardinality(Clients) \in Nat
      BY FiniteClients DEF Outbox!Init
    <2>2. opens \in [Letters -> 0..Outbox(s)!Cardinality(Clients)]
      BY <2>1
    <2> QED BY <2>2 DEF BoxTyped, Outbox!TypeOK, Outbox!Init, Outbox!Tasks, Outbox!NoTask, Outbox!Jobs
  <1>2. OnTheirRows
    BY DEF OnTheirRows, OnItsRow, Working, Outbox!Init, Outbox!NoTask
  <1>3. Audited
    <2>1. \A m \in Letters : opens[m] = 0
      BY DEF Outbox!Init
    <2> QED BY <1>0, <2>1 DEF Audited
  <1>4. Outbox(s)!TokensAreMailed /\ Outbox(s)!OpensAreAudited
    BY DEF Outbox!TokensAreMailed, Outbox!OpensAreAudited, Outbox!Init
  <1> QED BY <1>1, <1>2, <1>3, <1>4 DEF BoxInv

LEMMA CountsAreNumbers ==
  ASSUME NEW s, BoxAssumption(s), BoxTyped(s)
  PROVE  (\A m \in Letters : opens[m] \in Nat) /\ (\A c \in Outbox(s)!Columns : c.opens \in Nat)
PROOF
  <1>1. \A n \in 0..Outbox(s)!Cardinality(Clients) : n \in Nat
    <2>1. Outbox(s)!Cardinality(Clients) \in Nat
      BY FiniteClients
    <2> QED BY <2>1
  <1>2. \A m \in Letters : opens[m] \in 0..Outbox(s)!Cardinality(Clients)
    BY DEF BoxTyped, Outbox!TypeOK
  <1>3. \A c \in Outbox(s)!Columns : c.opens \in 0..Outbox(s)!Cardinality(Clients)
    BY DEF Outbox!Columns
  <1> QED BY <1>1, <1>2, <1>3

(* Requests that end are one more, and never more than there are.             *)
LEMMA OneMoreDone ==
  ASSUME NEW s, BoxAssumption(s), NEW D, D \in SUBSET Clients, NEW r \in Clients \ D
  PROVE  /\ Cardinality(D) \in Nat
         /\ Cardinality(D \cup {r}) = Cardinality(D) + 1
         /\ Cardinality(D) + 1 <= Cardinality(Clients)
         /\ Cardinality(Clients) \in Nat
PROOF
  <1>1. IsFiniteSet(Clients) /\ IsFiniteSet(D)
    BY FiniteClients, FS_Subset
  <1>2. D \cup {r} \in SUBSET Clients
    OBVIOUS
  <1>3. Cardinality(D \cup {r}) <= Cardinality(Clients)
    BY <1>1, <1>2, FS_Subset
  <1>4. Cardinality(D \cup {r}) = Cardinality(D) + 1
    BY <1>1, FS_AddElement
  <1>5. Cardinality(D) \in Nat /\ Cardinality(Clients) \in Nat
    BY <1>1, FS_CardinalityType
  <1> QED BY <1>3, <1>4, <1>5

(* What a step does to the requests' ends.                                    *)
LEMMA DoneAfter ==
  ASSUME NEW s, BoxAssumption(s), BoxTyped(s), NEW r \in Clients, r \notin Done,
         NEW t, sends' = [sends EXCEPT ![r] = t]
  PROVE  /\ Cardinality(Done) \in Nat /\ Cardinality(Done') \in Nat
         /\ t.job = "done" => Cardinality(Done') = Cardinality(Done) + 1
         /\ t.job # "done" => Cardinality(Done') = Cardinality(Done)
         /\ Cardinality(Done) + 1 <= Outbox(s)!Cardinality(Clients)
         /\ Outbox(s)!Cardinality(Clients) \in Nat
PROOF
  <1>1. Done \in SUBSET Clients /\ r \in Clients \ Done
    BY DEF Done
  <1>2. t.job = "done" => Done' = Done \cup {r}
    BY DEF BoxTyped, Outbox!TypeOK, Done
  <1>3. t.job # "done" => Done' = Done
    BY <1>1 DEF BoxTyped, Outbox!TypeOK, Done
  <1>4. /\ Cardinality(Done) \in Nat /\ Cardinality(Done \cup {r}) = Cardinality(Done) + 1
        /\ Cardinality(Done) + 1 <= Outbox(s)!Cardinality(Clients)
        /\ Outbox(s)!Cardinality(Clients) \in Nat
    BY <1>1, OneMoreDone, FiniteClients
  <1>5. /\ t.job = "done" => Cardinality(Done') = Cardinality(Done \cup {r})
        /\ t.job # "done" => Cardinality(Done') = Cardinality(Done)
    BY <1>2, <1>3, Zenon
  <1> QED BY <1>4, <1>5

(* A request starts on a row that is there, or that nobody else will make.    *)
LEMMA BeginKeeps ==
  ASSUME NEW s, BoxAssumption(s), BoxInv(s), NEW r \in Clients, NEW m \in Letters,
         NEW job \in {"save", "send", "open"}, NEW tracking \in BOOLEAN,
         sends[r].job = "idle",
         box[m] = None => Outbox(s)!Fresh(m) /\ job # "open",
         job = "open" => box[m].tracked,
         Outbox(s)!Begin(r, job, m, tracking)
  PROVE  BoxInv(s)'
PROOF
  <1> DEFINE t == [job |-> job, row |-> m, read |-> box[m], tracking |-> tracking]
  <1>1. sends' = [sends EXCEPT ![r] = t] /\ UNCHANGED <<box, opens, mailed, outcome>>
    BY DEF Outbox!Begin
  <1>2. r \notin Done /\ t.job # "done"
    BY DEF Done
  <1> HIDE DEF t
  <1>3. Cardinality(Done') = Cardinality(Done)
    BY <1>1, <1>2, DoneAfter DEF BoxInv
  <1> USE DEF t
  <1>4. BoxTyped(s)'
    BY <1>1 DEF BoxInv, BoxTyped, Outbox!TypeOK, Outbox!Tasks, Outbox!Jobs
  <1>5. OnTheirRows'
    <2> SUFFICES ASSUME NEW x \in Clients PROVE OnItsRow(x)'
      BY DEF OnTheirRows
    <2>1. CASE x = r
      BY <1>1, <2>1 DEF BoxInv, BoxTyped, Outbox!TypeOK, OnTheirRows, OnItsRow, Working,
         Outbox!Fresh, Outbox!OpensAreAudited
    <2>2. CASE x # r
      BY <1>1, <2>2 DEF BoxInv, BoxTyped, Outbox!TypeOK, OnTheirRows, OnItsRow, Working,
         Outbox!Fresh
    <2> QED BY <2>1, <2>2
  <1>6. Audited'
    BY <1>1, <1>3 DEF BoxInv, Audited
  <1>7. (Outbox(s)!TokensAreMailed /\ Outbox(s)!OpensAreAudited)'
    BY <1>1 DEF BoxInv, Outbox!TokensAreMailed, Outbox!OpensAreAudited
  <1> QED BY <1>4, <1>5, <1>6, <1>7 DEF BoxInv

LEMMA StartsKeep ==
  ASSUME NEW s, BoxAssumption(s), BoxInv(s), NEW r \in Clients,
         Outbox(s)!StartSave(r) \/ Outbox(s)!StartSend(r) \/ Outbox(s)!StartOpen(r)
  PROVE  BoxInv(s)'
PROOF
  <1>1. CASE Outbox(s)!StartSave(r)
    BY <1>1, BeginKeeps DEF Outbox!StartSave, Outbox!MayStart, Outbox!IsDraft
  <1>2. CASE Outbox(s)!StartSend(r)
    BY <1>2, BeginKeeps DEF Outbox!StartSend, Outbox!MayStart, Outbox!IsDraft
  <1>3. CASE Outbox(s)!StartOpen(r)
    BY <1>3, BeginKeeps DEF Outbox!StartOpen, Outbox!MayStart, Outbox!ByToken
  <1> QED BY <1>1, <1>2, <1>3

(* The mail is handed over: the request's next step stores it.                *)
LEMMA SmtpKeeps ==
  ASSUME NEW s, BoxAssumption(s), BoxInv(s), NEW r \in Clients, Outbox(s)!Smtp(r)
  PROVE  BoxInv(s)'
PROOF
  <1> DEFINE t == [sends[r] EXCEPT !.job = "store"]
  <1>1. sends' = [sends EXCEPT ![r] = t] /\ UNCHANGED <<box, opens, outcome>>
    BY DEF Outbox!Smtp
  <1>2. r \notin Done /\ t.job # "done"
    BY DEF Outbox!Smtp, Done, BoxInv, BoxTyped, Outbox!TypeOK, Outbox!Tasks
  <1> HIDE DEF t
  <1>3. Cardinality(Done') = Cardinality(Done)
    BY <1>1, <1>2, DoneAfter DEF BoxInv
  <1> USE DEF t
  <1>0. sends[r].row \in Letters /\ mailed[r] = None
    BY DEF BoxInv, OnTheirRows, OnItsRow, Working, Outbox!Smtp
  <1>4. BoxTyped(s)'
    BY <1>0 DEF BoxInv, BoxTyped, Outbox!TypeOK, Outbox!Tasks, Outbox!Jobs, Outbox!Handed, Outbox!Smtp
  <1>5. OnTheirRows'
    <2> SUFFICES ASSUME NEW x \in Clients PROVE OnItsRow(x)'
      BY DEF OnTheirRows
    <2>1. CASE x = r
      BY <2>1 DEF BoxInv, BoxTyped, Outbox!TypeOK, Outbox!Tasks, OnTheirRows, OnItsRow, Working,
         Outbox!Smtp
    <2>2. CASE x # r
      BY <2>2 DEF BoxInv, BoxTyped, Outbox!TypeOK, Outbox!Tasks, OnTheirRows, OnItsRow, Working,
         Outbox!Smtp
    <2> QED BY <2>1, <2>2
  <1>6. Audited'
    BY <1>1, <1>3 DEF BoxInv, Audited
  <1>7. Outbox(s)!TokensAreMailed'
    <2> SUFFICES ASSUME NEW m \in Letters, box[m] # None, box[m].token # None
                 PROVE  mailed'[box[m].token] = [row |-> m, token |-> box[m].token]
      BY <1>1 DEF BoxInv, Outbox!TokensAreMailed
    <2>1. mailed[box[m].token] = [row |-> m, token |-> box[m].token] /\ box[m].token \in Clients
      BY DEF BoxInv, Outbox!TokensAreMailed, BoxTyped, Outbox!TypeOK, Outbox!Columns
    <2>2. [row |-> m, token |-> box[m].token] # None
      BY <2>1 DEF BoxAssumption, Outbox!OutboxAssumption, Outbox!Handed
    <2>3. box[m].token # r
      BY <2>1, <2>2, <1>0
    <2> QED BY <2>1, <2>3 DEF Outbox!Smtp, BoxInv, BoxTyped, Outbox!TypeOK
  <1>8. Outbox(s)!OpensAreAudited'
    BY <1>1 DEF BoxInv, Outbox!OpensAreAudited
  <1> QED BY <1>4, <1>5, <1>6, <1>7, <1>8 DEF BoxInv

(* A commit: the request ends, and its row is there with its columns.         *)
LEMMA CommitKeeps ==
  ASSUME NEW s, BoxAssumption(s), BoxInv(s), NEW r \in Clients, Working(r),
         NEW m \in Letters, m = sends[r].row,
         NEW new \in Outbox(s)!Columns, NEW n \in {opens[m], opens[m] + 1},
         NEW result \in {"ok", "failed"},
         box' = [box EXCEPT ![m] = new], opens' = [opens EXCEPT ![m] = n], mailed' = mailed,
         Outbox(s)!End(r, result),
         new.token # None => mailed[new.token] = [row |-> m, token |-> new.token],
         new.tracked => new.token # None,
         box[m] # None /\ box[m].tracked => new.tracked,
         n > 0 => new.tracked,
         new.opens <= n
  PROVE  BoxInv(s)'
PROOF
  <1> DEFINE t == [sends[r] EXCEPT !.job = "done"]
  <1>0. opens[m] \in Nat /\ n \in Nat /\ n <= opens[m] + 1 /\ opens[m] <= n /\ new # None
    BY CountsAreNumbers DEF BoxInv, BoxAssumption, Outbox!OutboxAssumption
  <1>1. sends' = [sends EXCEPT ![r] = t]
    BY DEF Outbox!End
  <1>2. r \notin Done /\ t.job = "done"
    BY DEF Done, Working, BoxInv, BoxTyped, Outbox!TypeOK, Outbox!Tasks
  <1> HIDE DEF t
  <1>3. /\ Cardinality(Done) \in Nat /\ Cardinality(Done') = Cardinality(Done) + 1
        /\ Cardinality(Done) + 1 <= Outbox(s)!Cardinality(Clients)
        /\ Outbox(s)!Cardinality(Clients) \in Nat
    BY <1>1, <1>2, DoneAfter DEF BoxInv
  <1> USE DEF t
  <1>4. BoxTyped(s)'
    <2>1. box' \in [Letters -> Outbox(s)!Columns \cup {None}]
      BY DEF BoxInv, BoxTyped, Outbox!TypeOK
    <2>2. opens[m] <= Cardinality(Done)
      BY DEF BoxInv, Audited
    <2>3. n \in 0..Outbox(s)!Cardinality(Clients)
      BY <1>0, <1>3, <2>2
    <2>4. opens' \in [Letters -> 0..Outbox(s)!Cardinality(Clients)]
      BY <2>3 DEF BoxInv, BoxTyped, Outbox!TypeOK
    <2>5. /\ sends' \in [Clients -> Outbox(s)!Tasks]
          /\ outcome' \in [Clients -> {"", "ok", "failed"}]
      BY DEF BoxInv, BoxTyped, Outbox!TypeOK, Outbox!Tasks, Outbox!Jobs, Outbox!End
    <2>6. mailed' \in [Clients -> Outbox(s)!Handed \cup {None}]
      BY DEF BoxInv, BoxTyped, Outbox!TypeOK
    <2> QED BY <2>1, <2>4, <2>5, <2>6 DEF BoxTyped, Outbox!TypeOK
  <1>5. OnTheirRows'
    <2> SUFFICES ASSUME NEW x \in Clients PROVE OnItsRow(x)'
      BY DEF OnTheirRows
    <2>1. CASE x = r
      BY <1>1, <2>1 DEF BoxInv, BoxTyped, Outbox!TypeOK, Outbox!Tasks, OnItsRow, Working
    <2>2. CASE x # r
      <3>1. sends'[x] = sends[x] /\ mailed'[x] = mailed[x] /\ OnItsRow(x)
        BY <1>1, <2>2 DEF BoxInv, BoxTyped, Outbox!TypeOK, OnTheirRows
      <3>2. \A y \in Clients : sends'[y].row = sends[y].row
        BY <1>1 DEF BoxInv, BoxTyped, Outbox!TypeOK, Outbox!Tasks
      <3>3. /\ \A k \in Letters : box[k] # None => box'[k] # None
            /\ \A k \in Letters : box[k] # None /\ box[k].tracked => box'[k].tracked
            /\ \A k \in Letters : k # m => box'[k] = box[k]
        BY <1>0 DEF BoxInv, BoxTyped, Outbox!TypeOK
      <3>4. \A k \in Letters : opens[k] \in Nat /\ opens'[k] \in Nat /\ opens[k] <= opens'[k]
        <4>1. \A k \in Letters : opens[k] \in Nat /\ opens'[k] = IF k = m THEN n ELSE opens[k]
          BY CountsAreNumbers DEF BoxInv, BoxTyped, Outbox!TypeOK
        <4> QED BY <1>0, <4>1
      <3>5. Working(x) /\ sends[x].read = None => sends[x].row # m
        BY <2>2, <3>1 DEF OnItsRow
      <3>6. sends[x].job = "open" => sends[x].read # None /\ sends[x].read.opens \in Nat
        <4>1. sends[x].read \in Outbox(s)!Columns \cup {None}
          BY DEF BoxInv, BoxTyped, Outbox!TypeOK, Outbox!Tasks
        <4>2. sends[x].job = "open" => sends[x].read # None
          BY <3>1 DEF OnItsRow, Working
        <4> QED BY <4>1, <4>2, CountsAreNumbers DEF BoxInv
      <3> QED BY <3>1, <3>2, <3>3, <3>4, <3>5, <3>6 DEF OnItsRow, Working
    <2> QED BY <2>1, <2>2
  <1>6. Audited'
    <2> SUFFICES ASSUME NEW k \in Letters
                 PROVE  opens'[k] <= Cardinality(Done') /\ (box'[k] = None => opens'[k] = 0)
      BY DEF Audited
    <2>1. opens[k] \in Nat /\ opens[k] <= Cardinality(Done) /\ (box[k] = None => opens[k] = 0)
      BY CountsAreNumbers DEF BoxInv, Audited
    <2>4. box'[k] = (IF k = m THEN new ELSE box[k]) /\ opens'[k] = IF k = m THEN n ELSE opens[k]
      BY DEF BoxInv, BoxTyped, Outbox!TypeOK
    <2>2. CASE k = m
      BY <1>0, <1>3, <2>1, <2>2, <2>4
    <2>3. CASE k # m
      BY <1>3, <2>1, <2>3, <2>4
    <2> QED BY <2>2, <2>3
  <1>7. Outbox(s)!TokensAreMailed'
    BY <1>0 DEF BoxInv, BoxTyped, Outbox!TypeOK, Outbox!TokensAreMailed
  <1>8. Outbox(s)!OpensAreAudited'
    BY <1>0 DEF BoxInv, BoxTyped, Outbox!TypeOK, Outbox!OpensAreAudited
  <1> QED BY <1>4, <1>5, <1>6, <1>7, <1>8 DEF BoxInv

(* What a request that commits finds of its row.                              *)
LEMMA RowOf ==
  ASSUME NEW s, BoxAssumption(s), BoxInv(s), NEW r \in Clients, Working(r)
  PROVE  /\ sends[r].row \in Letters /\ sends[r].tracking \in BOOLEAN /\ r # None
         /\ sends[r].read = None => box[sends[r].row] = None /\ opens[sends[r].row] = 0
         /\ sends[r].read # None => box[sends[r].row] \in Outbox(s)!Columns
         /\ 0 \in 0..Outbox(s)!Cardinality(Clients)
         /\ opens[sends[r].row] \in Nat
PROOF
  <1>1. sends[r].row \in Letters /\ sends[r].tracking \in BOOLEAN /\ r # None
    BY DEF BoxInv, BoxTyped, Outbox!TypeOK, Outbox!Tasks, OnTheirRows, OnItsRow, BoxAssumption,
       Outbox!OutboxAssumption
  <1>2. sends[r].read = None => box[sends[r].row] = None /\ opens[sends[r].row] = 0
    BY <1>1 DEF BoxInv, OnTheirRows, OnItsRow, Audited
  <1>3. sends[r].read # None => box[sends[r].row] \in Outbox(s)!Columns
    BY <1>1 DEF BoxInv, BoxTyped, Outbox!TypeOK, OnTheirRows, OnItsRow
  <1>4. Outbox(s)!Cardinality(Clients) \in Nat
    BY FiniteClients
  <1>5. 0 \in 0..Outbox(s)!Cardinality(Clients)
    BY <1>4
  <1>6. opens[sends[r].row] \in Nat
    BY <1>1, CountsAreNumbers DEF BoxInv
  <1> QED BY <1>1, <1>2, <1>3, <1>5, <1>6

LEMMA CommitSaveKeeps ==
  ASSUME NEW s, BoxAssumption(s), BoxInv(s), NEW r \in Clients, Outbox(s)!CommitSave(r)
  PROVE  BoxInv(s)'
PROOF
  <1>1. Working(r) /\ Outbox(s)!End(r, "ok") /\ UNCHANGED <<opens, mailed>>
    BY DEF Outbox!CommitSave, Working
  <1>2. PICK m \in Letters : m = sends[r].row
    BY <1>1, RowOf
  <1>3. PICK new : new = IF sends[r].read = None THEN Outbox(s)!Draft(r) ELSE Outbox(s)!SavedText(r)
    OBVIOUS
  <1>4. box' = [box EXCEPT ![m] = new]
    BY <1>2, <1>3 DEF Outbox!CommitSave
  <1>5. opens' = [opens EXCEPT ![m] = opens[m]]
    BY <1>1 DEF BoxInv, BoxTyped, Outbox!TypeOK
  <1>6. /\ new \in Outbox(s)!Columns
        /\ new.token # None => mailed[new.token] = [row |-> m, token |-> new.token]
        /\ new.tracked => new.token # None
        /\ box[m] # None /\ box[m].tracked => new.tracked
        /\ opens[m] > 0 => new.tracked
        /\ new.opens <= opens[m]
    <2>1. CASE sends[r].read = None
      BY <1>1, <1>2, <1>3, <2>1, RowOf DEF Outbox!Draft, Outbox!Columns, Outbox!Kinds
    <2>2. CASE sends[r].read # None
      <3>1. box[m] # None
        BY <1>1, <1>2, <2>2 DEF BoxInv, OnTheirRows, OnItsRow
      <3> QED BY <1>1, <1>2, <1>3, <2>2, <3>1, RowOf DEF Outbox!SavedText, Outbox!Columns, BoxInv,
              Outbox!TokensAreMailed, Outbox!OpensAreAudited
    <2> QED BY <2>1, <2>2
  <1> QED BY <1>1, <1>2, <1>4, <1>5, <1>6, CommitKeeps

LEMMA CommitSendKeeps ==
  ASSUME NEW s, BoxAssumption(s), BoxInv(s), NEW r \in Clients, Outbox(s)!CommitSend(r)
  PROVE  BoxInv(s)'
PROOF
  <1>1. Working(r) /\ Outbox(s)!End(r, "ok") /\ UNCHANGED <<opens, mailed>>
    BY DEF Outbox!CommitSend, Working
  <1>2. PICK m \in Letters : m = sends[r].row
    BY <1>1, RowOf
  <1>3. PICK new : new = IF sends[r].read = None THEN Outbox(s)!SentNew(r) ELSE Outbox(s)!SentFrom(r)
    OBVIOUS
  <1>4. box' = [box EXCEPT ![m] = new]
    BY <1>2, <1>3 DEF Outbox!CommitSend
  <1>5. opens' = [opens EXCEPT ![m] = opens[m]]
    BY <1>1 DEF BoxInv, BoxTyped, Outbox!TypeOK
  <1>7. mailed[r] = [row |-> m, token |-> IF sends[r].tracking THEN r ELSE None]
    BY <1>2 DEF BoxInv, OnTheirRows, OnItsRow, Outbox!CommitSend
  <1>6. /\ new \in Outbox(s)!Columns
        /\ new.token # None => mailed[new.token] = [row |-> m, token |-> new.token]
        /\ new.tracked => new.token # None
        /\ box[m] # None /\ box[m].tracked => new.tracked
        /\ opens[m] > 0 => new.tracked
        /\ new.opens <= opens[m]
    <2>1. CASE sends[r].read = None
      <3>1. new = [kind |-> "sent", text |-> r, token |-> IF sends[r].tracking THEN r ELSE None,
                   tracked |-> sends[r].tracking, opens |-> 0]
        BY <1>3, <2>1 DEF Outbox!SentNew, Outbox!Draft
      <3>2. box[m] = None /\ opens[m] = 0 /\ sends[r].tracking \in BOOLEAN /\ r # None
        BY <1>1, <1>2, <2>1, RowOf
      <3>3. 0 \in 0..Outbox(s)!Cardinality(Clients)
        BY <1>1, RowOf
      <3>4. new \in Outbox(s)!Columns
        BY <3>1, <3>2, <3>3 DEF Outbox!Columns, Outbox!Kinds
      <3> QED BY <1>7, <3>1, <3>2, <3>4
    <2>2. CASE sends[r].read # None
      <3>1. box[m] # None
        BY <1>1, <1>2, <2>2 DEF BoxInv, OnTheirRows, OnItsRow
      <3> QED BY <1>1, <1>2, <1>3, <1>7, <2>2, <3>1, RowOf DEF Outbox!SentFrom, Outbox!Columns, Outbox!Kinds,
              BoxInv, Outbox!TokensAreMailed, Outbox!OpensAreAudited
    <2> QED BY <2>1, <2>2
  <1> QED BY <1>1, <1>2, <1>4, <1>5, <1>6, CommitKeeps

LEMMA OpenedTyped ==
  ASSUME NEW s, BoxAssumption(s), BoxInv(s), NEW r \in Clients, Outbox(s)!CommitOpen(r)
  PROVE  /\ Outbox(s)!Opened(r) \in Outbox(s)!Columns
         /\ box[sends[r].row] # None /\ box[sends[r].row].tracked
         /\ Outbox(s)!Opened(r).opens <= opens[sends[r].row] + 1
         /\ opens[sends[r].row] \in Nat
PROOF
  <1>1. Working(r)
    BY DEF Outbox!CommitOpen, Working
  <1>2. PICK m \in Letters : m = sends[r].row
    BY <1>1, RowOf
  <1>3. /\ box[m] # None /\ box[m].tracked /\ box[m] \in Outbox(s)!Columns
        /\ sends[r].read \in Outbox(s)!Columns /\ sends[r].read.opens <= opens[m]
    BY <1>1, <1>2, RowOf DEF BoxInv, BoxTyped, Outbox!TypeOK, Outbox!Tasks, OnTheirRows, OnItsRow,
       Outbox!CommitOpen
  <1>4. sends[r].read.opens \in Nat /\ opens[m] \in Nat
    BY <1>3, CountsAreNumbers DEF BoxInv
  <1>5. sends[r].read.opens + 1 \in 0..Outbox(s)!Cardinality(Clients)
    <2>1. r \notin Done /\ Done \in SUBSET Clients
      BY <1>1 DEF Done, Working
    <2>2. Cardinality(Done) + 1 <= Cardinality(Clients) /\ Cardinality(Done) \in Nat
      BY <2>1, OneMoreDone
    <2>3. opens[m] <= Cardinality(Done)
      BY DEF BoxInv, Audited
    <2>4. Cardinality(Clients) = Outbox(s)!Cardinality(Clients) /\ Outbox(s)!Cardinality(Clients) \in Nat
      BY FiniteClients
    <2>5. Cardinality(Done) + 1 <= Outbox(s)!Cardinality(Clients)
      BY <2>2, <2>4
    <2> QED BY <1>3, <1>4, <2>2, <2>3, <2>4, <2>5
  <1>6. /\ Outbox(s)!Opened(r) \in Outbox(s)!Columns
        /\ Outbox(s)!Opened(r).opens = sends[r].read.opens + 1
    BY <1>2, <1>3, <1>5 DEF Outbox!Opened, Outbox!Columns
  <1> QED BY <1>2, <1>3, <1>4, <1>6

LEMMA CommitOpenKeeps ==
  ASSUME NEW s, BoxAssumption(s), BoxInv(s), NEW r \in Clients, Outbox(s)!CommitOpen(r)
  PROVE  BoxInv(s)'
PROOF
  <1>1. Working(r) /\ Outbox(s)!End(r, "ok") /\ mailed' = mailed
    BY DEF Outbox!CommitOpen, Working
  <1>2. PICK m \in Letters : m = sends[r].row
    BY <1>1, RowOf
  <1>3. PICK new : new = Outbox(s)!Opened(r)
    OBVIOUS
  <1>4. box' = [box EXCEPT ![m] = new]
    BY <1>2, <1>3 DEF Outbox!CommitOpen
  <1>5. opens' = [opens EXCEPT ![m] = opens[m] + 1]
    BY <1>2 DEF Outbox!CommitOpen
  <1>6. /\ new \in Outbox(s)!Columns /\ box[m] # None /\ box[m].tracked
        /\ opens[m] \in Nat /\ new.opens <= opens[m] + 1
    BY <1>2, <1>3, OpenedTyped
  <1>7. /\ new.token # None => mailed[new.token] = [row |-> m, token |-> new.token]
        /\ new.tracked /\ new.token # None
    BY <1>1, <1>2, <1>3, <1>6, RowOf DEF Outbox!Opened, Outbox!Columns, BoxInv, BoxTyped, Outbox!TypeOK,
       Outbox!TokensAreMailed
  <1> QED BY <1>1, <1>2, <1>4, <1>5, <1>6, <1>7, CommitKeeps

LEMMA FailKeeps ==
  ASSUME NEW s, BoxAssumption(s), BoxInv(s), NEW r \in Clients, Outbox(s)!Fail(r)
  PROVE  BoxInv(s)'
PROOF
  <1> DEFINE t == [sends[r] EXCEPT !.job = "done"]
  <1>1. sends' = [sends EXCEPT ![r] = t] /\ UNCHANGED <<box, opens, mailed>>
    BY DEF Outbox!Fail, Outbox!End
  <1>2. r \notin Done /\ t.job = "done"
    BY DEF Done, BoxInv, BoxTyped, Outbox!TypeOK, Outbox!Tasks, Outbox!Fail, Outbox!Active
  <1> HIDE DEF t
  <1>3. Cardinality(Done) \in Nat /\ Cardinality(Done') = Cardinality(Done) + 1
    BY <1>1, <1>2, DoneAfter DEF BoxInv
  <1> USE DEF t
  <1>4. BoxTyped(s)'
    BY DEF BoxInv, BoxTyped, Outbox!TypeOK, Outbox!Tasks, Outbox!Jobs, Outbox!Fail, Outbox!End
  <1>5. OnTheirRows'
    <2> SUFFICES ASSUME NEW x \in Clients PROVE OnItsRow(x)'
      BY DEF OnTheirRows
    <2>1. \A y \in Clients : sends'[y].row = sends[y].row
      BY <1>1 DEF BoxInv, BoxTyped, Outbox!TypeOK, Outbox!Tasks
    <2>2. CASE x = r
      BY <1>1, <2>2 DEF BoxInv, BoxTyped, Outbox!TypeOK, Outbox!Tasks, OnItsRow, Working
    <2>3. CASE x # r
      <3>1. sends'[x] = sends[x] /\ OnItsRow(x)
        BY <1>1, <2>3 DEF BoxInv, BoxTyped, Outbox!TypeOK, OnTheirRows
      <3> QED BY <1>1, <2>1, <3>1 DEF OnItsRow, Working
    <2> QED BY <2>2, <2>3
  <1>6. Audited'
    <2>1. \A m \in Letters : opens[m] \in Nat
      BY CountsAreNumbers DEF BoxInv
    <2> QED BY <1>1, <1>3, <2>1 DEF BoxInv, Audited
  <1>7. (Outbox(s)!TokensAreMailed /\ Outbox(s)!OpensAreAudited)'
    BY <1>1 DEF BoxInv, Outbox!TokensAreMailed, Outbox!OpensAreAudited
  <1> QED BY <1>4, <1>5, <1>6, <1>7 DEF BoxInv

LEMMA BoxStep ==
  ASSUME NEW s, BoxAssumption(s), BoxInv(s), Outbox(s)!Next \/ UNCHANGED boxVars
  PROVE  BoxInv(s)'
PROOF
  <1>1. ASSUME NEW r \in Clients,
               \/ Outbox(s)!StartSave(r) \/ Outbox(s)!CommitSave(r) \/ Outbox(s)!StartSend(r)
               \/ Outbox(s)!Smtp(r) \/ Outbox(s)!CommitSend(r) \/ Outbox(s)!StartOpen(r)
               \/ Outbox(s)!CommitOpen(r) \/ Outbox(s)!Fail(r)
        PROVE  BoxInv(s)'
    BY <1>1, StartsKeep, SmtpKeeps, CommitSaveKeeps, CommitSendKeeps, CommitOpenKeeps, FailKeeps
  <1>2. CASE UNCHANGED boxVars
    <2>1. Done' = Done
      BY <1>2 DEF Done, boxVars
    <2>2. Cardinality(Done') = Cardinality(Done)
      BY <2>1, Zenon
    <2> QED BY <1>2, <2>2 DEF boxVars, BoxInv, BoxTyped, Outbox!TypeOK, OnTheirRows, OnItsRow,
            Working, Audited, Outbox!TokensAreMailed, Outbox!OpensAreAudited
  <1>3. CASE Outbox(s)!Finished
    BY <1>2, <1>3 DEF Outbox!Finished, Outbox!vars, boxVars
  <1> QED BY <1>1, <1>2, <1>3 DEF Outbox!Next

(* A step of a request never makes a draft of a sent row: who read a draft    *)
(* writes its text only.                                                      *)
LEMMA SentStaysSent ==
  ASSUME NEW s, BoxAssumption(s), BoxInv(s), Outbox(s)!Next \/ UNCHANGED boxVars
  PROVE  Outbox(s)!SentStays
PROOF
  <1> SUFFICES ASSUME NEW m \in Letters, box[m] # None, box[m].kind = "sent"
               PROVE  box'[m].kind = "sent"
    BY DEF Outbox!SentStays
  <1>0. box[m] \in Outbox(s)!Columns
    BY DEF BoxInv, BoxTyped, Outbox!TypeOK
  <1>1. CASE UNCHANGED box
    BY <1>1
  <1>2. ASSUME NEW r \in Clients, Working(r), NEW new, box' = [box EXCEPT ![sends[r].row] = new],
               sends[r].read # None => new.kind = box[sends[r].row].kind \/ new.kind = "sent"
        PROVE  box'[m].kind = "sent"
    <2>1. CASE m = sends[r].row
      BY <1>2, <2>1, RowOf DEF BoxInv, BoxTyped, Outbox!TypeOK
    <2>2. CASE m # sends[r].row
      BY <1>2, <2>2 DEF BoxInv, BoxTyped, Outbox!TypeOK
    <2> QED BY <2>1, <2>2
  <1>3. ASSUME NEW r \in Clients, Outbox(s)!CommitSave(r) PROVE box'[m].kind = "sent"
    BY <1>2, <1>3, RowOf DEF Outbox!CommitSave, Outbox!SavedText, Outbox!Columns, Working
  <1>4. ASSUME NEW r \in Clients, Outbox(s)!CommitSend(r) PROVE box'[m].kind = "sent"
    BY <1>2, <1>4, RowOf DEF Outbox!CommitSend, Outbox!SentFrom, Outbox!Columns, Working
  <1>5. ASSUME NEW r \in Clients, Outbox(s)!CommitOpen(r) PROVE box'[m].kind = "sent"
    BY <1>2, <1>5, RowOf DEF Outbox!CommitOpen, Outbox!Opened, Outbox!Columns, Working
  <1>6. ASSUME NEW r \in Clients,
               \/ Outbox(s)!StartSave(r) \/ Outbox(s)!StartSend(r) \/ Outbox(s)!StartOpen(r)
               \/ Outbox(s)!Smtp(r) \/ Outbox(s)!Fail(r)
        PROVE  UNCHANGED box
    BY <1>6 DEF Outbox!StartSave, Outbox!StartSend, Outbox!StartOpen, Outbox!Begin, Outbox!Smtp, Outbox!Fail
  <1>7. CASE Outbox(s)!Finished \/ UNCHANGED boxVars
    BY <1>1, <1>7 DEF Outbox!Finished, Outbox!vars, boxVars
  <1> QED BY <1>1, <1>3, <1>4, <1>5, <1>6, <1>7 DEF Outbox!Next

(* Requests in order.  The one at work has read its row as it is, and a mail  *)
(* was handed over by it, or its row shows it.                                *)
Alone == \A r, x \in Clients : Working(r) /\ Working(x) => r = x
UpToDate == \A r \in Clients : Working(r) =>
  /\ sends[r].read = box[sends[r].row]
  /\ sends[r].job # "open" /\ sends[r].read # None => sends[r].read.kind = "draft"
MailedShown == \A r \in Clients : mailed[r] # None =>
  \/ sends[r].job = "store"
  \/ sends[r].job = "done" /\ box[mailed[r].row] # None /\ box[mailed[r].row].kind = "sent"

InTurn(s) ==
  /\ Alone /\ UpToDate /\ MailedShown
  /\ Outbox(s)!SentShowsWhatWasSent /\ Outbox(s)!DraftSentOnce /\ Outbox(s)!OpensAreCounted

InOrder(s) == s = "in order"

LEMMA InTurnInit == ASSUME NEW s, Outbox(s)!Init PROVE InTurn(s)
PROOF
  BY DEF InTurn, Alone, UpToDate, MailedShown, Working, Outbox!Init, Outbox!NoTask,
     Outbox!SentShowsWhatWasSent, Outbox!DraftSentOnce, Outbox!OpensAreCounted

LEMMA BeginInTurn ==
  ASSUME NEW s, InOrder(s), BoxInv(s), InTurn(s), NEW r \in Clients, NEW m \in Letters,
         NEW job \in {"save", "send", "open"}, NEW tracking, Outbox(s)!MayStart(r),
         job # "open" => Outbox(s)!Fresh(m) \/ Outbox(s)!IsDraft(m),
         Outbox(s)!Begin(r, job, m, tracking)
  PROVE  InTurn(s)'
PROOF
  <1>1. /\ sends' = [sends EXCEPT ![r] = [job |-> job, row |-> m, read |-> box[m], tracking |-> tracking]]
        /\ UNCHANGED <<box, opens, mailed>>
    BY DEF Outbox!Begin
  <1>2. \A x \in Clients : ~Working(x)
    BY DEF InOrder, Outbox!MayStart, Outbox!Active, Working
  <1>3. \A x \in Clients \ {r} : sends'[x] = sends[x]
    BY <1>1 DEF BoxInv, BoxTyped, Outbox!TypeOK
  <1>4. sends'[r] = [job |-> job, row |-> m, read |-> box[m], tracking |-> tracking]
    BY <1>1 DEF BoxInv, BoxTyped, Outbox!TypeOK
  <1>5. mailed[r] = None
    BY DEF BoxInv, OnTheirRows, OnItsRow, Outbox!MayStart
  <1>6. Alone'
    BY <1>2, <1>3 DEF Alone, Working
  <1>7. UpToDate'
    <2>1. \A x \in Clients : Working(x)' => x = r
      BY <1>2, <1>3 DEF Working
    <2>2. job # "open" /\ box[m] # None => box[m].kind = "draft"
      BY DEF Outbox!Fresh, Outbox!IsDraft
    <2>3. sends'[r].job = job /\ sends'[r].row = m /\ sends'[r].read = box[m]
      BY <1>1 DEF BoxInv, BoxTyped, Outbox!TypeOK
    <2> QED BY <1>1, <2>1, <2>2, <2>3 DEF UpToDate
  <1>8. MailedShown'
    BY <1>1, <1>3, <1>5 DEF InTurn, MailedShown
  <1>9. (Outbox(s)!SentShowsWhatWasSent /\ Outbox(s)!DraftSentOnce /\ Outbox(s)!OpensAreCounted)'
    BY <1>1 DEF InTurn, Outbox!SentShowsWhatWasSent, Outbox!DraftSentOnce, Outbox!OpensAreCounted
  <1> QED BY <1>6, <1>7, <1>8, <1>9 DEF InTurn

(* A draft that is handed over was not handed over before.                    *)
LEMMA SmtpInTurn ==
  ASSUME NEW s, BoxAssumption(s), BoxInv(s), InTurn(s), NEW r \in Clients, Outbox(s)!Smtp(r)
  PROVE  InTurn(s)'
PROOF
  <1>0. PICK m \in Letters : m = sends[r].row
    BY DEF BoxInv, OnTheirRows, OnItsRow, Working, Outbox!Smtp
  <1>1. /\ UNCHANGED <<box, opens>> /\ Working(r) /\ mailed[r] = None
        /\ \A x \in Clients \ {r} : sends'[x] = sends[x] /\ mailed'[x] = mailed[x] /\ ~Working(x)
        /\ sends'[r] = [sends[r] EXCEPT !.job = "store"]
        /\ mailed'[r] # None /\ mailed'[r].row = m
    <2>1. [row |-> m, token |-> IF sends[r].tracking THEN r ELSE None] # None
      BY DEF BoxAssumption, Outbox!OutboxAssumption, Outbox!Handed
    <2> QED BY <1>0, <2>1 DEF Outbox!Smtp, BoxInv, BoxTyped, Outbox!TypeOK, OnTheirRows, OnItsRow, Working,
            InTurn, Alone
  <1>2. box[m] = None \/ box[m].kind = "draft"
    BY <1>0, <1>1 DEF InTurn, UpToDate, Outbox!Smtp
  <1>3. \A x \in Clients : mailed[x] # None => mailed[x].row # m
    BY <1>1, <1>2 DEF InTurn, MailedShown, Working
  <1>4. /\ sends'[r].job = "store" /\ sends'[r].row = sends[r].row /\ sends'[r].read = sends[r].read
    BY DEF BoxInv, BoxTyped, Outbox!TypeOK, Outbox!Tasks, Outbox!Smtp
  <1>6. Alone'
    BY <1>1 DEF Alone, Working
  <1>7. UpToDate'
    BY <1>1, <1>4 DEF InTurn, UpToDate, Working, Outbox!Smtp
  <1>8. MailedShown'
    <2>1. \A x \in Clients \ {r} : mailed'[x] # None =>
            \/ sends'[x].job = "store"
            \/ sends'[x].job = "done" /\ box[mailed'[x].row] # None /\ box[mailed'[x].row].kind = "sent"
      BY <1>1 DEF InTurn, MailedShown
    <2> QED BY <1>1, <1>4, <2>1 DEF MailedShown
  <1>9. Outbox(s)!SentShowsWhatWasSent'
    <2> SUFFICES ASSUME NEW k \in Letters, box[k] # None, box[k].kind = "sent"
                 PROVE  mailed'[box[k].text] # None /\ mailed'[box[k].text].row = k
      BY <1>1 DEF Outbox!SentShowsWhatWasSent
    <2>1. mailed[box[k].text] # None /\ mailed[box[k].text].row = k
      BY DEF InTurn, Outbox!SentShowsWhatWasSent
    <2>2. box[k].text \in Clients
      BY DEF BoxInv, BoxTyped, Outbox!TypeOK, Outbox!Columns
    <2>3. box[k].text # r
      BY <1>1, <2>1
    <2> QED BY <1>1, <2>1, <2>2, <2>3
  <1>10. Outbox(s)!DraftSentOnce'
    BY <1>1, <1>3 DEF InTurn, Outbox!DraftSentOnce
  <1>11. Outbox(s)!OpensAreCounted'
    BY <1>1 DEF InTurn, Outbox!OpensAreCounted
  <1> QED BY <1>6, <1>7, <1>8, <1>9, <1>10, <1>11 DEF InTurn

(* The one at work commits what it has read and changed.                      *)
LEMMA CommitInTurn ==
  ASSUME NEW s, BoxAssumption(s), BoxInv(s), InTurn(s), NEW r \in Clients, Working(r),
         NEW m \in Letters, m = sends[r].row,
         NEW new \in Outbox(s)!Columns,
         box' = [box EXCEPT ![m] = new], UNCHANGED mailed,
         sends' = [sends EXCEPT ![r].job = "done"],
         \A k \in Letters \ {m} : opens'[k] = opens[k],
         opens'[m] = new.opens,
         new.kind = "sent" => mailed[new.text] # None /\ mailed[new.text].row = m,
         mailed[r] # None => new.kind = "sent" /\ mailed[r].row = m,
         box[m] # None /\ box[m].kind = "sent" => new.kind = "sent"
  PROVE  InTurn(s)'
PROOF
  <1>0. new # None
    BY DEF BoxAssumption, Outbox!OutboxAssumption
  <1>1. /\ \A x \in Clients \ {r} : sends'[x] = sends[x] /\ ~Working(x)
        /\ sends'[r].job = "done"
    BY DEF BoxInv, BoxTyped, Outbox!TypeOK, Outbox!Tasks, InTurn, Alone
  <1>2. \A x \in Clients : ~Working(x)'
    BY <1>1 DEF Working
  <1>3. \A k \in Letters : box'[k] = IF k = m THEN new ELSE box[k]
    BY DEF BoxInv, BoxTyped, Outbox!TypeOK
  <1>4. Alone' /\ UpToDate'
    BY <1>2 DEF Alone, UpToDate
  <1>5. MailedShown'
    <2> SUFFICES ASSUME NEW x \in Clients, mailed[x] # None
                 PROVE  /\ sends'[x].job = "done"
                        /\ box'[mailed[x].row] # None /\ box'[mailed[x].row].kind = "sent"
      BY DEF MailedShown
    <2>1. mailed[x].row \in Letters
      BY DEF BoxInv, BoxTyped, Outbox!TypeOK, Outbox!Handed
    <2>2. CASE x = r
      BY <1>0, <1>1, <1>3, <2>1, <2>2
    <2>3. CASE x # r
      BY <1>0, <1>1, <1>3, <2>1, <2>3 DEF InTurn, MailedShown, Working
    <2> QED BY <2>2, <2>3
  <1>6. Outbox(s)!SentShowsWhatWasSent'
    BY <1>3 DEF InTurn, Outbox!SentShowsWhatWasSent
  <1>7. Outbox(s)!DraftSentOnce'
    BY DEF InTurn, Outbox!DraftSentOnce
  <1>8. Outbox(s)!OpensAreCounted'
    BY <1>3 DEF InTurn, Outbox!OpensAreCounted
  <1> QED BY <1>4, <1>5, <1>6, <1>7, <1>8 DEF InTurn

LEMMA InTurnStep ==
  ASSUME NEW s, InOrder(s), BoxAssumption(s), BoxInv(s), InTurn(s),
         Outbox(s)!Next \/ UNCHANGED boxVars
  PROVE  InTurn(s)'
PROOF
  <1>1. ASSUME NEW r \in Clients,
               Outbox(s)!StartSave(r) \/ Outbox(s)!StartSend(r) \/ Outbox(s)!StartOpen(r)
        PROVE  InTurn(s)'
    <2>1. CASE Outbox(s)!StartSave(r)
      BY <2>1, BeginInTurn DEF Outbox!StartSave
    <2>2. CASE Outbox(s)!StartSend(r)
      BY <2>2, BeginInTurn DEF Outbox!StartSend
    <2>3. CASE Outbox(s)!StartOpen(r)
      BY <2>3, BeginInTurn DEF Outbox!StartOpen, Outbox!ByToken
    <2> QED BY <1>1, <2>1, <2>2, <2>3
  <1>2. ASSUME NEW r \in Clients, Outbox(s)!CommitSave(r) PROVE InTurn(s)'
    <2>1. Working(r) /\ UNCHANGED <<opens, mailed>> /\ sends' = [sends EXCEPT ![r].job = "done"]
      BY <1>2 DEF Outbox!CommitSave, Outbox!End, Working
    <2>2. PICK m \in Letters : m = sends[r].row
      BY <2>1, RowOf
    <2>3. PICK new : new = IF sends[r].read = None THEN Outbox(s)!Draft(r) ELSE Outbox(s)!SavedText(r)
      OBVIOUS
    <2>4. box' = [box EXCEPT ![m] = new]
      BY <1>2, <2>2, <2>3 DEF Outbox!CommitSave
    <2>5. sends[r].read = box[m] /\ (box[m] # None => box[m].kind = "draft") /\ mailed[r] = None
      BY <1>2, <2>1, <2>2 DEF InTurn, UpToDate, BoxInv, OnTheirRows, OnItsRow, Outbox!CommitSave
    <2>6. new \in Outbox(s)!Columns /\ new.kind = "draft" /\ new.opens = opens[m]
      <3>1. CASE box[m] = None
        BY <2>1, <2>2, <2>3, <2>5, <3>1, RowOf DEF Outbox!Draft, Outbox!Columns, Outbox!Kinds
      <3>2. CASE box[m] # None
        BY <2>1, <2>2, <2>3, <2>5, <3>2, RowOf DEF Outbox!SavedText, Outbox!Columns, InTurn,
           Outbox!OpensAreCounted
      <3> QED BY <3>1, <3>2
    <2> QED BY <2>1, <2>2, <2>4, <2>5, <2>6, CommitInTurn
  <1>3. ASSUME NEW r \in Clients, Outbox(s)!CommitSend(r) PROVE InTurn(s)'
    <2>1. Working(r) /\ UNCHANGED <<opens, mailed>> /\ sends' = [sends EXCEPT ![r].job = "done"]
      BY <1>3 DEF Outbox!CommitSend, Outbox!End, Working
    <2>2. PICK m \in Letters : m = sends[r].row
      BY <2>1, RowOf
    <2>3. PICK new : new = IF sends[r].read = None THEN Outbox(s)!SentNew(r) ELSE Outbox(s)!SentFrom(r)
      OBVIOUS
    <2>4. box' = [box EXCEPT ![m] = new]
      BY <1>3, <2>2, <2>3 DEF Outbox!CommitSend
    <2>5. sends[r].read = box[m]
      BY <2>1, <2>2 DEF InTurn, UpToDate
    <2>6. mailed[r] # None /\ mailed[r].row = m
      <3>1. mailed[r] = [row |-> m, token |-> IF sends[r].tracking THEN r ELSE None]
        BY <1>3, <2>2 DEF BoxInv, OnTheirRows, OnItsRow, Outbox!CommitSend
      <3>2. mailed[r] \in Outbox(s)!Handed
        BY <3>1 DEF Outbox!Handed
      <3>3. mailed[r].row = m
        BY <3>1
      <3> QED BY <3>2, <3>3 DEF BoxAssumption, Outbox!OutboxAssumption
    <2>7. new \in Outbox(s)!Columns /\ new.kind = "sent" /\ new.text = r /\ new.opens = opens[m]
      <3>1. CASE box[m] = None
        <4>1. new = [kind |-> "sent", text |-> r, token |-> IF sends[r].tracking THEN r ELSE None,
                     tracked |-> sends[r].tracking, opens |-> 0]
          BY <2>3, <2>5, <3>1 DEF Outbox!SentNew, Outbox!Draft
        <4>2. opens[m] = 0 /\ sends[r].tracking \in BOOLEAN /\ 0 \in 0..Outbox(s)!Cardinality(Clients)
          BY <2>1, <2>2, <2>5, <3>1, RowOf
        <4>3. new \in Outbox(s)!Columns
          BY <4>1, <4>2 DEF Outbox!Columns, Outbox!Kinds
        <4> QED BY <4>1, <4>2, <4>3
      <3>2. CASE box[m] # None
        BY <2>1, <2>2, <2>3, <2>5, <3>2, RowOf DEF Outbox!SentFrom, Outbox!Columns, Outbox!Kinds, InTurn,
           Outbox!OpensAreCounted
      <3> QED BY <3>1, <3>2
    <2> QED BY <2>1, <2>2, <2>4, <2>6, <2>7, CommitInTurn
  <1>4. ASSUME NEW r \in Clients, Outbox(s)!CommitOpen(r) PROVE InTurn(s)'
    <2>1. Working(r) /\ UNCHANGED mailed /\ sends' = [sends EXCEPT ![r].job = "done"]
      BY <1>4 DEF Outbox!CommitOpen, Outbox!End, Working
    <2>2. PICK m \in Letters : m = sends[r].row
      BY <2>1, RowOf
    <2>3. PICK new : new = Outbox(s)!Opened(r)
      OBVIOUS
    <2>4. box' = [box EXCEPT ![m] = new] /\ opens' = [opens EXCEPT ![m] = opens[m] + 1]
      BY <1>4, <2>2, <2>3 DEF Outbox!CommitOpen
    <2>5. sends[r].read = box[m] /\ box[m] # None /\ mailed[r] = None /\ box[m].opens = opens[m]
      BY <1>4, <2>1, <2>2 DEF InTurn, UpToDate, BoxInv, OnTheirRows, OnItsRow, Outbox!CommitOpen,
         Outbox!OpensAreCounted
    <2>6. /\ new.opens = opens[m] + 1 /\ new.kind = box[m].kind /\ new.text = box[m].text
          /\ opens'[m] = opens[m] + 1 /\ \A k \in Letters \ {m} : opens'[k] = opens[k]
      BY <2>1, <2>2, <2>3, <2>4, <2>5, RowOf DEF Outbox!Opened, Outbox!Columns, BoxInv, BoxTyped, Outbox!TypeOK
    <2>7. new \in Outbox(s)!Columns
      BY <1>4, <2>3, OpenedTyped
    <2>8. box[m].kind = "sent" => mailed[box[m].text] # None /\ mailed[box[m].text].row = m
      BY <2>5 DEF InTurn, Outbox!SentShowsWhatWasSent
    <2> QED BY <2>1, <2>2, <2>4, <2>5, <2>6, <2>7, <2>8, CommitInTurn
  <1>5. ASSUME NEW r \in Clients, Outbox(s)!Fail(r) PROVE FALSE
    BY <1>5 DEF InOrder, Outbox!Fail
  <1>6. CASE Outbox(s)!Finished \/ UNCHANGED boxVars
    <2>1. UNCHANGED <<box, opens, mailed, sends>>
      BY <1>6 DEF Outbox!Finished, Outbox!vars, boxVars
    <2>2. Alone' /\ UpToDate' /\ MailedShown'
      BY <2>1 DEF InTurn, Alone, UpToDate, MailedShown, Working
    <2>3. (Outbox(s)!SentShowsWhatWasSent /\ Outbox(s)!DraftSentOnce /\ Outbox(s)!OpensAreCounted)'
      BY <2>1 DEF InTurn, Outbox!SentShowsWhatWasSent, Outbox!DraftSentOnce, Outbox!OpensAreCounted
    <2> QED BY <2>2, <2>3 DEF InTurn
  <1> QED BY <1>1, <1>2, <1>3, <1>4, <1>5, <1>6, SmtpInTurn DEF Outbox!Next

(* On the desk: a setting differs from another in what may happen, not in     *)
(* what a state is.                                                           *)
LEMMA SameBox == ASSUME NEW s, NEW z, BoxInv(s) PROVE BoxInv(z)
PROOF
  <1>1. BoxTyped(z)
    BY DEF BoxInv, BoxTyped, Outbox!TypeOK, Outbox!Columns, Outbox!Kinds, Outbox!Handed, Outbox!Tasks,
       Outbox!Jobs, Outbox!Cardinality
  <1>2. Outbox(z)!TokensAreMailed /\ Outbox(z)!OpensAreAudited
    BY DEF BoxInv, Outbox!TokensAreMailed, Outbox!OpensAreAudited
  <1> QED BY <1>1, <1>2 DEF BoxInv

LEMMA SameBoxNext == ASSUME NEW s, NEW z, BoxInv(s)' PROVE BoxInv(z)'
PROOF
  <1>1. BoxTyped(z)'
    BY DEF BoxInv, BoxTyped, Outbox!TypeOK, Outbox!Columns, Outbox!Kinds, Outbox!Handed, Outbox!Tasks,
       Outbox!Jobs, Outbox!Cardinality
  <1>2. (Outbox(z)!TokensAreMailed /\ Outbox(z)!OpensAreAudited)'
    BY DEF BoxInv, Outbox!TokensAreMailed, Outbox!OpensAreAudited
  <1> QED BY <1>1, <1>2 DEF BoxInv

LEMMA BoxAssumptions == BoxAssumption("together") /\ BoxAssumption("in order")
PROOF
  <1>1. "together" \in {"together", "in order"} /\ "in order" \in {"together", "in order"}
    OBVIOUS
  <1> QED BY <1>1, DeskAssumption, Zenon DEF DeskAssumption, BoxAssumption

OnTheDesk == BoxInv("together") /\ (desk = "outbox in order" => InTurn("in order"))

LEMMA OnTheDeskFirst == DeskInit => OnTheDesk
PROOF
  <1> SUFFICES ASSUME DeskInit PROVE OnTheDesk
    OBVIOUS
  <1>1. Outbox("in order")!Init
    BY DEF DeskInit
  <1>2. BoxInv("in order")
    BY <1>1, BoxAssumptions, BoxInit, Zenon
  <1>3. InTurn("in order")
    BY <1>1, InTurnInit, Zenon
  <1>4. BoxInv("together")
    BY <1>2, SameBox, Zenon
  <1> QED BY <1>3, <1>4, Zenon DEF OnTheDesk

(* What the desk does, the outbox takes as a step of its own or not at all.   *)
LEMMA OutboxSteps ==
  ASSUME [DeskNext]_deskVars
  PROVE  /\ desk' = desk
         /\ \/ UNCHANGED boxVars
            \/ desk = "outbox" /\ Outbox("together")!Next
            \/ desk = "outbox in order" /\ Outbox("in order")!Next
PROOF
  BY Zenon DEF DeskNext, deskVars, TwoBoxesStep, OneBoxStep, SentStep, OutboxStep, ViewsStep, StoreStep

LEMMA OnTheDeskStays == ASSUME OnTheDesk, [DeskNext]_deskVars PROVE OnTheDesk'
PROOF
  <1>0. BoxInv("together") /\ BoxInv("in order") /\ (desk = "outbox in order" => InTurn("in order"))
    BY SameBox, Zenon DEF OnTheDesk
  <1>1. desk' = desk
    BY OutboxSteps
  <1>2. CASE UNCHANGED boxVars
    <2>1. BoxInv("together")'
      BY <1>0, <1>2, BoxAssumptions, BoxStep, Zenon
    <2>2. desk = "outbox in order" => InTurn("in order")'
      BY <1>0, <1>2, BoxAssumptions, InTurnStep, Zenon DEF InOrder
    <2> QED BY <1>1, <2>1, <2>2, Zenon DEF OnTheDesk
  <1>3. CASE desk = "outbox" /\ Outbox("together")!Next
    <2>1. BoxInv("together")'
      BY <1>0, <1>3, BoxAssumptions, BoxStep, Zenon
    <2>2. desk' # "outbox in order"
      BY <1>1, <1>3
    <2> QED BY <2>1, <2>2, Zenon DEF OnTheDesk
  <1>4. CASE desk = "outbox in order" /\ Outbox("in order")!Next
    <2>1. BoxInv("in order")'
      BY <1>0, <1>4, BoxAssumptions, BoxStep, Zenon
    <2>2. InTurn("in order")'
      BY <1>0, <1>4, BoxAssumptions, InTurnStep, Zenon DEF InOrder
    <2>3. BoxInv("together")'
      BY <2>1, SameBoxNext, Zenon
    <2> QED BY <2>2, <2>3, Zenon DEF OnTheDesk
  <1> QED BY <1>2, <1>3, <1>4, OutboxSteps, Zenon

(* However saves, sends and opens overlap and fail: tokens in rows were mailed*)
(* and no open is counted that was not audited.  One request after another:   *)
(* the archive shows what was mailed, a draft is mailed once, and every open  *)
(* is counted.  For any mails and any finite set of requests.                 *)
THEOREM OutboxTellsTheTruth == DeskSpec => []OutboxIsTrue
PROOF
  <1>1. OnTheDesk => OutboxIsTrue
    BY Zenon DEF OnTheDesk, BoxInv, BoxTyped, InTurn, OutboxIsTrue
  <1>2. OnTheDesk /\ [DeskNext]_deskVars => OnTheDesk'
    BY OnTheDeskStays
  <1> QED BY <1>1, <1>2, OnTheDeskFirst, PTL DEF DeskSpec

(* However they overlap and fail, a sent mail never becomes a draft again.    *)
THEOREM SentIsForGood == DeskSpec => SentForGood
PROOF
  <1>1. OnTheDesk /\ [DeskNext]_deskVars => [Outbox("together")!SentStays]_deskVars
    <2> SUFFICES ASSUME OnTheDesk, [DeskNext]_deskVars PROVE Outbox("together")!SentStays
      OBVIOUS
    <2>0. BoxInv("together") /\ BoxInv("in order")
      BY SameBox, Zenon DEF OnTheDesk
    <2>1. ASSUME Outbox("in order")!SentStays PROVE Outbox("together")!SentStays
      BY <2>1 DEF Outbox!SentStays
    <2> QED BY <2>0, <2>1, BoxAssumptions, SentStaysSent, OutboxSteps, Zenon
  <1>2. OnTheDesk /\ [DeskNext]_deskVars => OnTheDesk'
    BY OnTheDeskStays
  <1> QED BY <1>1, <1>2, OnTheDeskFirst, PTL DEF DeskSpec, SentForGood
-----------------------------------------------------------------------------
(* The views of the mail center.  What they list follows from the types, and  *)
(* from drafts being drafts; a bulk update loads messages that are never lost.    *)
ViewsInv ==
  /\ Views!TypeOK /\ Views!DraftsAreDrafts /\ Views!FiledSomewhere
  /\ filing # None => \A m \in filing.msgs : mail[m] # None

Before == OpToRel(<, Nat)

LEMMA LeastOf ==
  ASSUME NEW S \in SUBSET Nat, S # {}
  PROVE  Views!FirstOf(S) \in S
PROOF
  <1>1. IsWellFoundedOn(Before, Nat)
    BY NatLessThanWellFounded, Zenon DEF Before
  <1>2. PICK f \in S : \A g \in S : ~ (<<g, f>> \in Before)
    BY <1>1, WFMin
  <1>3. Before = {ss \in Nat \X Nat : ss[1] < ss[2]}
    BY Zenon DEF Before, OpToRel
  <1>4. ASSUME NEW g \in S PROVE ~ (g < f)
    <2>1. f \in Nat /\ g \in Nat /\ <<g, f>> \notin Before
      BY <1>2
    <2> QED BY <1>3, <2>1
  <1>5. \A g \in S : f \in Nat /\ g \in Nat /\ ~ (g < f)
    BY <1>4
  <1>6. \A g \in S : f <= g
    BY <1>5
  <1> QED BY <1>6 DEF Views!FirstOf

(* The folder an imported message is filed in.                                *)
LEMMA ImportedIn ==
  ASSUME Views!ViewsAssumption, Views!TypeOK, NEW c \in Addressed \cup {None}
  PROVE  LET f == Views!FirstOf(Views!Matching(c))
         IN f \in Folders \cup {None} /\ (f # None => folder[f] # None)
PROOF
  <1>1. CASE Views!Matching(c) = {}
    BY <1>1 DEF Views!FirstOf
  <1>2. CASE Views!Matching(c) # {}
    <2>1. Views!Matching(c) \subseteq Folders /\ Folders \subseteq Nat
      BY DEF Views!Matching, Views!ViewsAssumption
    <2>2. Views!FirstOf(Views!Matching(c)) \in Views!Matching(c)
      BY <1>2, <2>1, LeastOf
    <2> QED BY <2>1, <2>2 DEF Views!Matching
  <1> QED BY <1>1, <1>2

(* A message of one place and one draft flag, filed nowhere or in a folder    *)
(* that exists.                                                               *)
Proper(x, f) ==
  /\ x \in Views!MailStates
  /\ (x.place = "drafts" <=> x.draft = TRUE) /\ (x.place = "inbox" <=> x.direction = "incoming")
  /\ x.filed = None \/ f[x.filed] # None

LEMMA ViewsInvIs ==
  ASSUME Views!ViewsAssumption
  PROVE  ViewsInv <=> /\ Views!TypeOK
                      /\ filing # None => \A m \in filing.msgs : mail[m] # None
                      /\ \A m \in Received : mail[m] # None => Proper(mail[m], folder)
  BY DEF ViewsInv, Proper, Views!TypeOK, Views!DraftsAreDrafts, Views!FiledSomewhere, Views!Exists, Views!IsTrue,
     Views!ViewsAssumption

(* A step that loses no message, and leaves those it writes proper, keeps the *)
(* invariant.                                                                 *)
LEMMA ProperKeeps ==
  ASSUME Views!ViewsAssumption, ViewsInv,
         folder' \in [Folders -> (SUBSET Addressed) \cup {None}], owner' \in [Addressed -> Users],
         \/ filing' \in {filing, None}
         \/ /\ filing' \in [msgs : SUBSET Received, to : Folders]
            /\ \A m \in filing'.msgs : mail[m] # None,
         mail' = [m \in Received |-> mail'[m]],
         \A m \in Received : (mail[m] = None /\ mail'[m] = None) \/ Proper(mail'[m], folder')
  PROVE  ViewsInv'
PROOF
  <1>1. Views!TypeOK'
    BY DEF Views!TypeOK, Proper, ViewsInv
  <1>2. ASSUME NEW m \in Received, mail[m] # None PROVE mail'[m] # None
    BY <1>2 DEF Proper, Views!ViewsAssumption
  <1>3. filing' # None => filing'.msgs \in SUBSET Received /\ \A m \in filing'.msgs : mail[m] # None
    BY DEF ViewsInv, Views!TypeOK
  <1> QED BY <1>1, <1>2, <1>3 DEF ViewsInv, Proper, Views!DraftsAreDrafts, Views!FiledSomewhere, Views!Exists, Views!IsTrue

LEMMA ViewsFirst == ASSUME Views!ViewsAssumption, Views!Init PROVE ViewsInv
PROOF
  <1>1. Views!TypeOK
    BY DEF Views!Init, Views!TypeOK, Views!OldMails
  <1>2. ASSUME NEW m \in Received, mail[m] # None PROVE Proper(mail[m], folder)
    BY <1>2 DEF Views!Init, Views!OldMails, Proper, Views!MailStates, Views!ViewsAssumption
  <1> QED BY <1>1, <1>2, ViewsInvIs DEF Views!Init

LEMMA ViewsStep_Import ==
  ASSUME Views!ViewsAssumption, ViewsInv, NEW m \in Received, Views!Import(m)
  PROVE  ViewsInv'
PROOF
  <1>1. PICK c \in Addressed \cup {None}, where \in {<<"inbox", "incoming">>, <<"sent", "outgoing">>}, read \in BOOLEAN :
          mail' = [mail EXCEPT ![m] =
            [place |-> where[1], direction |-> where[2], customer |-> c, creator |-> None,
             read |-> read, starred |-> FALSE, draft |-> FALSE, deleted |-> FALSE,
             filed |-> Views!FirstOf(Views!Matching(c))]]
    BY DEF Views!Import
  <1>2. PICK f \in Folders \cup {None} : f = Views!FirstOf(Views!Matching(c)) /\ (f # None => folder[f] # None)
    BY ImportedIn DEF ViewsInv
  <1>3. Proper([place |-> where[1], direction |-> where[2], customer |-> c, creator |-> None,
                read |-> read, starred |-> FALSE, draft |-> FALSE, deleted |-> FALSE, filed |-> f], folder)
    BY <1>2 DEF Proper, Views!MailStates, Views!Flags
  <1>4. \A k \in Received : (mail[k] = None /\ mail'[k] = None) \/ Proper(mail'[k], folder')
    BY <1>1, <1>2, <1>3, ViewsInvIs DEF Views!Import, Views!TypeOK
  <1> QED BY <1>1, <1>4, ProperKeeps DEF ViewsInv, Views!TypeOK, Views!Import

(* What a user writes; a draft saved again stays in its custom folder.        *)
LEMMA WrittenIsProper ==
  ASSUME Views!ViewsAssumption, ViewsInv, NEW u \in Users, NEW c \in Addressed \cup {None}, NEW m \in Received,
         NEW isDraft \in BOOLEAN
  PROVE  /\ Proper(Views!Outgoing(u, c, isDraft), folder)
         /\ mail[m] # None => Proper(Views!Again(u, c, m, isDraft), folder)
PROOF
  <1>1. Proper(Views!Outgoing(u, c, isDraft), folder)
    BY DEF Proper, Views!Outgoing, Views!MailStates, Views!Flags
  <1>2. ASSUME mail[m] # None PROVE Proper(Views!Again(u, c, m, isDraft), folder)
    <2>1. Proper(mail[m], folder)
      BY <1>2, ViewsInvIs
    <2>2. mail[m].starred \in Views!Flags /\ mail[m].filed \in Folders \cup {None}
          /\ (mail[m].filed = None \/ folder[mail[m].filed] # None)
      BY <2>1 DEF Proper, Views!MailStates
    <2>3. PICK x, y : /\ x = Views!Outgoing(u, c, isDraft) /\ x \in Views!MailStates
                      /\ y = IF isDraft THEN mail[m].filed ELSE None
      BY <1>1 DEF Proper
    <2>4. Views!Again(u, c, m, isDraft) = [x EXCEPT !.starred = mail[m].starred, !.filed = y]
      BY <2>3 DEF Views!Again
    <2>5. Proper(x, folder) /\ y \in Folders \cup {None} /\ (y = None \/ folder[y] # None)
      BY <1>1, <2>2, <2>3
    <2>6. Proper([x EXCEPT !.starred = mail[m].starred, !.filed = y], folder)
      BY <2>2, <2>3, <2>5 DEF Proper, Views!MailStates
    <2> QED BY <2>4, <2>6
  <1> QED BY <1>1, <1>2

LEMMA ViewsStep_Write ==
  ASSUME Views!ViewsAssumption, ViewsInv, NEW u \in Users, NEW m \in Received, NEW isDraft \in BOOLEAN,
         Views!Compose(u, m, isDraft) \/ Views!WriteDraft(u, m, isDraft)
  PROVE  ViewsInv'
PROOF
  <1>1. PICK x : mail' = [mail EXCEPT ![m] = x] /\ Proper(x, folder)
    BY WrittenIsProper DEF Views!Compose, Views!WriteDraft, Views!Exists
  <1>2. UNCHANGED <<folder, owner, filing>>
    BY DEF Views!Compose, Views!WriteDraft
  <1>3. \A k \in Received : (mail[k] = None /\ mail'[k] = None) \/ Proper(mail'[k], folder')
    BY <1>1, <1>2, ViewsInvIs DEF Views!TypeOK
  <1> QED BY <1>1, <1>2, <1>3, ProperKeeps DEF ViewsInv, Views!TypeOK

LEMMA ViewsStep_Mark ==
  ASSUME Views!ViewsAssumption, ViewsInv, NEW u \in Users, NEW S \in SUBSET Received, Views!Mark(u, S)
  PROVE  ViewsInv'
PROOF
  <1>1. UNCHANGED <<folder, owner, filing>>
    BY DEF Views!Mark
  <1>2. PICK b \in BOOLEAN :
          \/ mail' = [m \in Received |-> IF m \in S THEN [mail[m] EXCEPT !.read = b] ELSE mail[m]]
          \/ mail' = [m \in Received |-> IF m \in S THEN [mail[m] EXCEPT !.starred = b] ELSE mail[m]]
          \/ mail' = [m \in Received |-> IF m \in S THEN [mail[m] EXCEPT !.deleted = b] ELSE mail[m]]
          \/ mail' = [m \in Received |-> IF m \in S THEN [mail[m] EXCEPT !.filed = None] ELSE mail[m]]
    BY DEF Views!Mark, Views!Patched
  <1>3. ASSUME NEW m \in Received PROVE (mail[m] = None /\ mail'[m] = None) \/ Proper(mail'[m], folder')
    <2>1. CASE m \notin S
      BY <1>1, <1>2, <2>1, ViewsInvIs DEF Views!TypeOK
    <2>2. CASE m \in S
      <3>1. Proper(mail[m], folder)
        BY <2>2, ViewsInvIs DEF Views!Mark, Views!Bulk, Views!Exists
      <3>2. /\ Proper([mail[m] EXCEPT !.read = b], folder) /\ Proper([mail[m] EXCEPT !.starred = b], folder)
            /\ Proper([mail[m] EXCEPT !.deleted = b], folder) /\ Proper([mail[m] EXCEPT !.filed = None], folder)
        BY <3>1 DEF Proper, Views!MailStates, Views!Flags
      <3> QED BY <1>1, <1>2, <2>2, <3>2
    <2> QED BY <2>1, <2>2
  <1> QED BY <1>1, <1>2, <1>3, ProperKeeps DEF ViewsInv, Views!TypeOK

(* A bulk update into a folder finds it there or changes nothing.             *)
LEMMA ViewsStep_CommitFiling ==
  ASSUME Views!ViewsAssumption, ViewsInv, Views!CommitFiling
  PROVE  ViewsInv'
PROOF
  <1>1. /\ UNCHANGED <<folder, owner>> /\ filing' = None
        /\ filing.msgs \in SUBSET Received /\ filing.to \in Folders
    BY DEF Views!CommitFiling, ViewsInv, Views!TypeOK
  <1>2. CASE folder[filing.to] # None
    <2>1. mail' = [m \in Received |-> IF m \in filing.msgs THEN [mail[m] EXCEPT !.filed = filing.to] ELSE mail[m]]
      BY <1>2 DEF Views!CommitFiling, Views!FolderThere, Views!Patched
    <2>2. ASSUME NEW m \in Received PROVE (mail[m] = None /\ mail'[m] = None) \/ Proper(mail'[m], folder')
      <3>1. CASE m \notin filing.msgs
        BY <1>1, <2>1, <3>1, ViewsInvIs
      <3>2. CASE m \in filing.msgs
        <4>1. Proper(mail[m], folder)
          BY <3>2, ViewsInvIs DEF Views!CommitFiling
        <4>2. Proper([mail[m] EXCEPT !.filed = filing.to], folder)
          BY <1>1, <1>2, <4>1 DEF Proper, Views!MailStates
        <4> QED BY <1>1, <2>1, <3>2, <4>2
      <3> QED BY <3>1, <3>2
    <2> QED BY <1>1, <2>1, <2>2, ProperKeeps DEF ViewsInv, Views!TypeOK
  <1>3. CASE folder[filing.to] = None
    <2>1. UNCHANGED mail
      BY <1>3 DEF Views!CommitFiling, Views!FolderThere
    <2> QED BY <1>1, <2>1, ProperKeeps, ViewsInvIs DEF ViewsInv, Views!TypeOK
  <1> QED BY <1>2, <1>3

(* Deleting a folder takes every message out of it.                           *)
LEMMA ViewsStep_Folder ==
  ASSUME Views!ViewsAssumption, ViewsInv, NEW f \in Folders, Views!SaveFolder(f) \/ Views!DeleteFolder(f)
  PROVE  ViewsInv'
PROOF
  <1>1. UNCHANGED <<owner, filing>> /\ folder' \in [Folders -> (SUBSET Addressed) \cup {None}]
    BY DEF Views!SaveFolder, Views!DeleteFolder, ViewsInv, Views!TypeOK
  <1>2. CASE Views!SaveFolder(f)
    <2>1. UNCHANGED mail /\ \A g \in Folders : folder[g] # None => folder'[g] # None
      BY <1>2 DEF Views!SaveFolder, Views!ViewsAssumption, ViewsInv, Views!TypeOK
    <2>2. ASSUME NEW m \in Received, mail[m] # None PROVE Proper(mail[m], folder')
      <3>1. Proper(mail[m], folder)
        BY <2>2, ViewsInvIs
      <3> QED BY <2>1, <3>1 DEF Proper, Views!MailStates
    <2> QED BY <1>1, <2>1, <2>2, ProperKeeps DEF ViewsInv, Views!TypeOK
  <1>3. CASE Views!DeleteFolder(f)
    <2>1. /\ mail' = [m \in Received |-> Views!Unfiled(mail[m], f)]
          /\ \A g \in Folders : g # f /\ folder[g] # None => folder'[g] # None
      BY <1>3 DEF Views!DeleteFolder, ViewsInv, Views!TypeOK
    <2>2. ASSUME NEW m \in Received PROVE (mail[m] = None /\ mail'[m] = None) \/ Proper(mail'[m], folder')
      <3>0. mail'[m] = Views!Unfiled(mail[m], f)
        BY <2>1
      <3>1. CASE mail[m] = None
        BY <3>0, <3>1 DEF Views!Unfiled
      <3>2. CASE mail[m] # None /\ mail[m].filed = f
        <4>1. Proper(mail[m], folder) /\ mail'[m] = [mail[m] EXCEPT !.filed = None]
          BY <3>0, <3>2, ViewsInvIs DEF Views!Unfiled
        <4>2. Proper([mail[m] EXCEPT !.filed = None], folder')
          BY <4>1 DEF Proper, Views!MailStates
        <4> QED BY <4>1, <4>2
      <3>3. CASE mail[m] # None /\ mail[m].filed # f
        <4>1. Proper(mail[m], folder) /\ mail'[m] = mail[m]
          BY <3>0, <3>3, ViewsInvIs DEF Views!Unfiled
        <4> QED BY <2>1, <3>3, <4>1 DEF Proper, Views!MailStates
      <3> QED BY <3>1, <3>2, <3>3
    <2> QED BY <1>1, <2>1, <2>2, ProperKeeps DEF ViewsInv, Views!TypeOK
  <1> QED BY <1>2, <1>3

LEMMA ViewsKept ==
  ASSUME Views!ViewsAssumption, ViewsInv, Views!Next \/ UNCHANGED viewVars
  PROVE  ViewsInv'
PROOF
  <1>1. ASSUME NEW u \in Users, NEW S \in SUBSET Received, NEW f \in Folders, Views!StartFiling(u, S, f)
        PROVE  ViewsInv'
    <2>1. /\ UNCHANGED <<mail, folder, owner>> /\ filing' \in [msgs : SUBSET Received, to : Folders]
          /\ \A m \in filing'.msgs : mail[m] # None
      BY <1>1 DEF Views!StartFiling, Views!Bulk, Views!Exists
    <2> QED BY <2>1, ProperKeeps, ViewsInvIs DEF ViewsInv, Views!TypeOK
  <1>2. ASSUME NEW c \in Addressed, NEW u \in Users, Views!Reassign(c, u) PROVE ViewsInv'
    <2>1. UNCHANGED <<mail, folder, filing>> /\ owner' \in [Addressed -> Users]
      BY <1>2 DEF Views!Reassign, ViewsInv, Views!TypeOK
    <2> QED BY <2>1, ProperKeeps, ViewsInvIs DEF ViewsInv, Views!TypeOK
  <1>3. CASE UNCHANGED viewVars
    BY <1>3, ProperKeeps, ViewsInvIs DEF viewVars, ViewsInv, Views!TypeOK
  <1> QED BY <1>1, <1>2, <1>3, ViewsStep_Import, ViewsStep_Write, ViewsStep_Mark, ViewsStep_CommitFiling,
             ViewsStep_Folder DEF Views!Next

(* A badge and the list it opens are one set of messages, view by view.       *)
LEMMA PlaceBadge ==
  ASSUME NEW u \in Users, NEW view \in {"inbox", "sent"}
  PROVE  Views!BadgeOf(u, view) = Views!Cardinality(Views!Listed(u, view))
PROOF
  <1> DEFINE S == {m \in Received : /\ Views!Exists(m) /\ Views!Selected(u, m)
                                    /\ mail[m].place = view /\ Views!Counted(m) /\ Views!IsNotTrue(mail[m].draft)}
  <1>1. S = Views!Listed(u, view)
    BY DEF Views!Listed, Views!Counted
  <1>2. Views!BadgeOf(u, view) = Views!Cardinality(S)
    BY DEF Views!BadgeOf, Views!SumOf
  <1> QED BY <1>1, <1>2, Zenon

LEMMA UnreadBadge ==
  ASSUME NEW u \in Users
  PROVE  Views!BadgeOf(u, "unread") = Views!Cardinality(Views!Listed(u, "unread"))
PROOF
  <1> DEFINE S == {m \in Received : /\ Views!Exists(m) /\ Views!Selected(u, m)
                                    /\ mail[m].direction = "incoming" /\ ~ mail[m].read /\ Views!Counted(m)}
  <1>1. S = Views!Listed(u, "unread")
    BY DEF Views!Listed, Views!Counted
  <1>2. Views!BadgeOf(u, "unread") = Views!Cardinality(S)
    BY DEF Views!BadgeOf, Views!SumOf
  <1> QED BY <1>1, <1>2, Zenon

LEMMA DraftsBadge ==
  ASSUME NEW u \in Users
  PROVE  Views!BadgeOf(u, "drafts") = Views!Cardinality(Views!Listed(u, "drafts"))
PROOF
  <1> DEFINE S == {m \in Received : /\ Views!Exists(m) /\ Views!Selected(u, m)
                                    /\ Views!IsTrue(mail[m].draft) /\ Views!Counted(m)}
  <1>1. S = Views!Listed(u, "drafts")
    BY DEF Views!Listed, Views!Counted
  <1>2. Views!BadgeOf(u, "drafts") = Views!Cardinality(S)
    BY DEF Views!BadgeOf, Views!SumOf
  <1> QED BY <1>1, <1>2, Zenon

LEMMA StarredBadge ==
  ASSUME NEW u \in Users
  PROVE  Views!BadgeOf(u, "starred") = Views!Cardinality(Views!Listed(u, "starred"))
PROOF
  <1> DEFINE S == {m \in Received : /\ Views!Exists(m) /\ Views!Selected(u, m)
                                    /\ Views!IsTrue(mail[m].starred) /\ Views!Counted(m)}
  <1>1. S = Views!Listed(u, "starred")
    BY DEF Views!Listed, Views!Counted
  <1>2. Views!BadgeOf(u, "starred") = Views!Cardinality(S)
    BY DEF Views!BadgeOf, Views!SumOf
  <1> QED BY <1>1, <1>2, Zenon

LEMMA FolderBadges ==
  ASSUME NEW u \in Users, NEW f \in Folders
  PROVE  Views!FolderBadge(u, f) = Views!Cardinality(Views!ListedIn(u, f))
PROOF
  <1> DEFINE S == {m \in Received : /\ Views!Exists(m) /\ Views!Selected(u, m)
                                    /\ mail[m].filed = f /\ Views!Counted(m)}
  <1>1. S = Views!ListedIn(u, f)
    BY DEF Views!ListedIn, Views!Listed, Views!Counted
  <1>2. Views!FolderBadge(u, f) = Views!Cardinality(S)
    BY DEF Views!FolderBadge, Views!SumOf
  <1> QED BY <1>1, <1>2, Zenon

LEMMA BadgesAgree == Views!BadgesMatchLists
PROOF
  <1>1. ASSUME NEW u \in Users, NEW view \in Views!Views \ {"all"}
        PROVE  Views!BadgeOf(u, view) = Views!Cardinality(Views!Listed(u, view))
    <2>1. view \in {"inbox", "sent"} \/ view = "unread" \/ view = "drafts" \/ view = "starred"
      BY DEF Views!Views
    <2> QED BY <2>1, PlaceBadge, UnreadBadge, DraftsBadge, StarredBadge, Zenon
  <1> QED BY <1>1, FolderBadges, Zenon DEF Views!BadgesMatchLists

(* The filter of the query is the check of a single message.                  *)
LEMMA FilterIsCheck == Views!ListedIsReadable
  BY DEF Views!ListedIsReadable, Views!Listed, Views!Selected, Views!MayRead, Views!CustomersOf, Views!IsNotTrue

LEMMA ViewsSteps ==
  ASSUME [DeskNext]_deskVars
  PROVE  Views!Next \/ UNCHANGED viewVars
  BY Zenon DEF DeskNext, deskVars, TwoBoxesStep, OneBoxStep, SentStep, OutboxStep, ViewsStep, StoreStep

(* Every badge is the length of its list, every listed message may be opened  *)
(* and no other, drafts are only drafts, and messages are filed in folders    *)
(* that exist: for any messages, customers, users and folders.                *)
THEOREM ViewsAlwaysAgree == DeskSpec => []ViewsAgree
PROOF
  <1>1. Views!ViewsAssumption
    BY DeskAssumption DEF DeskAssumption
  <1>2. DeskInit => ViewsInv
    BY <1>1, ViewsFirst DEF DeskInit
  <1>3. ViewsInv /\ [DeskNext]_deskVars => ViewsInv'
    BY <1>1, ViewsKept, ViewsSteps
  <1>4. ViewsInv => ViewsAgree
    BY BadgesAgree, FilterIsCheck DEF ViewsInv, ViewsAgree
  <1> QED BY <1>2, <1>3, <1>4, PTL DEF DeskSpec
-----------------------------------------------------------------------------
(* The attachment store in its three settings: what the desk's parts do is    *)
(* what the component's proofs are about.                                     *)
KeptTogether == INSTANCE AttachmentStoreProofs WITH
  Files <- Clients, FollowUps <- Calls, Emails <- Received, Requests <- Clients,
  OneAtATime <- FALSE, MayFail <- TRUE, MayLie <- FALSE, row <- file, req <- uploads
KeptLying == INSTANCE AttachmentStoreProofs WITH
  Files <- Clients, FollowUps <- Calls, Emails <- Received, Requests <- Clients,
  OneAtATime <- FALSE, MayFail <- TRUE, MayLie <- TRUE, row <- file, req <- uploads
KeptInOrder == INSTANCE AttachmentStoreProofs WITH
  Files <- Clients, FollowUps <- Calls, Emails <- {}, Requests <- Clients,
  OneAtATime <- TRUE, MayFail <- FALSE, MayLie <- FALSE, row <- file, req <- uploads

LEMMA TogetherSteps == StoreTogether!Next => KeptTogether!Next
  BY DEF
      StoreTogether!Next, StoreTogether!StartUpload, StoreTogether!PutBlob, StoreTogether!CommitRow,
      StoreTogether!UploadFails, StoreTogether!PutTimesOut, StoreTogether!CommitReportedFailed,
      StoreTogether!Undo, StoreTogether!StartDelete, StoreTogether!DeleteRow, StoreTogether!StartDeleteParent,
      StoreTogether!DeleteParent, StoreTogether!DeleteBlob, StoreTogether!Abandon, StoreTogether!Finished,
      StoreTogether!vars, StoreTogether!Active, StoreTogether!MayStart, StoreTogether!Begin, StoreTogether!Goto,
      StoreTogether!End, StoreTogether!RowsOf, StoreTogether!TheFile, StoreTogether!Unused,
      StoreTogether!OnError, StoreTogether!OneBlob, StoreTogether!NoTask, StoreTogether!Parents,
      KeptTogether!Next, KeptTogether!StartUpload, KeptTogether!PutBlob, KeptTogether!CommitRow,
      KeptTogether!UploadFails, KeptTogether!PutTimesOut, KeptTogether!CommitReportedFailed, KeptTogether!Undo,
      KeptTogether!StartDelete, KeptTogether!DeleteRow, KeptTogether!StartDeleteParent,
      KeptTogether!DeleteParent, KeptTogether!DeleteBlob, KeptTogether!Abandon, KeptTogether!Finished,
      KeptTogether!vars, KeptTogether!Active, KeptTogether!MayStart, KeptTogether!Begin, KeptTogether!Goto,
      KeptTogether!End, KeptTogether!RowsOf, KeptTogether!TheFile, KeptTogether!Unused, KeptTogether!OnError,
      KeptTogether!OneBlob, KeptTogether!NoTask, KeptTogether!Parents

LEMMA LyingSteps == StoreLying!Next => KeptLying!Next
  BY DEF
      StoreLying!Next, StoreLying!StartUpload, StoreLying!PutBlob, StoreLying!CommitRow, StoreLying!UploadFails,
      StoreLying!PutTimesOut, StoreLying!CommitReportedFailed, StoreLying!Undo, StoreLying!StartDelete,
      StoreLying!DeleteRow, StoreLying!StartDeleteParent, StoreLying!DeleteParent, StoreLying!DeleteBlob,
      StoreLying!Abandon, StoreLying!Finished, StoreLying!vars, StoreLying!Active, StoreLying!MayStart,
      StoreLying!Begin, StoreLying!Goto, StoreLying!End, StoreLying!RowsOf, StoreLying!TheFile,
      StoreLying!Unused, StoreLying!OnError, StoreLying!OneBlob, StoreLying!NoTask, StoreLying!Parents,
      KeptLying!Next, KeptLying!StartUpload, KeptLying!PutBlob, KeptLying!CommitRow, KeptLying!UploadFails,
      KeptLying!PutTimesOut, KeptLying!CommitReportedFailed, KeptLying!Undo, KeptLying!StartDelete,
      KeptLying!DeleteRow, KeptLying!StartDeleteParent, KeptLying!DeleteParent, KeptLying!DeleteBlob,
      KeptLying!Abandon, KeptLying!Finished, KeptLying!vars, KeptLying!Active, KeptLying!MayStart,
      KeptLying!Begin, KeptLying!Goto, KeptLying!End, KeptLying!RowsOf, KeptLying!TheFile, KeptLying!Unused,
      KeptLying!OnError, KeptLying!OneBlob, KeptLying!NoTask, KeptLying!Parents

LEMMA InOrderSteps == StoreInOrder!Next => KeptInOrder!Next
  BY DEF
      StoreInOrder!Next, StoreInOrder!StartUpload, StoreInOrder!PutBlob, StoreInOrder!CommitRow,
      StoreInOrder!UploadFails, StoreInOrder!PutTimesOut, StoreInOrder!CommitReportedFailed, StoreInOrder!Undo,
      StoreInOrder!StartDelete, StoreInOrder!DeleteRow, StoreInOrder!StartDeleteParent,
      StoreInOrder!DeleteParent, StoreInOrder!DeleteBlob, StoreInOrder!Abandon, StoreInOrder!Finished,
      StoreInOrder!vars, StoreInOrder!Active, StoreInOrder!MayStart, StoreInOrder!Begin, StoreInOrder!Goto,
      StoreInOrder!End, StoreInOrder!RowsOf, StoreInOrder!TheFile, StoreInOrder!Unused, StoreInOrder!OnError,
      StoreInOrder!OneBlob, StoreInOrder!NoTask, StoreInOrder!Parents,
      KeptInOrder!Next, KeptInOrder!StartUpload, KeptInOrder!PutBlob, KeptInOrder!CommitRow,
      KeptInOrder!UploadFails, KeptInOrder!PutTimesOut, KeptInOrder!CommitReportedFailed, KeptInOrder!Undo,
      KeptInOrder!StartDelete, KeptInOrder!DeleteRow, KeptInOrder!StartDeleteParent, KeptInOrder!DeleteParent,
      KeptInOrder!DeleteBlob, KeptInOrder!Abandon, KeptInOrder!Finished, KeptInOrder!vars, KeptInOrder!Active,
      KeptInOrder!MayStart, KeptInOrder!Begin, KeptInOrder!Goto, KeptInOrder!End, KeptInOrder!RowsOf,
      KeptInOrder!TheFile, KeptInOrder!Unused, KeptInOrder!OnError, KeptInOrder!OneBlob, KeptInOrder!NoTask,
      KeptInOrder!Parents

(* A setting in which less may happen keeps more.                             *)
LEMMA MoreThanLying ==
  (KeptTogether!IInv => KeptLying!IInv) /\ (KeptTogether!IInv' => KeptLying!IInv')
  BY DEF
      KeptTogether!IInv, KeptTogether!TypeOK, KeptTogether!UploadsOwn, KeptTogether!UndoneUnanswered,
      KeptTogether!DeletedHaveNoRow, KeptTogether!OneFile, KeptTogether!Kept, KeptTogether!Jobs,
      KeptTogether!Parents, KeptLying!IInv, KeptLying!TypeOK, KeptLying!UploadsOwn, KeptLying!UndoneUnanswered,
      KeptLying!DeletedHaveNoRow, KeptLying!OneFile, KeptLying!Kept, KeptLying!Jobs, KeptLying!Parents

LEMMA MoreThanTogether ==
  (KeptInOrder!IInv => KeptTogether!IInv) /\ (KeptInOrder!IInv' => KeptTogether!IInv')
  BY DEF
      KeptInOrder!IInv, KeptInOrder!TypeOK, KeptInOrder!UploadsOwn, KeptInOrder!UndoneUnanswered,
      KeptInOrder!DeletedHaveNoRow, KeptInOrder!OneFile, KeptInOrder!Kept, KeptInOrder!Jobs,
      KeptInOrder!Parents, KeptTogether!IInv, KeptTogether!TypeOK, KeptTogether!UploadsOwn,
      KeptTogether!UndoneUnanswered, KeptTogether!DeletedHaveNoRow, KeptTogether!OneFile, KeptTogether!Kept,
      KeptTogether!Jobs, KeptTogether!Parents

StoreKept ==
  /\ KeptLying!IInv
  /\ desk # "store lies" => KeptTogether!IInv
  /\ desk = "store in order" => KeptInOrder!IInv /\ KeptInOrder!Tidy

LEMMA StoreAssumptions ==
  KeptTogether!StoreAssumption /\ KeptLying!StoreAssumption /\ KeptInOrder!StoreAssumption
  BY DeskAssumption DEF DeskAssumption, StoreTogether!StoreAssumption, StoreLying!StoreAssumption,
     StoreInOrder!StoreAssumption, KeptTogether!StoreAssumption, KeptLying!StoreAssumption, KeptInOrder!StoreAssumption

LEMMA StoreFirst == ASSUME StoreInOrder!Init PROVE StoreKept
PROOF
  <1>1. KeptInOrder!Init
    BY DEF StoreInOrder!Init, StoreInOrder!NoTask, KeptInOrder!Init, KeptInOrder!NoTask
  <1>2. KeptInOrder!IInv /\ KeptInOrder!Tidy
    BY <1>1, StoreAssumptions, KeptInOrder!InitiallyIInv, KeptInOrder!TidyInit
  <1> QED BY <1>2, MoreThanLying, MoreThanTogether DEF StoreKept

LEMMA StoreSteps ==
  ASSUME [DeskNext]_deskVars
  PROVE  /\ desk' = desk
         /\ \/ UNCHANGED storeVars
            \/ desk = "store" /\ StoreTogether!Next
            \/ desk = "store in order" /\ StoreInOrder!Next
            \/ desk = "store lies" /\ StoreLying!Next
  BY Zenon DEF DeskNext, deskVars, TwoBoxesStep, OneBoxStep, SentStep, OutboxStep, ViewsStep, StoreStep

LEMMA StoreStays == ASSUME StoreKept, [DeskNext]_deskVars PROVE StoreKept'
PROOF
  <1>1. desk' = desk
    BY StoreSteps
  <1>2. CASE UNCHANGED storeVars
    <2>1. KeptLying!IInv'
      BY <1>2, StoreAssumptions, KeptLying!NextKeeps DEF StoreKept, storeVars, KeptLying!vars
    <2>2. desk # "store lies" => KeptTogether!IInv'
      BY <1>2, StoreAssumptions, KeptTogether!NextKeeps DEF StoreKept, storeVars, KeptTogether!vars
    <2>3. desk = "store in order" => KeptInOrder!IInv' /\ KeptInOrder!Tidy'
      BY <1>2, StoreAssumptions, KeptInOrder!NextKeeps, KeptInOrder!TidyNext
         DEF StoreKept, storeVars, KeptInOrder!vars, KeptInOrder!InTurn
    <2> QED BY <1>1, <2>1, <2>2, <2>3 DEF StoreKept
  <1>3. CASE desk = "store" /\ StoreTogether!Next
    <2>1. KeptTogether!IInv'
      BY <1>3, StoreAssumptions, TogetherSteps, KeptTogether!NextKeeps DEF StoreKept
    <2> QED BY <1>1, <1>3, <2>1, MoreThanLying DEF StoreKept
  <1>4. CASE desk = "store in order" /\ StoreInOrder!Next
    <2>1. KeptInOrder!IInv' /\ KeptInOrder!Tidy'
      BY <1>4, StoreAssumptions, InOrderSteps, KeptInOrder!NextKeeps, KeptInOrder!TidyNext
         DEF StoreKept, KeptInOrder!InTurn
    <2> QED BY <1>1, <2>1, MoreThanLying, MoreThanTogether DEF StoreKept
  <1>5. CASE desk = "store lies" /\ StoreLying!Next
    <2>1. KeptLying!IInv'
      BY <1>5, StoreAssumptions, LyingSteps, KeptLying!NextKeeps DEF StoreKept
    <2> QED BY <1>1, <1>5, <2>1 DEF StoreKept
  <1> QED BY <1>2, <1>3, <1>4, <1>5, StoreSteps

(* A listed attachment has its blob whatever overlaps or fails, an            *)
(* acknowledged one even when commits are reported wrongly, and requests on   *)
(* follow-ups, one after another without failures, leave no blob behind: for  *)
(* any files, follow-ups, e-mails and requests.                               *)
THEOREM AttachmentsAlwaysKept == DeskSpec => []AttachmentsKept
PROOF
  <1>1. DeskInit => StoreKept
    BY StoreFirst DEF DeskInit
  <1>2. StoreKept /\ [DeskNext]_deskVars => StoreKept'
    BY StoreStays
  <1>3. ASSUME StoreKept PROVE AttachmentsKept
    <2>1. StoreTogether!TypeOK
      BY <1>3 DEF StoreKept, KeptLying!IInv, KeptLying!TypeOK, KeptLying!Jobs, KeptLying!Parents,
         StoreTogether!TypeOK, StoreTogether!Jobs, StoreTogether!Parents
    <2>2. desk # "store lies" => StoreTogether!RowsHaveBlobs
      BY <1>3 DEF StoreKept, KeptTogether!IInv, KeptTogether!Kept, StoreTogether!RowsHaveBlobs
    <2>3. StoreTogether!AcknowledgedReadable
      BY <1>3 DEF StoreKept, KeptLying!IInv, KeptLying!TypeOK, KeptLying!Kept, StoreTogether!AcknowledgedReadable
    <2>4. desk = "store in order" => StoreTogether!NoOrphans
      BY <1>3, KeptInOrder!TidyLeavesNone DEF StoreKept, KeptInOrder!NoOrphans, KeptInOrder!Active,
         StoreTogether!NoOrphans, StoreTogether!Active
    <2> QED BY <2>1, <2>2, <2>3, <2>4 DEF AttachmentsKept
  <1> QED BY <1>1, <1>2, <1>3, PTL DEF DeskSpec
=============================================================================
