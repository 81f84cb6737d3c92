------------------------------ MODULE MailSync ------------------------------
(* sync_mailbox: the import of an IMAP account into email_messages, with one  *)
(* cursor per mailbox in mailbox_sync_states.  Cron and the manual button run *)
(* it on different instances; an advisory lock admits one of them at a time.  *)
(* The IMAP server is modelled from how the code uses it: UIDs grow within a  *)
(* generation (UIDVALIDITY), "n:*" always covers the highest UID, messages    *)
(* are expunged, and a rebuilt mailbox numbers its messages afresh.           *)
EXTENDS Integers, Sequences, FiniteSets

CONSTANTS
  Mails,      \* messages, by their Message-ID
  NoId,       \* those whose copy on the server lacks the Message-ID they were sent with
  Tracked,    \* those with a tracking pixel, and its token, if the CRM sends them
  Boxes,      \* the mailboxes synchronized, in order: INBOX, then Sent
  Runners,    \* instances that may run sync_mailbox, or send, together
  None,
  Window,     \* MAX_SYNC_MESSAGES
  Sending,    \* whether messages are sent by the CRM meanwhile
  MaxUid, MaxGen, MaxFaults  \* bounds: UIDs and generations of a mailbox, faults

Uids == 1..MaxUid
BoxSet == {Boxes[i] : i \in 1..Len(Boxes)}

ASSUME MailAssumption ==
  /\ NoId \subseteq Mails /\ Tracked \subseteq Mails /\ None \notin Mails \cup Runners
  /\ Boxes \in Seq(STRING) /\ Boxes # <<>>
  /\ Window \in Nat \ {0} /\ Sending \in BOOLEAN
  /\ MaxUid \in Nat /\ MaxGen \in Nat \ {0} /\ MaxFaults \in Nat

VARIABLES
  gen,      \* server: UIDVALIDITY of a mailbox
  held,     \* server: the message at a UID, or None
  next,     \* server: UIDNEXT
  seen,     \* every message the server has ever held
  rows,     \* email_messages: the message and the sync_key of a row
  state,    \* mailbox_sync_states: validity and cursor (0: NULL), or None
  skipped,  \* UIDs of the generation passed over: failed, or before the window
  lock,     \* who holds the advisory lock
  pc, task, \* what a runner does next, and on what
  faults

server == <<gen, held, next, seen>>
vars == <<server, rows, state, skipped, lock, pc, task, faults>>

(* sync_key: "imap:<mailbox>:<validity>:<uid>" for an import, "smtp:<uuid>"   *)
(* for a message the CRM sent.                                                *)
ImapKey(b, g, u) == <<b, g, u>>
SmtpKey(m) == <<"smtp", 0, m>>
Rows == [mail : Mails, key : {ImapKey(b, g, u) : b \in BoxSet, g \in 1..MaxGen, u \in Uids}
                             \cup {SmtpKey(m) : m \in Mails}]

States == [gen : 1..MaxGen, uid : 0..MaxUid]

ASSUME NoneAssumption == None \notin States

(* A runner's work: mailboxes still to do, whether the current one starts a   *)
(* window, the UIDs still to fetch, the message in hand, a broken connection. *)
Tasks == [left : Seq(BoxSet), initial : BOOLEAN, uids : SUBSET Uids, mail : Mails \cup {None}, broken : BOOLEAN]
Task(left, broken) == [left |-> left, initial |-> FALSE, uids |-> {}, mail |-> None, broken |-> broken]
NoTask == Task(<<>>, FALSE)

TypeOK ==
  /\ gen \in [BoxSet -> 1..MaxGen]
  /\ held \in [BoxSet -> [Uids -> Mails \cup {None}]]
  /\ next \in [BoxSet -> 1..(MaxUid + 1)]
  /\ seen \subseteq Mails
  /\ rows \subseteq Rows
  /\ state \in [BoxSet -> States \cup {None}]
  /\ skipped \in [BoxSet -> SUBSET Uids]
  /\ lock \in Runners \cup {None}
  /\ pc \in [Runners -> {"idle", "open", "search", "fetch", "look", "insert", "advance", "store"}]
  /\ task \in [Runners -> Tasks]
  /\ faults \in 0..MaxFaults

Init ==
  /\ gen = [b \in BoxSet |-> 1]
  /\ held = [b \in BoxSet |-> [u \in Uids |-> None]]
  /\ next = [b \in BoxSet |-> 1]
  /\ seen = {}
  /\ rows = {}
  /\ state = [b \in BoxSet |-> None]
  /\ skipped = [b \in BoxSet |-> {}]
  /\ lock = None
  /\ pc = [r \in Runners |-> "idle"]
  /\ task = [r \in Runners |-> NoTask]
  /\ faults = 0
-----------------------------------------------------------------------------
(* The server.  A message sits in a mailbox once at a time.                   *)
Present(b) == {u \in Uids : held[b][u] # None}
Least(S) == CHOOSE u \in S : \A v \in S : u <= v
Greatest(S) == CHOOSE u \in S : \A v \in S : v <= u

PutIn(b, m) ==
  /\ next[b] <= MaxUid /\ \A u \in Uids : held[b][u] # m
  /\ held' = [held EXCEPT ![b][next[b]] = m]
  /\ next' = [next EXCEPT ![b] = @ + 1]
  /\ seen' = seen \cup {m}
  /\ UNCHANGED gen

Deliver(b, m) == PutIn(b, m) /\ UNCHANGED <<rows, state, skipped, lock, pc, task, faults>>

Expunge(b, u) ==
  /\ held[b][u] # None
  /\ held' = [held EXCEPT ![b][u] = None]
  /\ UNCHANGED <<gen, next, seen, rows, state, skipped, lock, pc, task, faults>>

(* A rebuilt mailbox: a new UIDVALIDITY, its messages numbered from 1 in their*)
(* old order.  It drops the connections that have it open, so none has.       *)
Rebuild(b) ==
  LET Rank(u) == Cardinality({v \in Present(b) : v <= u}) IN
  /\ gen[b] < MaxGen
  /\ \A r \in Runners : task[r].left # <<>> => Head(task[r].left) # b
  /\ gen' = [gen EXCEPT ![b] = @ + 1]
  /\ held' = [held EXCEPT ![b] = [n \in Uids |->
                IF \E u \in Present(b) : Rank(u) = n
                THEN held[b][CHOOSE u \in Present(b) : Rank(u) = n] ELSE None]]
  /\ next' = [next EXCEPT ![b] = Cardinality(Present(b)) + 1]
  /\ skipped' = [skipped EXCEPT ![b] = {}]
  /\ UNCHANGED <<seen, rows, state, lock, pc, task, faults>>
-----------------------------------------------------------------------------
Box(r) == Head(task[r].left)
Uid(r) == Least(task[r].uids)

Fault == faults < MaxFaults /\ faults' = faults + 1

(* _acquire_sync_lock: pg_try_advisory_lock, whoever does not get it gives up.*)
Anyone(r) == TRUE
LockFree(r) == lock = None

(* Login and LIST: the mailbox with the \Sent flag is synchronized after the  *)
(* INBOX; when LIST fails or names none, only the INBOX is.                   *)
Start(r) ==
  /\ pc[r] = "idle" /\ LockFree(r)
  /\ lock' = r
  /\ \E folders \in {Boxes, <<Boxes[1]>>} : task' = [task EXCEPT ![r] = Task(folders, FALSE)]
  /\ pc' = [pc EXCEPT ![r] = "open"]
  /\ UNCHANGED <<server, rows, state, skipped, faults>>

(* The end of a run, and of a crashed one: the lock's session is closed.      *)
Finish(r) ==
  /\ lock' = IF lock = r THEN None ELSE lock
  /\ task' = [task EXCEPT ![r] = NoTask]
  /\ pc' = [pc EXCEPT ![r] = "idle"]

LeaveBox(r) ==
  IF Len(task[r].left) = 1 THEN Finish(r)
  ELSE /\ task' = [task EXCEPT ![r] = Task(Tail(task[r].left), task[r].broken)]
       /\ pc' = [pc EXCEPT ![r] = "open"]
       /\ UNCHANGED lock

(* EXAMINE.  A mailbox never synchronized, or with another UIDVALIDITY than   *)
(* at the last time, starts a window; its state row is committed at once.     *)
IsInitial(b) == IF state[b] = None THEN TRUE ELSE state[b].gen # gen[b]

Open(r) ==
  LET b == Box(r) IN
  /\ pc[r] = "open" /\ ~ task[r].broken
  /\ task' = [task EXCEPT ![r].initial = IsInitial(b)]
  /\ state' = IF IsInitial(b) THEN [state EXCEPT ![b] = [gen |-> gen[b], uid |-> 0]] ELSE state
  /\ pc' = [pc EXCEPT ![r] = "search"]
  /\ UNCHANGED <<server, rows, skipped, lock, faults>>

(* UID SEARCH: ALL in a window, of which the last Window are kept, otherwise  *)
(* "UID <cursor + 1>:*".                                                      *)
SkipsOne(b) == {u \in Present(b) : u > state[b].uid + 1}
NewUids(b) ==
  {u \in Present(b) : u > state[b].uid} \cup
  (IF Present(b) = {} THEN {} ELSE {Greatest(Present(b))})

LastOf(S) == {u \in S : Cardinality({v \in S : v > u}) < Window}

Found(r) == IF task[r].initial THEN LastOf(Present(Box(r))) ELSE NewUids(Box(r))

Search(r) ==
  /\ pc[r] = "search" /\ ~ task[r].broken
  /\ IF Found(r) = {} THEN LeaveBox(r)
     ELSE /\ task' = [task EXCEPT ![r].uids = Found(r)]
          /\ pc' = [pc EXCEPT ![r] = "fetch"]
          /\ UNCHANGED lock
  /\ skipped' = IF task[r].initial /\ Found(r) # {}
                THEN [skipped EXCEPT ![Box(r)] = @ \cup {u \in Uids : u < Least(Found(r))}]
                ELSE skipped
  /\ UNCHANGED <<server, rows, state, faults>>

(* EXAMINE or SEARCH fails: the mailbox is left for this run.                 *)
Unavailable(r) ==
  /\ pc[r] \in {"open", "search"}
  /\ IF task[r].broken THEN UNCHANGED faults ELSE Fault
  /\ LeaveBox(r)
  /\ UNCHANGED <<server, rows, state, skipped>>

(* UID FETCH of the next message.                                             *)
Fetch(r) ==
  /\ pc[r] = "fetch" /\ ~ task[r].broken /\ held[Box(r)][Uid(r)] # None
  /\ task' = [task EXCEPT ![r].mail = held[Box(r)][Uid(r)]]
  /\ pc' = [pc EXCEPT ![r] = "look"]
  /\ UNCHANGED <<server, rows, state, skipped, lock, faults>>

(* No answer, no payload, an exception while parsing or storing: counted as   *)
(* skipped.  Every fetch on a broken connection fails, and so does that of an *)
(* expunged message.                                                          *)
Unfetched(r) ==
  /\ pc[r] \in {"fetch", "insert"}
  /\ IF pc[r] = "fetch" /\ (task[r].broken \/ held[Box(r)][Uid(r)] = None)
     THEN UNCHANGED faults ELSE Fault
  /\ skipped' = [skipped EXCEPT ![Box(r)] = @ \cup {Uid(r)}]
  /\ pc' = [pc EXCEPT ![r] = "advance"]
  /\ UNCHANGED <<server, rows, state, lock, task>>

(* The three lookups of _persist_imap_message: the sync key, the Message-ID,  *)
(* and, for the Sent mailbox, the token of a tracked message the CRM sent.    *)
ByKey(r) == \E x \in rows : x.key = ImapKey(Box(r), gen[Box(r)], Uid(r))
ByMessageId(r) == task[r].mail \notin NoId /\ \E x \in rows : x.mail = task[r].mail
ByToken(r) ==
  /\ Box(r) # Boxes[1] /\ task[r].mail \in Tracked
  /\ \E x \in rows : x.key = SmtpKey(task[r].mail)
KeyOnly(r) == ByKey(r)
ByIdOnly(r) == ByKey(r) \/ ByMessageId(r)
Stored(r) == ByKey(r) \/ ByMessageId(r) \/ ByToken(r)

Look(r) ==
  /\ pc[r] = "look"
  /\ pc' = [pc EXCEPT ![r] = IF Stored(r) THEN "advance" ELSE "insert"]
  /\ UNCHANGED <<server, rows, state, skipped, lock, task, faults>>

(* The row and its attachments, committed; uq_email_messages_sync_key holds.  *)
Insert(r) ==
  /\ pc[r] = "insert"
  /\ rows' = IF ByKey(r) THEN rows
             ELSE rows \cup {[mail |-> task[r].mail, key |-> ImapKey(Box(r), gen[Box(r)], Uid(r))]}
  /\ pc' = [pc EXCEPT ![r] = "advance"]
  /\ UNCHANGED <<server, state, skipped, lock, task, faults>>

(* _advance_sync_state, in a finally clause: after every UID, whatever came   *)
(* of it, the cursor is committed.                                            *)
EndOfBatch(r) == Greatest(task[r].uids)
CursorAfter(r) == Uid(r)

Advance(r) ==
  /\ pc[r] = "advance"
  /\ state' = [state EXCEPT ![Box(r)].uid = CursorAfter(r)]
  /\ IF task[r].uids = {Uid(r)} THEN LeaveBox(r)
     ELSE /\ task' = [task EXCEPT ![r].uids = @ \ {Uid(r)}, ![r].mail = None]
          /\ pc' = [pc EXCEPT ![r] = "fetch"]
          /\ UNCHANGED lock
  /\ UNCHANGED <<server, rows, skipped, faults>>

Syncing(r) == pc[r] \notin {"idle", "store"}

Disconnect(r) ==
  /\ Syncing(r) /\ ~ task[r].broken /\ Fault
  /\ task' = [task EXCEPT ![r].broken = TRUE]
  /\ UNCHANGED <<server, rows, state, skipped, lock, pc>>

(* The instance is killed, or its time is up.                                 *)
Crash(r) == pc[r] # "idle" /\ Fault /\ Finish(r) /\ UNCHANGED <<server, rows, state, skipped>>
-----------------------------------------------------------------------------
(* send_message: SMTP first (the provider files a copy in Sent), the row last.*)
Submit(r, m) ==
  /\ Sending /\ pc[r] = "idle" /\ m \notin seen
  /\ PutIn(Boxes[Len(Boxes)], m)
  /\ task' = [task EXCEPT ![r].mail = m]
  /\ pc' = [pc EXCEPT ![r] = "store"]
  /\ UNCHANGED <<rows, state, skipped, lock, faults>>

StoreSent(r) ==
  /\ pc[r] = "store"
  /\ rows' = rows \cup {[mail |-> task[r].mail, key |-> SmtpKey(task[r].mail)]}
  /\ Finish(r)
  /\ UNCHANGED <<server, state, skipped, faults>>

Step(r) ==
  \/ Open(r) \/ Search(r) \/ Unavailable(r) \/ Fetch(r) \/ Unfetched(r)
  \/ Look(r) \/ Insert(r) \/ Advance(r) \/ StoreSent(r)

Next ==
  \/ \E b \in BoxSet, m \in Mails : Deliver(b, m)
  \/ \E b \in BoxSet, u \in Uids : Expunge(b, u)
  \/ \E b \in BoxSet : Rebuild(b)
  \/ \E r \in Runners : Start(r) \/ Step(r) \/ Disconnect(r) \/ Crash(r)
  \/ \E r \in Runners, m \in Mails : Submit(r, m)

Spec == Init /\ [][Next]_vars

(* Cron comes back for ever, and a run that goes on comes to its end; nothing *)
(* is assumed of the server, of senders, or of when faults strike.            *)
Fairness == \A r \in Runners : WF_vars(Start(r)) /\ WF_vars(Step(r))
FairSpec == Spec /\ Fairness
-----------------------------------------------------------------------------
(* No message is filed twice, across mailboxes, crashes between the row and   *)
(* the cursor, cursors that fall back to a lower UID, and new generations in  *)
(* which every UID means another message; a message without a Message-ID can  *)
(* only be recognized by its UID.                                             *)
FiledOnce ==
  \A x, y \in rows : x.mail = y.mail /\ x.mail \notin NoId => x = y

(* What FiledOnce rests on: a runner at work holds the lock, and what it is   *)
(* about to insert is not in the table yet.                                   *)
OnlyOneRuns ==
  \A r \in Runners : Syncing(r) => lock = r

AboutToFile ==
  \A r \in Runners : pc[r] = "insert" => ~ ByMessageId(r)

(* The cursor of a mailbox never passes over a message without trying it: at  *)
(* or below the cursor a message has its row, or its own fetch failed, or it  *)
(* was too old for the first window.                                          *)
CursorIsHonest ==
  \A b \in DOMAIN state : ~ IsInitial(b) =>
    \A u \in DOMAIN held[b] : held[b][u] # None =>
      \/ u > state[b].uid
      \/ u \in skipped[b]
      \/ \E x \in rows : x.mail = held[b][u]

(* "an initial bounded import" (sync_mailbox), "a new bounded window": until  *)
(* a mailbox has a cursor, no more than Window messages are fetched.          *)
FirstImportIsBounded ==
  \A r \in Runners : pc[r] = "fetch" /\ state[Box(r)].uid = 0
                       => Cardinality(task[r].uids) <= Window

(* "This prevents the IMAP copy from becoming a second Sent row": a message   *)
(* the CRM sent is in the archive once, recognized by its Message-ID or, in   *)
(* the Sent mailbox, by the token; a second row is a copy of a message that   *)
(* lost its Message-ID and has no token, or whose token nobody looks for.     *)
SentCopyIsNotFiled ==
  \A x, y \in rows : x.mail = y.mail /\ x.key = SmtpKey(x.mail) /\ x # y =>
    x.mail \in NoId /\ (x.mail \notin Tracked \/ y.key[1] = Boxes[1])

(* Whatever fails on the way, a message that stays in its mailbox is sooner   *)
(* or later filed, or passed by the cursor after its turn.                    *)
Waiting(b, m, u, g) ==
  /\ held[b][u] = m /\ gen[b] = g
  /\ IF state[b] = None THEN TRUE ELSE state[b].gen # g \/ state[b].uid < u

EveryMessageHasItsTurn ==
  \A b \in BoxSet, m \in Mails, u \in Uids, g \in 1..MaxGen :
    Waiting(b, m, u, g) ~> ~ Waiting(b, m, u, g) \/ \E x \in rows : x.mail = m

(* The archive of messages with a Message-ID, as rows implement it.           *)
RowsOf(m) == Cardinality({x \in rows : x.mail = m})
Filed == INSTANCE MailArchive WITH
  Mails <- Mails \ NoId, known <- seen \ NoId, copies <- [m \in Mails \ NoId |-> RowsOf(m)]

(* sync_mailbox implements the archive.                                       *)
ImplementsArchive == Filed!Archive
=============================================================================
