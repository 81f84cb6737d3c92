------------------------------ MODULE MailViews -----------------------------
(* The mail center's views of email_messages: the lists of list_messages, the *)
(* badges of folder_counts and list_custom_folders, and the operations that   *)
(* move messages between them: import, drafts, sending, update_messages,      *)
(* custom folders.  Columns added by later migrations read NULL on old rows.  *)
EXTENDS Naturals, FiniteSets

CONSTANTS
  Msgs, Customers, Users,
  Sales,    \* the users with the SALES role; the others see every message
  Folders,  \* custom folders, in the order of their ids
  None, Null

VARIABLES
  mail,    \* a message, or None
  folder,  \* a custom folder: the customers whose addresses it binds, or None
  owner,   \* who owns a customer
  filing   \* a bulk update that has checked its folder: messages and folder, or None

vars == <<mail, folder, owner, filing>>

Flags == {TRUE, FALSE, Null}
MailStates == [place : {"inbox", "sent", "drafts"}, direction : {"incoming", "outgoing"},
          customer : Customers \cup {None}, creator : Users \cup {None},
          read : BOOLEAN, starred : Flags, draft : Flags, deleted : Flags,
          filed : Folders \cup {None}]

ViewsAssumption ==
  /\ Sales \subseteq Users /\ Folders \subseteq Nat /\ Null \notin BOOLEAN
  /\ None \notin Msgs \cup Customers \cup Users /\ None \notin Folders
  /\ None \notin MailStates /\ \A S \in SUBSET Customers : S # None

TypeOK ==
  /\ mail \in [Msgs -> MailStates \cup {None}]
  /\ folder \in [Folders -> (SUBSET Customers) \cup {None}]
  /\ owner \in [Customers -> Users]
  /\ filing \in [msgs : SUBSET Msgs, to : Folders] \cup {None}

(* A database upgraded with its old rows in it, which are imported ones.      *)
OldMails == {x \in MailStates : /\ x.place = "inbox" /\ x.direction = "incoming"
                                /\ x.starred = Null /\ x.draft = Null /\ x.deleted = Null
                                /\ x.creator = None /\ x.filed = None}

Init ==
  /\ mail \in [Msgs -> OldMails \cup {None}]
  /\ folder = [f \in Folders |-> None]
  /\ owner \in [Customers -> Users]
  /\ filing = None
-----------------------------------------------------------------------------
Exists(m) == mail[m] # None

(* ensure_read_access                                                         *)
CustomersOf(u) == {c \in Customers : owner[c] = u}

MayRead(u, m) ==
  \/ u \notin Sales
  \/ mail[m].creator = u
  \/ mail[m].customer \in CustomersOf(u)

(* _query_for_user: an outer join with the customer, filtered.                *)
Selected(u, m) ==
  \/ u \notin Sales
  \/ \E c \in Customers : mail[m].customer = c /\ owner[c] = u
  \/ mail[m].creator = u

(* SQL: IS TRUE, IS NOT TRUE, IS FALSE                                        *)
IsTrue(flag) == flag = TRUE
IsNotTrue(flag) == flag # TRUE
IsFalse(flag) == flag = FALSE

Views == {"inbox", "sent", "unread", "drafts", "starred", "all"}

Listed(u, view) ==
  {m \in Msgs : /\ Exists(m) /\ Selected(u, m) /\ IsNotTrue(mail[m].deleted)
                /\ view = "unread" => mail[m].direction = "incoming" /\ ~ mail[m].read
                /\ view = "drafts" => IsTrue(mail[m].draft)
                /\ view = "starred" => IsTrue(mail[m].starred)
                /\ view \in {"inbox", "sent"} => IsNotTrue(mail[m].draft) /\ mail[m].place = view}

(* A custom folder is opened as the list "all" with mail_folder_id.           *)
ListedIn(u, f) == {m \in Listed(u, "all") : mail[m].filed = f}

(* folder_counts: one pass over the same query, a sum of cases per badge.     *)
CountedStrictly(m) == IsFalse(mail[m].deleted)
Counted(m) == IsNotTrue(mail[m].deleted)
SumOf(u, P(_)) == Cardinality({m \in Msgs : Exists(m) /\ Selected(u, m) /\ P(m)})

BadgeOf(u, view) ==
  LET InPlace(m) == mail[m].place = view /\ Counted(m) /\ IsNotTrue(mail[m].draft)
      Unread(m) == mail[m].direction = "incoming" /\ ~ mail[m].read /\ Counted(m)
      Draft(m) == IsTrue(mail[m].draft) /\ Counted(m)
      Starred(m) == IsTrue(mail[m].starred) /\ Counted(m)
  IN CASE view \in {"inbox", "sent"} -> SumOf(u, InPlace)
       [] view = "unread" -> SumOf(u, Unread)
       [] view = "drafts" -> SumOf(u, Draft)
       [] view = "starred" -> SumOf(u, Starred)

(* list_custom_folders: the folders a user is shown, with their counts.       *)
FolderBadge(u, f) ==
  LET Here(m) == mail[m].filed = f /\ Counted(m) IN SumOf(u, Here)
-----------------------------------------------------------------------------
(* _persist_imap_message: an unknown message, for a customer whose address it *)
(* carries, or the customer of the first folder that binds one.               *)
Matching(c) == {f \in Folders : folder[f] # None /\ c \in folder[f]}
FirstOf(S) == IF S = {} THEN None ELSE CHOOSE f \in S : \A g \in S : f <= g

Import(m) ==
  /\ mail[m] = None
  /\ \E c \in Customers \cup {None}, where \in {<<"inbox", "incoming">>, <<"sent", "outgoing">>}, read \in BOOLEAN :
       mail' = [mail EXCEPT ![m] =
         [place |-> where[1], direction |-> where[2], customer |-> c, creator |-> None,
          read |-> read, starred |-> FALSE, draft |-> FALSE, deleted |-> FALSE,
          filed |-> FirstOf(Matching(c))]]
  /\ UNCHANGED <<folder, owner, filing>>

(* Sales users write for their own customers only.                            *)
MayWriteTo(u, c) == u \notin Sales \/ c \in CustomersOf(u) \cup {None}

Outgoing(u, c, isDraft) ==
  [place |-> IF isDraft THEN "drafts" ELSE "sent", direction |-> "outgoing", customer |-> c, creator |-> u,
   read |-> TRUE, starred |-> FALSE, draft |-> isDraft, deleted |-> FALSE, filed |-> None]

Compose(u, m, isDraft) ==
  /\ mail[m] = None
  /\ \E c \in Customers \cup {None} :
       MayWriteTo(u, c) /\ mail' = [mail EXCEPT ![m] = Outgoing(u, c, isDraft)]
  /\ UNCHANGED <<folder, owner, filing>>

(* A draft saved again, or sent, by whoever may read it: it is theirs now, and*)
(* no longer deleted; sending also takes it out of its custom folder.         *)
Again(u, c, m, isDraft) ==
  [Outgoing(u, c, isDraft) EXCEPT !.starred = mail[m].starred, !.filed = IF isDraft THEN mail[m].filed ELSE None]

WriteDraft(u, m, isDraft) ==
  /\ Exists(m) /\ IsTrue(mail[m].draft) /\ MayRead(u, m)
  /\ \E c \in Customers \cup {None} :
       MayWriteTo(u, c) /\ mail' = [mail EXCEPT ![m] = Again(u, c, m, isDraft)]
  /\ UNCHANGED <<folder, owner, filing>>

(* update_messages and set_message_read_state: every message is loaded and    *)
(* checked; one that is missing or not readable leaves them all as they were. *)
Bulk(u, S) == S # {} /\ \A m \in S : Exists(m) /\ MayRead(u, m)

Patched(S, Patch(_)) == mail' = [m \in Msgs |-> IF m \in S THEN Patch(mail[m]) ELSE mail[m]]

Mark(u, S) ==
  /\ Bulk(u, S)
  /\ \E b \in BOOLEAN :
       LET Read(x) == [x EXCEPT !.read = b]
           Star(x) == [x EXCEPT !.starred = b]
           Delete(x) == [x EXCEPT !.deleted = b]
           Clear(x) == [x EXCEPT !.filed = None]
       IN Patched(S, Read) \/ Patched(S, Star) \/ Patched(S, Delete) \/ Patched(S, Clear)
  /\ UNCHANGED <<folder, owner, filing>>

(* Filing looks the folder up first and commits later: the foreign key refuses*)
(* a folder that is gone by then.                                             *)
StartFiling(u, S, f) ==
  /\ filing = None /\ Bulk(u, S) /\ folder[f] # None
  /\ filing' = [msgs |-> S, to |-> f]
  /\ UNCHANGED <<mail, folder, owner>>

FolderThere(f) == folder[f] # None

CommitFiling ==
  /\ filing # None
  /\ LET Move(x) == [x EXCEPT !.filed = filing.to]
     IN IF FolderThere(filing.to) THEN Patched(filing.msgs, Move) ELSE UNCHANGED mail
  /\ filing' = None
  /\ UNCHANGED <<folder, owner>>

(* save_custom_folder, delete_custom_folder (ON DELETE SET NULL)              *)
SaveFolder(f) ==
  /\ \E S \in SUBSET Customers : folder' = [folder EXCEPT ![f] = S]
  /\ UNCHANGED <<mail, owner, filing>>

Unfiled(x, f) == IF x # None /\ x.filed = f THEN [x EXCEPT !.filed = None] ELSE x

DeleteFolder(f) ==
  /\ folder[f] # None
  /\ folder' = [folder EXCEPT ![f] = None]
  /\ mail' = [m \in Msgs |-> Unfiled(mail[m], f)]
  /\ UNCHANGED <<owner, filing>>

Reassign(c, u) == owner' = [owner EXCEPT ![c] = u] /\ UNCHANGED <<mail, folder, filing>>

Next ==
  \/ \E m \in Msgs : Import(m)
  \/ \E u \in Users, m \in Msgs, isDraft \in BOOLEAN : Compose(u, m, isDraft) \/ WriteDraft(u, m, isDraft)
  \/ \E u \in Users, S \in SUBSET Msgs : Mark(u, S) \/ \E f \in Folders : StartFiling(u, S, f)
  \/ CommitFiling
  \/ \E f \in Folders : SaveFolder(f) \/ DeleteFolder(f)
  \/ \E c \in Customers, u \in Users : Reassign(c, u)

Spec == Init /\ [][Next]_vars
-----------------------------------------------------------------------------
(* Every badge is the length of the list it opens, for every user, NULL       *)
(* columns of old rows included: the lists and the counts are two separate    *)
(* translations of the same conditions.                                       *)
BadgesMatchLists ==
  \A u \in Users :
    /\ \A view \in Views \ {"all"} : BadgeOf(u, view) = Cardinality(Listed(u, view))
    /\ \A f \in Folders : FolderBadge(u, f) = Cardinality(ListedIn(u, f))

(* What a user is shown in a list is what ensure_read_access lets them open:  *)
(* the SQL filter and the check in Python agree as owners change.             *)
ListedIsReadable ==
  \A u \in Users, m \in Msgs :
    Exists(m) /\ IsNotTrue(mail[m].deleted) => (m \in Listed(u, "all") <=> MayRead(u, m))

(* A row is in the drafts by its folder exactly when it is by its flag, and a *)
(* draft is never an incoming message: no view shows a message as two things. *)
DraftsAreDrafts ==
  \A m \in Msgs : Exists(m) =>
    /\ mail[m].place = "drafts" <=> IsTrue(mail[m].draft)
    /\ mail[m].place = "inbox" <=> mail[m].direction = "incoming"

(* A message is filed in folders that exist, though a bulk update may commit  *)
(* after its folder was deleted.                                              *)
FiledSomewhere ==
  \A m \in Msgs : Exists(m) => mail[m].filed = None \/ folder[mail[m].filed] # None
=============================================================================
