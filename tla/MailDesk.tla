------------------------------ MODULE MailDesk ------------------------------
(* The mail side of the CRM for TLC: synchronization, the outbox, the views   *)
(* over the archive, and the attachment store.  The parts share no variable,  *)
(* so what the desk does is what one of them does: Init chooses a part, and a *)
(* setting for those that are checked in several; the others stay as they are.*)
EXTENDS MailSync, TLC

CONSTANTS
  Desks,                          \* the parts and settings to check
  Senders,                        \* instances that send, and synchronize
  Clients,                        \* requests of the outbox and of the store
  Received, Calls,                \* its messages, and follow-up records
  Addressed, Users, Sales, Folders, Null  \* MailViews

Inbox == <<"INBOX">>
InboxAndSent == <<"INBOX", "Sent">>

VARIABLES
  desk,                                    \* the part and setting at work
  box, opens, mailed, sends, outcome,      \* MailOutbox
  mail, folder, owner, filing,             \* MailViews
  parents, file, blobs, uploads, answered  \* AttachmentStore

boxVars == <<box, opens, mailed, sends, outcome>>
viewVars == <<mail, folder, owner, filing>>
storeVars == <<parents, file, blobs, uploads, answered>>
deskVars == <<vars, boxVars, viewVars, storeVars, desk>>

Letters == Mails \ NoId
-----------------------------------------------------------------------------
(* Two instances and both mailboxes; one mailbox that is rebuilt; messages    *)
(* sent meanwhile.                                                            *)
TwoBoxes == INSTANCE MailSync WITH
  Mails <- Letters, NoId <- {}, Tracked <- {}, Sending <- FALSE, MaxUid <- 2, MaxGen <- 1
OneBox == INSTANCE MailSync WITH
  Tracked <- {}, Boxes <- Inbox, Runners <- {"cron"}, Sending <- FALSE, MaxUid <- 2, MaxGen <- 2
Sent == INSTANCE MailSync WITH
  Runners <- Senders, Sending <- TRUE, MaxUid <- 2, MaxGen <- 1, MaxFaults <- 0

(* Requests that overlap while anything may fail; requests one after another. *)
Outbox(setting) == INSTANCE MailOutbox WITH
  Msgs <- Letters, Requests <- Clients,
  OneAtATime <- setting = "in order", MayFail <- setting # "in order",
  row <- box, events <- opens, req <- sends

Views == INSTANCE MailViews WITH Msgs <- Received, Customers <- Addressed

(* Overlapping uploads and deletions while anything may fail; the same with   *)
(* commits that may lie; requests on follow-up records, one after another.    *)
StoreTogether == INSTANCE AttachmentStore WITH
  Files <- Clients, FollowUps <- Calls, Emails <- Received, Requests <- Clients,
  OneAtATime <- FALSE, MayFail <- TRUE, MayLie <- FALSE, row <- file, req <- uploads
StoreLying == INSTANCE AttachmentStore WITH
  Files <- Clients, FollowUps <- Calls, Emails <- Received, Requests <- Clients,
  OneAtATime <- FALSE, MayFail <- TRUE, MayLie <- TRUE, row <- file, req <- uploads
StoreInOrder == INSTANCE AttachmentStore WITH
  Files <- Clients, FollowUps <- Calls, Emails <- {}, Requests <- Clients,
  OneAtATime <- TRUE, MayFail <- FALSE, MayLie <- FALSE, row <- file, req <- uploads
-----------------------------------------------------------------------------
ASSUME DeskAssumption ==
  /\ Views!ViewsAssumption
  /\ \A setting \in {"together", "in order"} : Outbox(setting)!OutboxAssumption
  /\ StoreTogether!StoreAssumption /\ StoreLying!StoreAssumption /\ StoreInOrder!StoreAssumption

DeskInit ==
  /\ desk \in Desks
  /\ IF desk = "one box" THEN OneBox!Init ELSE IF desk = "sent" THEN Sent!Init ELSE TwoBoxes!Init
  /\ Outbox("in order")!Init
  /\ Views!Init
  /\ desk # "views" => /\ mail = [m \in Received |-> None]
                       /\ owner = [c \in Addressed |-> "boss"]
  /\ StoreInOrder!Init

TwoBoxesStep == desk = "two boxes" /\ TwoBoxes!Next /\ UNCHANGED <<boxVars, viewVars, storeVars, desk>>
OneBoxStep == desk = "one box" /\ OneBox!Next /\ UNCHANGED <<boxVars, viewVars, storeVars, desk>>
SentStep == desk = "sent" /\ Sent!Next /\ UNCHANGED <<boxVars, viewVars, storeVars, desk>>
OutboxStep ==
  /\ \/ desk = "outbox" /\ Outbox("together")!Next
     \/ desk = "outbox in order" /\ Outbox("in order")!Next
  /\ UNCHANGED <<vars, viewVars, storeVars, desk>>
ViewsStep == desk = "views" /\ Views!Next /\ UNCHANGED <<vars, boxVars, storeVars, desk>>
StoreStep ==
  /\ \/ desk = "store" /\ StoreTogether!Next
     \/ desk = "store in order" /\ StoreInOrder!Next
     \/ desk = "store lies" /\ StoreLying!Next
  /\ UNCHANGED <<vars, boxVars, viewVars, desk>>

DeskNext == TwoBoxesStep \/ OneBoxStep \/ SentStep \/ OutboxStep \/ ViewsStep \/ StoreStep

DeskSpec == DeskInit /\ [][DeskNext]_deskVars

-----------------------------------------------------------------------------
(* FiledOnce, CursorIsHonest, SentCopyIsNotFiled and ImplementsArchive of     *)
(* MailSync are checked as they stand.                                        *)

(* However saves, sends and opens overlap and fail: a sent row never turns    *)
(* into a draft again.                                                        *)
SentForGood == [][Outbox("together")!SentStays]_deskVars

(* However they overlap, tokens in rows are tokens that were mailed, and no   *)
(* open is counted that was not audited.  One request after another, the      *)
(* archive shows what was mailed, a draft is mailed once, and every open is   *)
(* counted.                                                                   *)
OutboxIsTrue ==
  /\ Outbox("together")!TypeOK /\ Outbox("together")!TokensAreMailed /\ Outbox("together")!OpensAreAudited
  /\ desk = "outbox in order" => /\ Outbox("in order")!SentShowsWhatWasSent
                                 /\ Outbox("in order")!DraftSentOnce
                                 /\ Outbox("in order")!OpensAreCounted

(* Badges and lists of the mail center count the same messages for every      *)
(* user, who may open what is listed; drafts are only drafts, and a message   *)
(* is filed in a folder that exists.                                          *)
ViewsAgree ==
  /\ Views!TypeOK
  /\ Views!BadgesMatchLists
  /\ Views!ListedIsReadable
  /\ Views!DraftsAreDrafts
  /\ Views!FiledSomewhere

(* A listed attachment has its blob whatever overlaps or fails, an upload     *)
(* that was acknowledged even when commits are reported wrongly, and requests *)
(* on follow-ups, one after another without failures, leave no blob behind.   *)
AttachmentsKept ==
  /\ StoreTogether!TypeOK
  /\ desk # "store lies" => StoreTogether!RowsHaveBlobs
  /\ StoreTogether!AcknowledgedReadable
  /\ desk = "store in order" => StoreTogether!NoOrphans

DeskSymmetry == Permutations(Runners) \cup Permutations(Letters)
=============================================================================
