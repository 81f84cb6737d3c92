---------------------------- MODULE MailArchive ----------------------------
(* What the mail archive promises: a message that was in the mailbox is filed *)
(* at most once, and what has been filed stays filed.                         *)
EXTENDS Naturals

CONSTANT Mails

VARIABLES
  known,  \* messages the mailbox has ever held
  copies  \* how many rows a message has in the archive

archiveVars == <<known, copies>>

ArchiveInit == known = {} /\ copies = [m \in Mails |-> 0]

Arrive(m) == known' = known \cup {m} /\ UNCHANGED copies

File(m) ==
  /\ m \in known /\ copies[m] = 0
  /\ copies' = [copies EXCEPT ![m] = 1]
  /\ UNCHANGED known

ArchiveNext == \E m \in Mails : Arrive(m) \/ File(m)

Archive == ArchiveInit /\ [][ArchiveNext]_archiveVars
=============================================================================
