--------------------------- MODULE AttachmentStore --------------------------
(* Attachments of follow-up records and e-mails: a row in the database and a  *)
(* blob in the object store, written and deleted one after the other.  Blob   *)
(* keys are fresh UUIDs, so a file stands for its key.                        *)
EXTENDS Naturals, FiniteSets

CONSTANTS
  Files,       \* uploads, by the key they get
  FollowUps, Emails,
  Requests,
  None,
  OneAtATime,  \* requests are served one after another
  MayFail,     \* storage calls and commits may fail, an instance may crash
  MayLie       \* a commit that happened may be reported as failed

StoreAssumption ==
  /\ FollowUps \cap Emails = {} /\ None \notin Files \cup FollowUps \cup Emails
  /\ OneAtATime \in BOOLEAN /\ MayFail \in BOOLEAN /\ MayLie \in BOOLEAN

VARIABLES
  parents,   \* follow-up records and e-mails that exist
  row,       \* the parent a file's row belongs to, or None
  blobs,     \* files in the object store
  req,       \* what a request does next, on which parent and files
  answered   \* uploads whose caller was told they succeeded

vars == <<parents, row, blobs, req, answered>>

Parents == FollowUps \cup Emails
Jobs == {"idle", "put", "commit", "undo", "deleteRow", "deleteParent", "deleteBlobs", "done"}
NoTask == [job |-> "idle", on |-> None, files |-> {}]

TypeOK ==
  /\ parents \subseteq Parents
  /\ row \in [Files -> Parents \cup {None}]
  /\ blobs \subseteq Files
  /\ req \in [Requests -> [job : Jobs, on : Parents \cup {None}, files : SUBSET Files]]
  /\ answered \subseteq Files

Init ==
  /\ parents = FollowUps
  /\ row = [f \in Files |-> None]
  /\ blobs = {}
  /\ req = [r \in Requests |-> NoTask]
  /\ answered = {}
-----------------------------------------------------------------------------
Active == {r \in Requests : req[r].job \notin {"idle", "done"}}
MayStart(r) == req[r].job = "idle" /\ (OneAtATime => Active = {})
Begin(r, job, p, files) == req' = [req EXCEPT ![r] = [job |-> job, on |-> p, files |-> files]]
Goto(r, job) == req' = [req EXCEPT ![r].job = job]
End(r) == req' = [req EXCEPT ![r] = [NoTask EXCEPT !.job = "done"]]
RowsOf(p) == {f \in Files : row[f] = p}
TheFile(r) == CHOOSE f \in req[r].files : TRUE
Unused(f) == f \notin blobs /\ row[f] = None /\ f \notin answered /\ \A r \in Requests : f \notin req[r].files

(* Upload: put, then commit the row.  The row of an e-mail and its parent are *)
(* committed together, by the import or the sending of the message.           *)
StartUpload(r) ==
  /\ MayStart(r)
  /\ \E f \in Files, p \in Parents :
       /\ Unused(f)
       /\ p \in IF p \in Emails THEN Emails \ parents ELSE parents
       /\ \A s \in Requests : req[s].job # "idle" => p \notin Emails \/ req[s].on # p
       /\ Begin(r, "put", p, {f})
  /\ UNCHANGED <<parents, row, blobs, answered>>

(* The other order: the row first.                                            *)
RowFirst(r) ==
  /\ req[r].job = "put"
  /\ row' = [row EXCEPT ![TheFile(r)] = req[r].on]
  /\ Goto(r, "commit")
  /\ UNCHANGED <<parents, blobs, answered>>

PutBlob(r) ==
  /\ req[r].job = "put"
  /\ blobs' = blobs \cup req[r].files
  /\ Goto(r, "commit")
  /\ UNCHANGED <<parents, row, answered>>

(* The foreign key refuses a row whose follow-up is gone.                     *)
CommitRow(r) ==
  /\ req[r].job = "commit" /\ req[r].on \in parents \cup Emails
  /\ row' = [row EXCEPT ![TheFile(r)] = req[r].on]
  /\ parents' = parents \cup {req[r].on}
  /\ answered' = answered \cup req[r].files
  /\ End(r) /\ UNCHANGED blobs

(* An exception on the way - no content type, the follow-up gone, a failed    *)
(* call - : create_attachment deletes its blob, the mail code does not.       *)
OnError(r) == IF req[r].on \in Emails THEN End(r) ELSE Goto(r, "undo")

UploadFails(r) ==
  /\ req[r].job \in {"put", "commit"}
  /\ MayFail \/ req[r].job = "commit"
  /\ OnError(r)
  /\ UNCHANGED <<parents, row, blobs, answered>>

(* A put that timed out may have stored the blob all the same; the deletion   *)
(* then knows only the bare name, which Vercel Blob does not find.            *)
PutTimesOut(r) ==
  /\ req[r].job = "put" /\ MayFail
  /\ blobs' = blobs \cup req[r].files
  /\ OnError(r) \/ End(r)
  /\ UNCHANGED <<parents, row, answered>>

(* The commit went through, but its answer was lost or the refresh failed.    *)
CommitReportedFailed(r) ==
  /\ MayLie /\ req[r].job = "commit" /\ req[r].on \in parents \cup Emails
  /\ row' = [row EXCEPT ![TheFile(r)] = req[r].on]
  /\ parents' = parents \cup {req[r].on}
  /\ OnError(r) /\ UNCHANGED <<blobs, answered>>

Undo(r) ==
  /\ req[r].job = "undo"
  /\ blobs' = blobs \ req[r].files
  /\ End(r) /\ UNCHANGED <<parents, row, answered>>

(* delete_attachment: the row, then the blob.                                 *)
StartDelete(r) ==
  /\ MayStart(r)
  /\ \E f \in Files : row[f] \in FollowUps /\ Begin(r, "deleteRow", row[f], {f})
  /\ UNCHANGED <<parents, row, blobs, answered>>

DeleteRow(r) ==
  /\ req[r].job = "deleteRow"
  /\ row' = [row EXCEPT ![TheFile(r)] = None]
  /\ Goto(r, "deleteBlobs")
  /\ UNCHANGED <<parents, blobs, answered>>

(* delete_followup: the keys are read, the record is deleted with its rows    *)
(* (the database cascades to rows added meanwhile), then the blobs go one by  *)
(* one.                                                                       *)
StartDeleteParent(r) ==
  /\ MayStart(r)
  /\ \E p \in FollowUps \cap parents : Begin(r, "deleteParent", p, RowsOf(p))
  /\ UNCHANGED <<parents, row, blobs, answered>>

DeleteParent(r) ==
  /\ req[r].job = "deleteParent"
  /\ parents' = parents \ {req[r].on}
  /\ row' = [f \in Files |-> IF row[f] = req[r].on THEN None ELSE row[f]]
  /\ IF req[r].files = {} THEN End(r) ELSE Goto(r, "deleteBlobs")
  /\ UNCHANGED <<blobs, answered>>

OneBlob(r, f) == blobs \ {f}

DeleteBlob(r) ==
  /\ req[r].job = "deleteBlobs"
  /\ \E f \in req[r].files :
       /\ blobs' = OneBlob(r, f)
       /\ IF req[r].files = {f} THEN End(r) ELSE req' = [req EXCEPT ![r].files = @ \ {f}]
  /\ UNCHANGED <<parents, row, answered>>

(* A failed deletion or a crash ends the request where it is.                 *)
Abandon(r) == MayFail /\ r \in Active /\ End(r) /\ UNCHANGED <<parents, row, blobs, answered>>

Finished == Active = {} /\ UNCHANGED vars

Next ==
  \/ \E r \in Requests :
       \/ StartUpload(r) \/ PutBlob(r) \/ CommitRow(r) \/ UploadFails(r) \/ PutTimesOut(r)
       \/ CommitReportedFailed(r) \/ Undo(r)
       \/ StartDelete(r) \/ DeleteRow(r) \/ StartDeleteParent(r) \/ DeleteParent(r) \/ DeleteBlob(r)
       \/ Abandon(r)
  \/ Finished

Spec == Init /\ [][Next]_vars
-----------------------------------------------------------------------------
(* An attachment that is listed can be downloaded: whatever overlaps, fails   *)
(* or crashes, a row's blob is in the store, because the blob comes first and *)
(* goes last.                                                                 *)
RowsHaveBlobs == \A f \in Files : row[f] # None => f \in blobs

(* An upload that was acknowledged can be downloaded until it is deleted,     *)
(* even when commits that went through are reported as failed: the undo of    *)
(* such a request removes its own blob only.                                  *)
AcknowledgedReadable == \A f \in answered : row[f] # None => f \in blobs

(* Served one after another and without failures, requests leave no blob that *)
(* no row names (deleted files do not pile up in the store).                  *)
NoOrphans == Active = {} => blobs \subseteq {f \in Files : row[f] # None}
=============================================================================
