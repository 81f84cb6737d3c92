------------------------ MODULE AttachmentStoreProofs ------------------------
(* Why a listed attachment can always be downloaded: a key belongs to one     *)
(* upload until its row is there, and to no row once its blob is being        *)
(* deleted.  With commits reported as failed this is left of it: what was     *)
(* acknowledged can be downloaded.                                            *)
EXTENDS AttachmentStore, TLAPS

(* The file of an upload under way is nobody else's and has no row.           *)
UploadsOwn == \A r \in Requests : req[r].job \in {"put", "commit"} =>
  \A f \in req[r].files :
    /\ row[f] = None /\ f \notin answered
    /\ \A s \in Requests \ {r} : f \notin req[s].files
    /\ req[r].job = "commit" => f \in blobs

(* The file of an upload that is undone was never acknowledged, and has a row *)
(* only if the commit went through all the same.                              *)
UndoneUnanswered == \A r \in Requests : req[r].job = "undo" =>
  \A f \in req[r].files : f \notin answered /\ (~MayLie => row[f] = None)

(* Blobs are deleted when their rows are gone, for good.                      *)
DeletedHaveNoRow == \A r \in Requests :
  /\ req[r].job = "deleteBlobs" => \A f \in req[r].files : row[f] = None
  /\ req[r].job = "deleteParent" => \A f \in req[r].files : row[f] \in {req[r].on, None}

(* One upload holds one file.                                                 *)
OneFile == \A r \in Requests : req[r].job \in {"put", "commit", "undo", "deleteRow"} =>
  \E f \in Files : req[r].files = {f}

Kept == \A f \in Files : row[f] # None /\ (f \in answered \/ ~MayLie) => f \in blobs

IInv == TypeOK /\ UploadsOwn /\ UndoneUnanswered /\ DeletedHaveNoRow /\ OneFile /\ Kept
-----------------------------------------------------------------------------
(* Nothing is uploaded yet.                                                   *)
LEMMA InitiallyIInv == StoreAssumption /\ Init => IInv
PROOF
  BY DEF StoreAssumption, Init, IInv, TypeOK, UploadsOwn, UndoneUnanswered, DeletedHaveNoRow, OneFile, Kept,
         NoTask, Jobs, Parents

LEMMA StartUploadKeeps ==
  ASSUME StoreAssumption, IInv, NEW r \in Requests, StartUpload(r)
  PROVE  IInv'
PROOF
  <1>1. TypeOK'
    BY DEF IInv, TypeOK, Jobs, StartUpload, Begin
  <1>2. UploadsOwn'
    BY DEF IInv, UploadsOwn, StartUpload, Begin, Unused
  <1>3. UndoneUnanswered'
    BY DEF IInv, UndoneUnanswered, StartUpload, Begin
  <1>4. DeletedHaveNoRow'
    BY DEF IInv, DeletedHaveNoRow, StartUpload, Begin
  <1>5. OneFile'
    BY DEF IInv, OneFile, StartUpload, Begin
  <1>6. Kept'
    BY DEF IInv, Kept, StartUpload
  <1> QED BY <1>1, <1>2, <1>3, <1>4, <1>5, <1>6 DEF IInv

LEMMA PutBlobKeeps ==
  ASSUME StoreAssumption, IInv, NEW r \in Requests, PutBlob(r)
  PROVE  IInv'
PROOF
  <1>1. TypeOK'
    BY DEF IInv, TypeOK, Jobs, PutBlob, Goto
  <1>2. UploadsOwn'
    BY DEF IInv, UploadsOwn, PutBlob, Goto
  <1>3. UndoneUnanswered'
    BY DEF IInv, UndoneUnanswered, PutBlob, Goto
  <1>4. DeletedHaveNoRow'
    BY DEF IInv, DeletedHaveNoRow, PutBlob, Goto
  <1>5. OneFile'
    BY DEF IInv, OneFile, PutBlob, Goto
  <1>6. Kept'
    BY DEF IInv, Kept, PutBlob
  <1> QED BY <1>1, <1>2, <1>3, <1>4, <1>5, <1>6 DEF IInv

LEMMA CommitRowKeeps ==
  ASSUME StoreAssumption, IInv, NEW r \in Requests, CommitRow(r)
  PROVE  IInv'
PROOF
  <1>0. PICK g \in Files : req[r].files = {g} /\ TheFile(r) = g
    BY DEF IInv, OneFile, TheFile, CommitRow
  <1>1. TypeOK'
    BY <1>0 DEF IInv, TypeOK, Jobs, StoreAssumption, CommitRow, End, NoTask
  <1>2. UploadsOwn'
    BY <1>0 DEF IInv, TypeOK, UploadsOwn, CommitRow, End, NoTask
  <1>3. UndoneUnanswered'
    BY <1>0 DEF IInv, UndoneUnanswered, UploadsOwn, CommitRow, End
  <1>4. DeletedHaveNoRow'
    BY <1>0 DEF IInv, DeletedHaveNoRow, UploadsOwn, CommitRow, End
  <1>5. OneFile'
    BY <1>0 DEF IInv, OneFile, CommitRow, End
  <1>6. Kept'
    BY <1>0 DEF IInv, Kept, UploadsOwn, CommitRow
  <1> QED BY <1>1, <1>2, <1>3, <1>4, <1>5, <1>6 DEF IInv

LEMMA UploadFailsKeeps ==
  ASSUME StoreAssumption, IInv, NEW r \in Requests, UploadFails(r)
  PROVE  IInv'
PROOF
  <1>1. TypeOK'
    BY DEF IInv, TypeOK, Jobs, UploadFails, OnError, Goto, End, NoTask
  <1>2. UploadsOwn'
    BY DEF IInv, TypeOK, UploadsOwn, UploadFails, OnError, Goto, End, NoTask
  <1>3. UndoneUnanswered'
    BY DEF IInv, TypeOK, UndoneUnanswered, UploadsOwn, UploadFails, OnError, Goto, End, NoTask
  <1>4. DeletedHaveNoRow'
    BY DEF IInv, TypeOK, DeletedHaveNoRow, UploadFails, OnError, Goto, End, NoTask
  <1>5. OneFile'
    BY DEF IInv, TypeOK, OneFile, StoreAssumption, UploadFails, OnError, Goto, End, NoTask
  <1>6. Kept'
    BY DEF IInv, Kept, UploadFails
  <1> QED BY <1>1, <1>2, <1>3, <1>4, <1>5, <1>6 DEF IInv

LEMMA PutTimesOutKeeps ==
  ASSUME StoreAssumption, IInv, NEW r \in Requests, PutTimesOut(r)
  PROVE  IInv'
PROOF
  <1>1. TypeOK'
    BY DEF IInv, TypeOK, Jobs, PutTimesOut, OnError, Goto, End, NoTask
  <1>2. UploadsOwn'
    BY DEF IInv, TypeOK, UploadsOwn, PutTimesOut, OnError, Goto, End, NoTask
  <1>3. UndoneUnanswered'
    BY DEF IInv, TypeOK, UndoneUnanswered, UploadsOwn, PutTimesOut, OnError, Goto, End, NoTask
  <1>4. DeletedHaveNoRow'
    BY DEF IInv, TypeOK, DeletedHaveNoRow, PutTimesOut, OnError, Goto, End, NoTask
  <1>5. OneFile'
    BY DEF IInv, TypeOK, OneFile, PutTimesOut, OnError, Goto, End, NoTask
  <1>6. Kept'
    BY DEF IInv, Kept, PutTimesOut
  <1> QED BY <1>1, <1>2, <1>3, <1>4, <1>5, <1>6 DEF IInv

LEMMA CommitReportedFailedKeeps ==
  ASSUME StoreAssumption, IInv, NEW r \in Requests, CommitReportedFailed(r)
  PROVE  IInv'
PROOF
  <1>0. PICK g \in Files : req[r].files = {g} /\ TheFile(r) = g
    BY DEF IInv, OneFile, TheFile, CommitReportedFailed
  <1>1. TypeOK'
    BY <1>0 DEF IInv, TypeOK, Jobs, StoreAssumption, CommitReportedFailed, OnError, Goto, End, NoTask
  <1>2. UploadsOwn'
    BY <1>0 DEF IInv, TypeOK, UploadsOwn, CommitReportedFailed, OnError, Goto, End, NoTask
  <1>3. UndoneUnanswered'
    BY <1>0 DEF IInv, TypeOK, UndoneUnanswered, UploadsOwn, CommitReportedFailed, OnError, Goto, End, NoTask
  <1>4. DeletedHaveNoRow'
    BY <1>0 DEF IInv, TypeOK, DeletedHaveNoRow, UploadsOwn, CommitReportedFailed, OnError, Goto, End, NoTask
  <1>5. OneFile'
    BY <1>0 DEF IInv, TypeOK, OneFile, CommitReportedFailed, OnError, Goto, End, NoTask
  <1>6. Kept'
    BY <1>0 DEF IInv, Kept, UploadsOwn, CommitReportedFailed
  <1> QED BY <1>1, <1>2, <1>3, <1>4, <1>5, <1>6 DEF IInv

LEMMA UndoKeeps ==
  ASSUME StoreAssumption, IInv, NEW r \in Requests, Undo(r)
  PROVE  IInv'
PROOF
  <1>1. TypeOK'
    BY DEF IInv, TypeOK, Jobs, Undo, End, NoTask
  <1>2. UploadsOwn'
    BY DEF IInv, UploadsOwn, Undo, End, NoTask
  <1>3. UndoneUnanswered'
    BY DEF IInv, UndoneUnanswered, Undo, End
  <1>4. DeletedHaveNoRow'
    BY DEF IInv, DeletedHaveNoRow, Undo, End
  <1>5. OneFile'
    BY DEF IInv, OneFile, Undo, End
  <1>6. Kept'
    BY DEF IInv, Kept, UndoneUnanswered, Undo
  <1> QED BY <1>1, <1>2, <1>3, <1>4, <1>5, <1>6 DEF IInv

LEMMA StartDeleteKeeps ==
  ASSUME StoreAssumption, IInv, NEW r \in Requests, StartDelete(r)
  PROVE  IInv'
PROOF
  <1>1. TypeOK'
    BY DEF IInv, TypeOK, Jobs, StartDelete, Begin
  <1>2. UploadsOwn'
    BY DEF IInv, UploadsOwn, StoreAssumption, StartDelete, Begin
  <1>3. UndoneUnanswered'
    BY DEF IInv, UndoneUnanswered, StartDelete, Begin
  <1>4. DeletedHaveNoRow'
    BY DEF IInv, DeletedHaveNoRow, StartDelete, Begin
  <1>5. OneFile'
    BY DEF IInv, OneFile, StartDelete, Begin
  <1>6. Kept'
    BY DEF IInv, Kept, StartDelete
  <1> QED BY <1>1, <1>2, <1>3, <1>4, <1>5, <1>6 DEF IInv

LEMMA DeleteRowKeeps ==
  ASSUME StoreAssumption, IInv, NEW r \in Requests, DeleteRow(r)
  PROVE  IInv'
PROOF
  <1>0. PICK g \in Files : req[r].files = {g} /\ TheFile(r) = g
    BY DEF IInv, OneFile, TheFile, DeleteRow
  <1>1. TypeOK'
    BY <1>0 DEF IInv, TypeOK, Jobs, DeleteRow, Goto
  <1>2. UploadsOwn'
    BY <1>0 DEF IInv, UploadsOwn, DeleteRow, Goto
  <1>3. UndoneUnanswered'
    BY <1>0 DEF IInv, UndoneUnanswered, DeleteRow, Goto
  <1>4. DeletedHaveNoRow'
    BY <1>0 DEF IInv, TypeOK, DeletedHaveNoRow, DeleteRow, Goto
  <1>5. OneFile'
    BY <1>0 DEF IInv, OneFile, DeleteRow, Goto
  <1>6. Kept'
    BY <1>0 DEF IInv, Kept, DeleteRow
  <1> QED BY <1>1, <1>2, <1>3, <1>4, <1>5, <1>6 DEF IInv

LEMMA StartDeleteParentKeeps ==
  ASSUME StoreAssumption, IInv, NEW r \in Requests, StartDeleteParent(r)
  PROVE  IInv'
PROOF
  <1>1. TypeOK'
    BY DEF IInv, TypeOK, Jobs, StartDeleteParent, Begin, RowsOf
  <1>2. UploadsOwn'
    BY DEF IInv, UploadsOwn, StoreAssumption, StartDeleteParent, Begin, RowsOf
  <1>3. UndoneUnanswered'
    BY DEF IInv, UndoneUnanswered, StartDeleteParent, Begin
  <1>4. DeletedHaveNoRow'
    BY DEF IInv, DeletedHaveNoRow, StartDeleteParent, Begin, RowsOf
  <1>5. OneFile'
    BY DEF IInv, OneFile, StartDeleteParent, Begin
  <1>6. Kept'
    BY DEF IInv, Kept, StartDeleteParent
  <1> QED BY <1>1, <1>2, <1>3, <1>4, <1>5, <1>6 DEF IInv

LEMMA DeleteParentKeeps ==
  ASSUME StoreAssumption, IInv, NEW r \in Requests, DeleteParent(r)
  PROVE  IInv'
PROOF
  <1>1. TypeOK'
    BY DEF IInv, TypeOK, Jobs, DeleteParent, Goto, End, NoTask
  <1>2. UploadsOwn'
    BY DEF IInv, TypeOK, UploadsOwn, DeleteParent, Goto, End, NoTask
  <1>3. UndoneUnanswered'
    BY DEF IInv, TypeOK, UndoneUnanswered, DeleteParent, Goto, End, NoTask
  <1>4. DeletedHaveNoRow'
    BY DEF IInv, TypeOK, DeletedHaveNoRow, OneFile, DeleteParent, Goto, End, NoTask
  <1>5. OneFile'
    BY DEF IInv, TypeOK, OneFile, DeleteParent, Goto, End, NoTask
  <1>6. Kept'
    BY DEF IInv, Kept, DeleteParent
  <1> QED BY <1>1, <1>2, <1>3, <1>4, <1>5, <1>6 DEF IInv

LEMMA DeleteBlobKeeps ==
  ASSUME StoreAssumption, IInv, NEW r \in Requests, DeleteBlob(r)
  PROVE  IInv'
PROOF
  <1>1. TypeOK'
    BY DEF IInv, TypeOK, Jobs, DeleteBlob, End, OneBlob, NoTask
  <1>2. UploadsOwn'
    BY DEF IInv, TypeOK, UploadsOwn, DeleteBlob, End, OneBlob, NoTask
  <1>3. UndoneUnanswered'
    BY DEF IInv, TypeOK, UndoneUnanswered, DeleteBlob, End, NoTask
  <1>4. DeletedHaveNoRow'
    BY DEF IInv, TypeOK, DeletedHaveNoRow, DeleteBlob, End, NoTask
  <1>5. OneFile'
    BY DEF IInv, TypeOK, OneFile, DeleteBlob, End, NoTask
  <1>6. Kept'
    BY DEF IInv, Kept, DeletedHaveNoRow, DeleteBlob, OneBlob
  <1> QED BY <1>1, <1>2, <1>3, <1>4, <1>5, <1>6 DEF IInv

LEMMA AbandonKeeps ==
  ASSUME StoreAssumption, IInv, NEW r \in Requests, Abandon(r)
  PROVE  IInv'
PROOF
  <1>1. TypeOK'
    BY DEF IInv, TypeOK, Jobs, Abandon, End, NoTask
  <1>2. UploadsOwn'
    BY DEF IInv, UploadsOwn, Abandon, End, NoTask
  <1>3. UndoneUnanswered'
    BY DEF IInv, UndoneUnanswered, Abandon, End
  <1>4. DeletedHaveNoRow'
    BY DEF IInv, DeletedHaveNoRow, Abandon, End
  <1>5. OneFile'
    BY DEF IInv, OneFile, Abandon, End
  <1>6. Kept'
    BY DEF IInv, Kept, Abandon
  <1> QED BY <1>1, <1>2, <1>3, <1>4, <1>5, <1>6 DEF IInv

LEMMA NextKeeps ==
  ASSUME StoreAssumption, IInv, [Next]_vars
  PROVE  IInv'
PROOF
  <1>1. ASSUME NEW r \in Requests,
               \/ StartUpload(r) \/ PutBlob(r) \/ CommitRow(r) \/ UploadFails(r) \/ PutTimesOut(r)
               \/ CommitReportedFailed(r) \/ Undo(r)
               \/ StartDelete(r) \/ DeleteRow(r) \/ StartDeleteParent(r) \/ DeleteParent(r) \/ DeleteBlob(r)
               \/ Abandon(r)
        PROVE  IInv'
    BY <1>1, StartUploadKeeps, PutBlobKeeps, CommitRowKeeps, UploadFailsKeeps, PutTimesOutKeeps,
       CommitReportedFailedKeeps, UndoKeeps, StartDeleteKeeps, DeleteRowKeeps, StartDeleteParentKeeps,
       DeleteParentKeeps, DeleteBlobKeeps, AbandonKeeps
  <1>2. CASE Finished \/ UNCHANGED vars
    BY <1>2 DEF Finished, vars, IInv, TypeOK, UploadsOwn, UndoneUnanswered, DeletedHaveNoRow, OneFile, Kept
  <1> QED BY <1>1, <1>2 DEF Next

LEMMA IInvHolds ==
  ASSUME StoreAssumption
  PROVE  Spec => []IInv
PROOF
  <1>1. Init => IInv
    BY InitiallyIInv
  <1>2. IInv /\ [Next]_vars => IInv'
    BY NextKeeps
  <1> QED BY <1>1, <1>2, PTL DEF Spec

(* Whatever overlaps, fails or crashes: a listed attachment can be downloaded,*)
(* as long as a commit that is reported as failed has failed.                 *)
THEOREM ListedIsReadable ==
  ASSUME StoreAssumption, ~MayLie
  PROVE  Spec => []RowsHaveBlobs
PROOF
  <1>1. IInv => RowsHaveBlobs
    BY DEF IInv, Kept, RowsHaveBlobs
  <1> QED BY <1>1, IInvHolds, PTL

(* An acknowledged upload can be downloaded as long as it is listed, even if  *)
(* commits that went through are reported as failed.                          *)
THEOREM AcknowledgedIsReadable ==
  ASSUME StoreAssumption
  PROVE  Spec => []AcknowledgedReadable
PROOF
  <1>1. IInv => AcknowledgedReadable
    BY DEF IInv, TypeOK, Kept, AcknowledgedReadable
  <1> QED BY <1>1, IInvHolds, PTL
-----------------------------------------------------------------------------
(* Requests on follow-ups, one after another and without failures: a blob is  *)
(* named by a row, or the one request under way will commit, undo or delete   *)
(* it; the deletion of a record has read all its keys.                        *)
InTurn == OneAtATime /\ ~MayFail /\ ~MayLie /\ Emails = {}

OnlyOne == \A r, s \in Active : r = s
Named == \A f \in blobs :
  row[f] # None \/ \E r \in Requests : req[r].job \in {"commit", "undo", "deleteBlobs"} /\ f \in req[r].files
WholeParent == \A r \in Requests : req[r].job = "deleteParent" => RowsOf(req[r].on) \subseteq req[r].files
Tidy == OnlyOne /\ Named /\ WholeParent

(* A request that starts finds all blobs named by rows; one that goes on is   *)
(* alone.                                                                     *)
LEMMA NamedByRows ==
  ASSUME IInv, Tidy, Active = {}
  PROVE  \A f \in blobs : row[f] # None
  BY DEF Tidy, Named, Active

LEMMA TidyStart ==
  ASSUME StoreAssumption, InTurn, IInv, Tidy, NEW r \in Requests,
         StartUpload(r) \/ StartDelete(r) \/ StartDeleteParent(r)
  PROVE  Tidy'
PROOF
  <1>1. UNCHANGED <<row, blobs>> /\ Active = {}
    BY DEF StartUpload, StartDelete, StartDeleteParent, MayStart, InTurn
  <1>2. \A s \in Requests \ {r} : req'[s] = req[s] /\ req[s].job \in {"idle", "done"}
    BY <1>1 DEF StartUpload, StartDelete, StartDeleteParent, Begin, IInv, TypeOK, Active
  <1>3. OnlyOne'
    BY <1>2 DEF OnlyOne, Active
  <1>4. Named'
    BY <1>1, NamedByRows DEF Named
  <1>5. req'[r].job = "deleteParent" => req'[r].files = RowsOf(req'[r].on)
    BY DEF StartUpload, StartDelete, StartDeleteParent, Begin, IInv, TypeOK
  <1>6. WholeParent'
    BY <1>1, <1>2, <1>5 DEF WholeParent, RowsOf
  <1> QED BY <1>3, <1>4, <1>6 DEF Tidy

(* What the request under way does: afterwards a blob has a row or is still   *)
(* in its hands.                                                              *)
LEMMA TidyGoesOn ==
  ASSUME IInv, Tidy, NEW r \in Active,
         \A s \in Requests \ {r} : req'[s] = req[s],
         req'[r].job # "deleteParent",
         \A f \in blobs' : row'[f] # None \/ (req'[r].job \in {"commit", "undo", "deleteBlobs"} /\ f \in req'[r].files)
  PROVE  Tidy'
PROOF
  <1>1. r \in Requests /\ \A s \in Requests \ {r} : req[s].job \in {"idle", "done"}
    BY DEF Tidy, OnlyOne, Active
  <1>2. OnlyOne' /\ WholeParent'
    BY <1>1 DEF OnlyOne, Active, WholeParent
  <1>3. Named'
    BY <1>1 DEF Named
  <1> QED BY <1>2, <1>3 DEF Tidy

(* The blobs that the request under way has in its hands.                     *)
LEMMA InItsHands ==
  ASSUME IInv, Tidy, NEW r \in Active, NEW f \in blobs
  PROVE  row[f] # None \/ (req[r].job \in {"commit", "undo", "deleteBlobs"} /\ f \in req[r].files)
  BY DEF Tidy, OnlyOne, Named, Active

LEMMA TidyUpload ==
  ASSUME StoreAssumption, InTurn, IInv, Tidy, NEW r \in Requests,
         PutBlob(r) \/ CommitRow(r) \/ UploadFails(r) \/ Undo(r)
  PROVE  Tidy'
PROOF
  <1>0. r \in Active /\ req[r].files \subseteq Files /\ \A s \in Requests \ {r} : req'[s] = req[s]
    BY DEF PutBlob, CommitRow, UploadFails, OnError, Undo, Goto, End, Active, IInv, TypeOK
  <1>1. CASE PutBlob(r)
    BY <1>0, <1>1, InItsHands, TidyGoesOn DEF PutBlob, Goto, IInv, TypeOK
  <1>2. CASE CommitRow(r)
    <2>1. PICK g \in Files : req[r].files = {g} /\ TheFile(r) = g
      BY <1>2 DEF IInv, OneFile, TheFile, CommitRow
    <2>2. req[r].on # None /\ row' = [row EXCEPT ![g] = req[r].on] /\ blobs' = blobs /\ req'[r].job = "done"
      BY <1>2, <2>1 DEF CommitRow, End, IInv, TypeOK, StoreAssumption, Parents
    <2>3. \A f \in blobs : row'[f] # None
      BY <1>0, <2>1, <2>2, InItsHands DEF IInv, TypeOK
    <2> QED BY <1>0, <2>2, <2>3, TidyGoesOn
  <1>3. CASE UploadFails(r)
    BY <1>0, <1>3, InItsHands, TidyGoesOn DEF UploadFails, OnError, Goto, InTurn, IInv, TypeOK
  <1>4. CASE Undo(r)
    BY <1>0, <1>4, InItsHands, TidyGoesOn DEF Undo, End, IInv, TypeOK
  <1> QED BY <1>1, <1>2, <1>3, <1>4

LEMMA TidyDelete ==
  ASSUME StoreAssumption, InTurn, IInv, Tidy, NEW r \in Requests,
         DeleteRow(r) \/ DeleteParent(r) \/ DeleteBlob(r)
  PROVE  Tidy'
PROOF
  <1>0. r \in Active /\ req[r].files \subseteq Files /\ \A s \in Requests \ {r} : req'[s] = req[s]
    BY DEF DeleteRow, DeleteParent, DeleteBlob, Goto, End, Active, IInv, TypeOK
  <1>1. CASE DeleteRow(r)
    <2>1. PICK g \in Files : req[r].files = {g} /\ TheFile(r) = g
      BY <1>1 DEF IInv, OneFile, TheFile, DeleteRow
    <2>2. /\ row' = [row EXCEPT ![g] = None] /\ blobs' = blobs
          /\ req'[r].job = "deleteBlobs" /\ req'[r].files = {g}
      BY <1>1, <2>1 DEF DeleteRow, Goto, IInv, TypeOK
    <2>3. \A f \in blobs : row[f] # None
      BY <1>0, <1>1, InItsHands DEF DeleteRow
    <2> QED BY <1>0, <2>2, <2>3, TidyGoesOn DEF IInv, TypeOK
  <1>2. CASE DeleteParent(r)
    <2>1. /\ blobs' = blobs /\ \A f \in Files : row'[f] = IF row[f] = req[r].on THEN None ELSE row[f]
          /\ RowsOf(req[r].on) \subseteq req[r].files
      BY <1>2 DEF DeleteParent, Tidy, WholeParent
    <2>2. IF req[r].files = {} THEN req'[r].job = "done"
          ELSE req'[r].job = "deleteBlobs" /\ req'[r].files = req[r].files
      BY <1>2 DEF DeleteParent, End, Goto, NoTask, IInv, TypeOK
    <2>3. \A f \in blobs : f \in Files /\ row[f] # None
      BY <1>0, <1>2, InItsHands DEF DeleteParent, IInv, TypeOK
    <2>4. \A f \in blobs : row'[f] # None \/ f \in req[r].files
      BY <2>1, <2>3 DEF RowsOf
    <2> QED BY <1>0, <2>1, <2>2, <2>4, TidyGoesOn
  <1>3. CASE DeleteBlob(r)
    <2>1. PICK g \in req[r].files :
            /\ blobs' = blobs \ {g} /\ row' = row
            /\ IF req[r].files = {g} THEN req'[r].job = "done"
               ELSE req'[r].job = "deleteBlobs" /\ req'[r].files = req[r].files \ {g}
      BY <1>3 DEF DeleteBlob, OneBlob, End, NoTask, IInv, TypeOK
    <2>2. \A f \in blobs \ {g} : row[f] # None \/ f \in req[r].files \ {g}
      BY <1>0, InItsHands
    <2> QED BY <1>0, <2>1, <2>2, TidyGoesOn
  <1> QED BY <1>1, <1>2, <1>3

LEMMA TidyInit == ASSUME Init PROVE Tidy
  BY DEF Init, Tidy, OnlyOne, Named, WholeParent, Active, NoTask

LEMMA TidyNext ==
  ASSUME StoreAssumption, InTurn, IInv, Tidy, [Next]_vars
  PROVE  Tidy'
PROOF
  <1>1. ASSUME NEW r \in Requests, PutTimesOut(r) \/ CommitReportedFailed(r) \/ Abandon(r) PROVE FALSE
    BY <1>1 DEF InTurn, PutTimesOut, CommitReportedFailed, Abandon
  <1>2. CASE Finished \/ UNCHANGED vars
    BY <1>2 DEF Finished, vars, Tidy, OnlyOne, Named, WholeParent, Active, RowsOf
  <1> QED BY <1>1, <1>2, TidyStart, TidyUpload, TidyDelete DEF Next

LEMMA TidyLeavesNone == IInv /\ Tidy => NoOrphans
  BY NamedByRows DEF NoOrphans, IInv, TypeOK

(* Requests on follow-ups, one after another and without failures, leave no   *)
(* blob behind that no row names.                                             *)
THEOREM NothingLeftBehind ==
  ASSUME StoreAssumption, InTurn
  PROVE  Spec => []NoOrphans
PROOF
  <1>1. Init => IInv /\ Tidy
    BY InitiallyIInv, TidyInit
  <1>2. IInv /\ Tidy /\ [Next]_vars => (IInv /\ Tidy)'
    BY NextKeeps, TidyNext
  <1>3. IInv /\ Tidy => NoOrphans
    BY TidyLeavesNone
  <1> QED BY <1>1, <1>2, <1>3, PTL DEF Spec
=============================================================================
