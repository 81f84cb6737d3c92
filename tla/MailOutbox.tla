----------------------------- MODULE MailOutbox -----------------------------
(* Drafts, sending and open tracking: save_draft, send_message, its loop      *)
(* send_individually and record_email_open, on rows of email_messages.  The   *)
(* text of a row is named after the request that wrote it, and the tracking   *)
(* token of a mail after the request that sent it.  Requests run on different *)
(* instances; SMTP comes before the row is written.                           *)
EXTENDS Naturals, FiniteSets

CONSTANTS
  Msgs,       \* row ids
  Requests,
  None,
  OneAtATime, \* requests are served one after another
  MayFail     \* storage, the database or the instance may fail

VARIABLES
  row,     \* email_messages, or None
  events,  \* email_open_events: how many a row has
  mailed,  \* what a request handed to SMTP: the row and the token, or None
  req,     \* a request: what it does, on which row, as it read it
  outcome  \* what the caller was told

vars == <<row, events, mailed, req, outcome>>

Kinds == {"draft", "sent"}
Columns == [kind : Kinds, text : Requests, token : Requests \cup {None},
            tracked : BOOLEAN, opens : 0..Cardinality(Requests)]

Handed == [row : Msgs, token : Requests \cup {None}]

OutboxAssumption ==
  /\ IsFiniteSet(Requests) /\ None \notin Requests \cup Msgs \cup Columns \cup Handed
  /\ OneAtATime \in BOOLEAN /\ MayFail \in BOOLEAN

Jobs == {"idle", "save", "send", "store", "open", "done"}
Tasks == [job : Jobs, row : Msgs \cup {None}, read : Columns \cup {None}, tracking : BOOLEAN]
NoTask == [job |-> "idle", row |-> None, read |-> None, tracking |-> FALSE]

TypeOK ==
  /\ row \in [Msgs -> Columns \cup {None}]
  /\ events \in [Msgs -> 0..Cardinality(Requests)]
  /\ mailed \in [Requests -> Handed \cup {None}]
  /\ req \in [Requests -> Tasks]
  /\ outcome \in [Requests -> {"", "ok", "failed"}]

Init ==
  /\ row = [m \in Msgs |-> None]
  /\ events = [m \in Msgs |-> 0]
  /\ mailed = [r \in Requests |-> None]
  /\ req = [r \in Requests |-> NoTask]
  /\ outcome = [r \in Requests |-> ""]
-----------------------------------------------------------------------------
Active == {r \in Requests : req[r].job \notin {"idle", "done"}}
MayStart(r) == req[r].job = "idle" /\ (OneAtATime => Active = {})

(* A row nobody has: the id a new row will get.                               *)
Fresh(m) == row[m] = None /\ \A r \in Requests : req[r].row # m

Begin(r, job, m, tracking) ==
  /\ req' = [req EXCEPT ![r] = [job |-> job, row |-> m, read |-> row[m], tracking |-> tracking]]
  /\ UNCHANGED <<row, events, mailed, outcome>>

End(r, result) ==
  /\ req' = [req EXCEPT ![r].job = "done"]
  /\ outcome' = [outcome EXCEPT ![r] = result]

(* "This email is no longer a draft."                                         *)
IsDraft(m) == row[m] # None /\ row[m].kind = "draft"

StartSave(r) ==
  MayStart(r) /\ \E m \in Msgs : (Fresh(m) \/ IsDraft(m)) /\ Begin(r, "save", m, FALSE)

(* The session writes the columns that differ from what it read: of a draft   *)
(* saved again, the text, and neither is_draft nor the tracking columns.      *)
Draft(r) == [kind |-> "draft", text |-> r, token |-> None, tracked |-> FALSE, opens |-> 0]
WholeRow(r) == Draft(r)
SavedText(r) == [row[req[r].row] EXCEPT !.text = r]

CommitSave(r) ==
  /\ req[r].job = "save"
  /\ row' = [row EXCEPT ![req[r].row] = IF req[r].read = None THEN Draft(r) ELSE SavedText(r)]
  /\ End(r, "ok") /\ UNCHANGED <<events, mailed>>

(* A mail is sent from a draft or straight from the composer, with a token of *)
(* its own when it is tracked.                                                *)
StartSend(r) ==
  /\ MayStart(r)
  /\ \E m \in Msgs, tracking \in BOOLEAN : (Fresh(m) \/ IsDraft(m)) /\ Begin(r, "send", m, tracking)

Smtp(r) ==
  /\ req[r].job = "send"
  /\ mailed' = [mailed EXCEPT ![r] =
                  [row |-> req[r].row, token |-> IF req[r].tracking THEN r ELSE None]]
  /\ req' = [req EXCEPT ![r].job = "store"]
  /\ UNCHANGED <<row, events, outcome>>

(* Again only what differs: an untracked mail leaves the tracking columns.    *)
SentFrom(r) ==
  [row[req[r].row] EXCEPT !.kind = "sent", !.text = r,
                          !.token = IF req[r].tracking THEN r ELSE @,
                          !.tracked = @ \/ req[r].tracking]
SentNew(r) == [Draft(r) EXCEPT !.kind = "sent", !.tracked = req[r].tracking,
                               !.token = IF req[r].tracking THEN r ELSE None]

CommitSend(r) ==
  /\ req[r].job = "store"
  /\ row' = [row EXCEPT ![req[r].row] = IF req[r].read = None THEN SentNew(r) ELSE SentFrom(r)]
  /\ End(r, "ok") /\ UNCHANGED <<events, mailed>>

(* A recipient's client fetches the pixel of a mail it received.              *)
AnyToken(t) == {m \in Msgs : row[m] # None}
ByToken(t) == {m \in Msgs : row[m] # None /\ row[m].token = t /\ row[m].tracked}

StartOpen(r) ==
  /\ MayStart(r)
  /\ \E s \in Requests :
       /\ mailed[s] # None /\ mailed[s].token # None
       /\ \E m \in ByToken(mailed[s].token) : Begin(r, "open", m, FALSE)

Opened(r) == [row[req[r].row] EXCEPT !.opens = req[r].read.opens + 1]

CommitOpen(r) ==
  LET m == req[r].row IN
  /\ req[r].job = "open"
  /\ row' = [row EXCEPT ![m] = Opened(r)]
  /\ events' = [events EXCEPT ![m] = @ + 1]
  /\ End(r, "ok") /\ UNCHANGED mailed

(* SMTP refuses the mail, or storing its attachments or its row fails: the    *)
(* error is returned, by send_individually in failed_addresses.               *)
Fail(r) ==
  /\ MayFail /\ r \in Active
  /\ End(r, "failed") /\ UNCHANGED <<row, events, mailed>>

Finished == (\A r \in Requests : req[r].job \in {"idle", "done"}) /\ UNCHANGED vars

Next ==
  \/ \E r \in Requests :
       \/ StartSave(r) \/ CommitSave(r) \/ StartSend(r) \/ Smtp(r) \/ CommitSend(r)
       \/ StartOpen(r) \/ CommitOpen(r) \/ Fail(r)
  \/ Finished

Spec == Init /\ [][Next]_vars
-----------------------------------------------------------------------------
(* "This email is no longer a draft.": however saves and sends overlap, a     *)
(* sent row never becomes a draft again, since a save that read a draft does  *)
(* not write the column.                                                      *)
SentStays == \A m \in Msgs : row[m] # None /\ row[m].kind = "sent" => row'[m].kind = "sent"

(* A row carries a token only when a mail with that token was handed to SMTP  *)
(* for it, and was opened only then; a tracked row keeps a token, so that its *)
(* pixel can still be told from others.                                       *)
TokensAreMailed ==
  \A m \in Msgs : row[m] # None =>
    /\ row[m].token # None => mailed[row[m].token] = [row |-> m, token |-> row[m].token]
    /\ row[m].tracked => row[m].token # None
    /\ events[m] > 0 => row[m].tracked

(* The count shown never exceeds the audit rows.                              *)
OpensAreAudited == \A m \in Msgs : row[m] # None => row[m].opens <= events[m]

(* The archive shows of a sent mail what was handed to SMTP.                  *)
SentShowsWhatWasSent ==
  \A m \in Msgs : row[m] # None /\ row[m].kind = "sent" =>
    mailed[row[m].text] # None /\ mailed[row[m].text].row = m

(* A draft is mailed at most once.                                            *)
DraftSentOnce ==
  \A r, s \in Requests :
    mailed[r] # None /\ mailed[s] # None /\ mailed[r].row = mailed[s].row => r = s

(* Each open is counted.                                                      *)
OpensAreCounted == \A m \in Msgs : row[m] # None => row[m].opens = events[m]
=============================================================================
