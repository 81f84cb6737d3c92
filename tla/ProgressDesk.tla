---------------------------- MODULE ProgressDesk ----------------------------
(* What must go on, for TLC: requests of the order workflow under locks, the  *)
(* mailbox synchronization under faults, and the requests of a browser while  *)
(* its tokens expire.  As on the other desks Init chooses the part at work;   *)
(* fairness is stated for the steps the code's own scheduling brings about.   *)
EXTENDS MCDealOrders

CONSTANT Desks    \* "deals", "mail", "browser"

VARIABLES
  desk,
  gen, held, next, seen, rows, state, skipped, mailLock, at, task, faults,  \* MailSync
  now, logins, tokens, store, signedIn, asking, with, call, loose, unheard  \* Sessions

mailVars == <<gen, held, next, seen, rows, state, skipped, mailLock, at, task, faults>>
browserVars == <<now, logins, tokens, store, signedIn, asking, with, call, loose, unheard>>
deskVars == <<vars, mailVars, browserVars, desk>>

(* One instance synchronizes the inbox, one message at a first window.        *)
Mail == INSTANCE MailSync WITH
  Mails <- {"m1", "m2"}, NoId <- {}, Tracked <- {}, Boxes <- <<"INBOX">>, Runners <- {"cron"}, Window <- 1, Sending <- FALSE,
  MaxUid <- 2, MaxGen <- 2, MaxFaults <- 1, lock <- mailLock, pc <- at

(* Two requests of one tab.                                                   *)
Calls == {"c1", "c2"}
Browser == INSTANCE Sessions WITH
  Tabs <- {"tab"}, Requests <- Calls, TabOf <- [c \in Calls |-> "tab"], AccessLife <- 1, RefreshLife <- 3,
  Seconds <- 3, MaxLogins <- 1, MaxLost <- 1, row <- tokens, pc <- asking
-----------------------------------------------------------------------------
DeskInit ==
  /\ desk \in Desks
  /\ Init
  /\ \A o \in Opps : oppState[o] = IF desk = "deals" THEN "live" ELSE "unborn"
  /\ \A q \in Quotes : quoteState[q] = IF desk = "deals" THEN "live" ELSE "unborn"
  /\ Mail!Init
  /\ Browser!Init

(* A step of one part, the others standing still.                             *)
OfDeals(step) == desk = "deals" /\ step /\ UNCHANGED <<mailVars, browserVars, desk>>
OfMail(step) == desk = "mail" /\ step /\ UNCHANGED <<vars, browserVars, desk>>
OfBrowser(step) == desk = "browser" /\ step /\ UNCHANGED <<vars, mailVars, desk>>

DeskNext == OfDeals(Next) \/ OfMail(Mail!Next) \/ OfBrowser(Browser!Next)

(* That of DealOrders for each request; cron comes back for ever and its run  *)
(* goes on; every call, and the refresh of a tab, goes on.                    *)
DeskFairness ==
  /\ \A r \in Requests : SF_deskVars(OfDeals(Step(r) \/ DeadlockVictim(r)))
  /\ WF_deskVars(OfMail(Mail!Start("cron") \/ Mail!Step("cron")))
  /\ \A c \in Calls : WF_deskVars(OfBrowser(Browser!Serve(c) \/ Browser!Refused(c)))
  /\ WF_deskVars(OfBrowser(Browser!Read("tab") \/ Browser!Commit("tab") \/ Browser!Break("tab") \/ Browser!Resolve("tab")))

DeskSpec == DeskInit /\ [][DeskNext]_deskVars /\ DeskFairness
-----------------------------------------------------------------------------
(* RequestsEnd of DealOrders is checked as it stands.                         *)

(* Whatever fails on the way, a message that stays in its mailbox is sooner   *)
(* or later filed or passed by the cursor after its turn.                     *)
MailHasItsTurn == Mail!EveryMessageHasItsTurn

(* No request of a tab waits for ever for a refresh of the tokens.            *)
CallsEnd == Browser!EveryRequestEnds
=============================================================================
