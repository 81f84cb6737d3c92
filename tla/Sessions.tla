------------------------------- MODULE Sessions ------------------------------
(* Sign-in sessions: login and refresh of auth_service, and the client of     *)
(* services/api.ts that refreshes an expired access token once and retries.   *)
(* Several requests of a tab are under way at a time and share one refresh;   *)
(* the tabs share the browser's storage.  A connection may break and a page   *)
(* be reloaded at any point, while the server goes on with the refresh it was *)
(* sent.  A token is the second it was issued in: nothing else tells apart    *)
(* two tokens of one user.                                                    *)
EXTENDS Integers, FiniteSets

CONSTANTS
  Tabs, Requests,
  TabOf,        \* [Requests -> Tabs]
  AccessLife, RefreshLife,
  Seconds,      \* bound on the clock
  MaxLogins,    \* bound on the logins
  MaxLost,      \* bound on the refreshes whose page is gone
  None

ASSUME SessionsAssumption ==
  /\ TabOf \in [Requests -> Tabs] /\ Seconds \in Nat /\ MaxLogins \in Nat /\ MaxLost \in Nat /\ None \notin Nat
  /\ AccessLife \in Nat \ {0} /\ RefreshLife \in Nat \ {0} /\ AccessLife <= RefreshLife

VARIABLES
  now,
  logins,    \* how many there have been
  row,       \* refresh_tokens: [0..Seconds -> none, live or revoked]
  store,     \* the browser's storage: access token, refresh token, user
  signedIn,  \* the user of each tab's AuthProvider
  pc,        \* each request: idle, asked, refused (401), waiting for the refresh
  with,      \* the access token each request carries
  call,      \* each tab's refreshPromise: its refresh token and how far it is
  loose,     \* refreshes at the server whose answer no page awaits any more
  unheard    \* history: rotations whose answer reached no page

vars == <<now, logins, row, store, signedIn, pc, with, call, loose, unheard>>

Token == 0..Seconds
NoCall == [token |-> None, at |-> "none", new |-> None]
Empty == [access |-> None, refresh |-> None, user |-> FALSE]
Holding(t) == [access |-> t, refresh |-> t, user |-> TRUE]
Outcomes == {"ok", "failed", "clash", "broken"}
Rotated == {u.of : u \in unheard}

TypeOK ==
  /\ now \in Token /\ logins \in 0..MaxLogins /\ row \in [Token -> {"none", "live", "revoked"}]
  /\ store \in [access : Token \cup {None}, refresh : Token \cup {None}, user : BOOLEAN]
  /\ signedIn \in [Tabs -> BOOLEAN]
  /\ pc \in [Requests -> {"idle", "asked", "refused", "waiting"}] /\ with \in [Requests -> Token \cup {None}]
  /\ call \in [Tabs -> [token : Token \cup {None}, at : {"none", "sent", "read"} \cup Outcomes, new : Token \cup {None}]]
  /\ loose \subseteq [token : Token, at : {"sent", "read"}] /\ unheard \subseteq [of : Token, is : Token]
  /\ \A t \in Token : t > now => row[t] = "none"

Init ==
  /\ now = 0 /\ logins = 0 /\ row = [t \in Token |-> "none"] /\ store = Empty /\ signedIn = [t \in Tabs |-> FALSE]
  /\ pc = [r \in Requests |-> "idle"] /\ with = [r \in Requests |-> None] /\ call = [t \in Tabs |-> NoCall]
  /\ loose = {} /\ unheard = {}

Expired(token, life) == token + life <= now
-----------------------------------------------------------------------------
(* The server.  token_hash is unique: a pair issued in the second of an       *)
(* earlier one fails, with all of its transaction.                            *)
Login(t) ==
  /\ ~signedIn[t] /\ row[now] = "none" /\ logins < MaxLogins /\ logins' = logins + 1
  /\ row' = [row EXCEPT ![now] = "live"]
  /\ store' = Holding(now) /\ signedIn' = [signedIn EXCEPT ![t] = TRUE]
  /\ UNCHANGED <<now, pc, with, call, loose, unheard>>

(* get_current_user.                                                          *)
ServeStrict(r) ==
  /\ pc[r] = "asked"
  /\ pc' = [pc EXCEPT ![r] = IF with[r] = None \/ with[r] + AccessLife <= now + 1 THEN "refused" ELSE "idle"]
  /\ UNCHANGED <<now, logins, row, store, signedIn, with, call, loose, unheard>>
Serve(r) ==
  /\ pc[r] = "asked"
  /\ pc' = [pc EXCEPT ![r] = IF with[r] = None \/ Expired(with[r], AccessLife) THEN "refused" ELSE "idle"]
  /\ UNCHANGED <<now, logins, row, store, signedIn, with, call, loose, unheard>>

(* refresh reads and checks the record ...                                    *)
Valid(token) == row[token] = "live" /\ ~Expired(token, RefreshLife)
Read(t) ==
  /\ call[t].at = "sent"
  /\ call' = [call EXCEPT ![t].at = IF Valid(call[t].token) THEN "read" ELSE "failed"]
  /\ UNCHANGED <<now, logins, row, store, signedIn, pc, with, loose, unheard>>

(* ... and revokes it and issues the next pair in one commit.                 *)
Rotate(token) == row' = [row EXCEPT ![token] = "revoked", ![now] = "live"]
Commit(t) ==
  /\ call[t].at = "read"
  /\ IF row[now] = "none"
       THEN Rotate(call[t].token) /\ call' = [call EXCEPT ![t].at = "ok", ![t].new = now]
       ELSE call' = [call EXCEPT ![t].at = "clash"] /\ UNCHANGED row
  /\ UNCHANGED <<now, logins, store, signedIn, pc, with, loose, unheard>>

(* The same for a refresh whose page has gone, or whose connection broke; it  *)
(* may as well never have reached the server, or fail there.                  *)
LooseRead(l) ==
  /\ l.at = "sent" /\ loose' = (loose \ {l}) \cup (IF Valid(l.token) THEN {[l EXCEPT !.at = "read"]} ELSE {})
  /\ UNCHANGED <<now, logins, row, store, signedIn, pc, with, call, unheard>>
LooseCommit(l) ==
  /\ l.at = "read" /\ row[now] = "none" /\ loose' = loose \ {l}
  /\ Rotate(l.token) /\ unheard' = unheard \cup {[of |-> l.token, is |-> now]}
  /\ UNCHANGED <<now, logins, store, signedIn, pc, with, call>>
LooseFails(l) == loose' = loose \ {l} /\ UNCHANGED <<now, logins, row, store, signedIn, pc, with, call, unheard>>
-----------------------------------------------------------------------------
(* The browser.                                                               *)
Ask(r) ==
  /\ pc[r] = "idle" /\ signedIn[TabOf[r]]
  /\ pc' = [pc EXCEPT ![r] = "asked"] /\ with' = [with EXCEPT ![r] = store.access]
  /\ UNCHANGED <<now, logins, row, store, signedIn, call, loose, unheard>>

(* A 401: sign out without a refresh token, else wait for the tab's refresh,  *)
(* starting it unless one is under way.                                       *)
Refused(r) ==
  LET t == TabOf[r] IN
  /\ pc[r] = "refused"
  /\ \/ /\ store.refresh = None
        /\ store' = Empty /\ signedIn' = [signedIn EXCEPT ![t] = FALSE]
        /\ pc' = [pc EXCEPT ![r] = "idle"] /\ UNCHANGED call
     \/ /\ store.refresh # None
        /\ call' = [call EXCEPT ![t] = IF @ = NoCall THEN [NoCall EXCEPT !.token = store.refresh, !.at = "sent"] ELSE @]
        /\ pc' = [pc EXCEPT ![r] = "waiting"] /\ UNCHANGED <<store, signedIn>>
  /\ UNCHANGED <<now, logins, row, with, loose, unheard>>

(* What is left of a refresh once its page no longer awaits the answer.       *)
Abandon(t) ==
  /\ call[t].at \in {"sent", "read", "ok"} => Cardinality(loose) + Cardinality(unheard) < MaxLost
  /\ loose' = loose \cup {l \in {[token |-> call[t].token, at |-> call[t].at]} : l.at \in {"sent", "read"}}
  /\ unheard' = unheard \cup (IF call[t].at = "ok" THEN {[of |-> call[t].token, is |-> call[t].new]} ELSE {})

(* The connection breaks before the answer is here.                           *)
Break(t) ==
  /\ call[t].at \in {"sent", "read", "ok"} /\ call' = [call EXCEPT ![t].at = "broken"] /\ Abandon(t)
  /\ UNCHANGED <<now, logins, row, store, signedIn, pc, with>>

(* The refresh settles: its pair is stored or, after an error of any kind, the *)
(* storage is cleared and the tab signed out; every waiting request goes on.  *)
ResolveFirst(t) ==
  /\ call[t].at \in Outcomes /\ call' = [call EXCEPT ![t] = NoCall]
  /\ store' = IF call[t].at = "ok" THEN [store EXCEPT !.access = call[t].new, !.refresh = call[t].new] ELSE Empty
  /\ signedIn' = [signedIn EXCEPT ![t] = @ /\ call[t].at = "ok"]
  /\ \E q \in Requests : TabOf[q] = t /\ pc[q] = "waiting" /\ pc' = [pc EXCEPT ![q] = "idle"]
  /\ UNCHANGED <<now, logins, row, with, loose, unheard>>
ResolveAccess(t) ==
  /\ call[t].at \in Outcomes /\ call' = [call EXCEPT ![t] = NoCall]
  /\ store' = IF call[t].at = "ok" THEN [store EXCEPT !.access = call[t].new] ELSE Empty
  /\ signedIn' = [signedIn EXCEPT ![t] = @ /\ call[t].at = "ok"]
  /\ pc' = [q \in DOMAIN pc |-> IF TabOf[q] = t /\ pc[q] = "waiting" THEN "idle" ELSE pc[q]]
  /\ UNCHANGED <<now, logins, row, with, loose, unheard>>
Resolve(t) ==
  /\ call[t].at \in Outcomes /\ call' = [call EXCEPT ![t] = NoCall]
  /\ store' = IF call[t].at = "ok" THEN [store EXCEPT !.access = call[t].new, !.refresh = call[t].new] ELSE Empty
  /\ signedIn' = [signedIn EXCEPT ![t] = @ /\ call[t].at = "ok"]
  /\ pc' = [q \in DOMAIN pc |-> IF TabOf[q] = t /\ pc[q] = "waiting" THEN "idle" ELSE pc[q]]
  /\ UNCHANGED <<now, logins, row, with, loose, unheard>>

Logout(t) ==
  /\ signedIn[t] /\ store' = Empty /\ signedIn' = [signedIn EXCEPT ![t] = FALSE]
  /\ UNCHANGED <<now, logins, row, pc, with, call, loose, unheard>>

(* A page loaded anew, whatever it was doing, takes its user from the storage. *)
Reload(t) ==
  /\ signedIn' = [signedIn EXCEPT ![t] = store.user] /\ call' = [call EXCEPT ![t] = NoCall] /\ Abandon(t)
  /\ pc' = [q \in DOMAIN pc |-> IF TabOf[q] = t THEN "idle" ELSE pc[q]]
  /\ UNCHANGED <<now, logins, row, store, with>>

Tick == now < Seconds /\ now' = now + 1 /\ UNCHANGED <<logins, row, store, signedIn, pc, with, call, loose, unheard>>

Progress == (\E r \in Requests : Serve(r) \/ Refused(r)) \/ \E t \in Tabs : Read(t) \/ Commit(t) \/ Resolve(t)
Faults == (\E t \in Tabs : Break(t) \/ Reload(t)) \/ \E l \in loose : LooseRead(l) \/ LooseCommit(l) \/ LooseFails(l)
Next == Progress \/ Faults \/ (\E r \in Requests : Ask(r)) \/ (\E t \in Tabs : Login(t) \/ Logout(t)) \/ Tick
Spec == Init /\ [][Next]_vars
FairSpec ==
  /\ Spec
  /\ \A r \in Requests : WF_vars(Serve(r)) /\ WF_vars(Refused(r))
  /\ \A t \in Tabs : WF_vars(Read(t) \/ Commit(t) \/ Break(t)) /\ WF_vars(Resolve(t))
-----------------------------------------------------------------------------
(* A stored refresh token that the server would refuse has been rotated, and  *)
(* the answer that replaces it is on its way to a page or never reached one.  *)
StoredIsLive ==
  store.refresh # None /\ row[store.refresh] # "live" =>
    \/ \E t \in Tabs : call[t].at = "ok" /\ call[t].token = store.refresh
    \/ store.refresh \in Rotated

(* Every request comes to an end: none waits for a refresh that is over.      *)
EveryRequestEnds == \A r \in Requests : pc[r] # "idle" ~> pc[r] = "idle"

(* A tab is signed out only by its user, when the stored refresh token is     *)
(* gone, expired or rotated by an answer that was lost, or on an error of the *)
(* connection or the server.                                                  *)
SignedOutForAReason ==
  \A t \in Tabs : signedIn[t] /\ ~signedIn'[t] =>
    \/ Logout(t) \/ Reload(t)
    \/ store.refresh = None \/ Expired(store.refresh, RefreshLife) \/ store.refresh \in Rotated
    \/ call[t].at \in {"broken", "clash"}
StaysSignedIn == [][SignedOutForAReason]_vars

(* The server fails to rotate a refresh token it found valid only in the      *)
(* second of a pair that reached no page.                                     *)
Rotates ==
  \A t \in Tabs : call[t].at = "read" /\ call'[t].at = "clash" => \E u \in unheard : u.is = now
=============================================================================
