--------------------------- MODULE OfficeDeskProofs -------------------------
(* Why the browser is left with a refresh token the server accepts, for any   *)
(* number of tabs and requests, although each tab refreshes on its own and    *)
(* all of them share one storage; why reminders stay due, and the queue in    *)
(* order, under any rules that are saved; and why the images and lines of the *)
(* catalog stay consistent however requests and scripts overlap.              *)
EXTENDS OfficeDesk, FiniteSetTheorems, SequenceTheorems, WellFoundedInduction, TLAPS

States == {"none", "sent", "read"} \cup Outcomes
Calls == [token : Token \cup {None}, at : States, new : Token \cup {None}]

(* StoredIsLive is not inductive: a pair that a refresh has just brought must *)
(* still be known to nobody else, and every token in use must be one that was *)
(* issued, so that a pair issued now is a new one.                            *)
Private(t) ==
  /\ call[t].at \in {"sent", "read", "ok"} => call[t].token # None
  /\ call[t].token # None => row[call[t].token] # "none"
  /\ call[t].at = "ok" =>
       /\ call[t].new \in Token /\ row[call[t].new] = "live" /\ store.refresh # call[t].new
       /\ \A u \in Tabs : /\ call[u].token # call[t].new
                          /\ u # t /\ call[u].at = "ok" => call[u].new # call[t].new
       /\ \A l \in loose : l.token # call[t].new

StoreIssued == store.refresh # None => row[store.refresh] # "none"

LooseIssued == \A l \in loose : row[l.token] # "none"

SessionInv == TypeOK /\ StoreIssued /\ LooseIssued /\ StoredIsLive /\ \A t \in Tabs : Private(t)

LEMMA TokensTyped ==
  ASSUME TypeOK
  PROVE  /\ now \in Token /\ row \in [Token -> {"none", "live", "revoked"}]
         /\ store.refresh \in Token \cup {None} /\ store.access \in Token \cup {None} /\ None \notin Token
         /\ call \in [Tabs -> Calls]
         /\ \A t \in Tabs : call[t].token \in Token \cup {None} /\ call[t].new \in Token \cup {None}
                            /\ call[t].at \in States
         /\ loose \subseteq [token : Token, at : {"sent", "read"}] /\ unheard \subseteq [of : Token, is : Token]
         /\ \A l \in loose : l.token \in Token
  BY SessionsAssumption DEF TypeOK, Calls, States, Token

LEMMA NoCallTyped == NoCall \in Calls /\ NoCall.at = "none" /\ NoCall.token = None
  BY DEF NoCall, Calls, States

LEMMA StoresTyped ==
  /\ Empty \in [access : Token \cup {None}, refresh : Token \cup {None}, user : BOOLEAN]
  /\ Empty.refresh = None
  /\ \A t \in Token : /\ Holding(t) \in [access : Token \cup {None}, refresh : Token \cup {None}, user : BOOLEAN]
                      /\ Holding(t).refresh = t
  BY DEF Empty, Holding

LEMMA InitSession == Init => SessionInv
  <1> SUFFICES ASSUME Init PROVE SessionInv
    OBVIOUS
  <1>1. TypeOK
    BY NoCallTyped, StoresTyped, SessionsAssumption DEF Init, TypeOK, Token, Calls, States
  <1>2. StoreIssued /\ LooseIssued /\ StoredIsLive
    BY StoresTyped DEF Init, StoreIssued, LooseIssued, StoredIsLive
  <1>3. \A t \in Tabs : Private(t)
    BY NoCallTyped DEF Init, Private
  <1> QED BY <1>1, <1>2, <1>3 DEF SessionInv

(* Steps that touch neither the tokens nor the calls.                         *)
LEMMA TokensKept ==
  ASSUME SessionInv, UNCHANGED <<row, store, call, loose, unheard>>
  PROVE  StoreIssued' /\ LooseIssued' /\ StoredIsLive' /\ \A t \in Tabs : Private(t)'
  BY DEF SessionInv, StoreIssued, LooseIssued, StoredIsLive, Rotated, Private

LEMMA LoginKeeps ==
  ASSUME SessionInv, NEW t \in Tabs, Login(t)
  PROVE  SessionInv'
  <1>1. /\ row[now] = "none" /\ row' = [row EXCEPT ![now] = "live"] /\ store' = Holding(now)
        /\ signedIn' = [signedIn EXCEPT ![t] = TRUE] /\ logins' = logins + 1 /\ logins < MaxLogins
        /\ UNCHANGED <<now, pc, with, call, loose, unheard>>
    BY DEF Login
  <1>2. TypeOK
    BY DEF SessionInv
  <1>3. now \in Token /\ store'.refresh = now /\ row'[now] = "live"
    BY <1>1, <1>2, TokensTyped, StoresTyped
  <1>4. TypeOK'
    BY <1>1, <1>2, <1>3, StoresTyped, SessionsAssumption DEF TypeOK, Token
  <1>5. StoreIssued' /\ LooseIssued' /\ StoredIsLive'
    BY <1>1, <1>2, <1>3, TokensTyped DEF SessionInv, StoreIssued, LooseIssued, StoredIsLive
  <1>6. ASSUME NEW u \in Tabs PROVE Private(u)'
    <2>1. Private(u)
      BY DEF SessionInv
    <2>2. \A x \in Token : row[x] # "none" => x # now /\ row'[x] = row[x]
      BY <1>1, <1>2, TokensTyped
    <2> QED BY <1>1, <1>2, <1>3, <2>1, <2>2, TokensTyped DEF Private
  <1> QED BY <1>4, <1>5, <1>6 DEF SessionInv

LEMMA ReadKeeps ==
  ASSUME SessionInv, NEW t \in Tabs, Read(t)
  PROVE  SessionInv'
  <1>1. PICK a \in {"read", "failed"} : call' = [call EXCEPT ![t] = [call[t] EXCEPT !.at = a]]
    BY DEF Read
  <1> DEFINE c == [call[t] EXCEPT !.at = a]
  <1>2. TypeOK /\ call[t] \in Calls /\ call[t].at = "sent" /\ UNCHANGED <<now, logins, row, store, signedIn, pc, with, loose, unheard>>
    BY TokensTyped DEF Read, SessionInv
  <1>3. c \in Calls /\ c.at = a /\ c.token = call[t].token /\ c.new = call[t].new
    BY <1>2 DEF Calls, States, Outcomes
  <1> HIDE DEF c
  <1>4. call' = [call EXCEPT ![t] = c] /\ call \in [Tabs -> Calls]
    BY <1>1, <1>2, TokensTyped DEF c
  <1>5. call' \in [Tabs -> Calls]
    BY <1>3, <1>4
  <1>6. TypeOK'
    BY <1>2, <1>5 DEF TypeOK, Calls, States
  <1>7. StoreIssued' /\ LooseIssued' /\ StoredIsLive'
    BY <1>2, <1>3, <1>4 DEF SessionInv, StoreIssued, LooseIssued, StoredIsLive, Rotated
  <1>8. ASSUME NEW u \in Tabs PROVE Private(u)'
    BY <1>2, <1>3, <1>4 DEF SessionInv, Private
  <1> QED BY <1>6, <1>7, <1>8 DEF SessionInv

LEMMA CommitKeeps ==
  ASSUME SessionInv, NEW t \in Tabs, Commit(t)
  PROVE  SessionInv'
  <1>1. TypeOK /\ call[t] \in Calls /\ call[t].at = "read" /\ UNCHANGED <<now, logins, store, signedIn, pc, with, loose, unheard>>
    BY TokensTyped DEF Commit, SessionInv
  <1>2. call[t].token \in Token /\ row[call[t].token] # "none" /\ now \in Token
    BY <1>1, TokensTyped DEF SessionInv, Private
  <1>3. CASE row[now] = "none"
    <2> DEFINE c == [call[t] EXCEPT !.at = "ok", !.new = now]
    <2>1. /\ row' = [row EXCEPT ![call[t].token] = "revoked", ![now] = "live"]
          /\ call' = [call EXCEPT ![t] = c]
      BY <1>3 DEF Commit, Rotate
    <2>2. c \in Calls /\ c.at = "ok" /\ c.token = call[t].token /\ c.new = now
      BY <1>1, <1>2 DEF Calls, States, Outcomes
    <2> HIDE DEF c
    <2>3. call' \in [Tabs -> Calls] /\ call'[t] = c /\ \A u \in Tabs : u # t => call'[u] = call[u]
      BY <1>1, <2>1, <2>2, TokensTyped
    <2>4. call[t].token # now /\ row'[now] = "live" /\ row' \in [Token -> {"none", "live", "revoked"}]
      BY <1>1, <1>2, <1>3, <2>1, TokensTyped
    <2>5. /\ \A x \in Token : row[x] # "none" => x # now /\ row'[x] # "none"
          /\ \A x \in Token : row[x] = "live" /\ x # call[t].token => row'[x] = "live"
      BY <1>1, <1>2, <1>3, <2>1, TokensTyped
    <2>6. TypeOK'
      <3>1. \A x \in Token : x > now => row'[x] = "none"
        <4>1. \A x \in Token : x > now => row[x] = "none" /\ x # now
          BY <1>1, SessionsAssumption DEF TypeOK, Token
        <4> QED BY <1>1, <1>2, <2>1, <4>1, TokensTyped
      <3> QED BY <1>1, <2>3, <2>4, <3>1 DEF TypeOK, Calls, States
    <2>8. StoreIssued' /\ LooseIssued' /\ StoredIsLive'
      BY <1>1, <2>2, <2>3, <2>5, TokensTyped DEF SessionInv, StoreIssued, LooseIssued, StoredIsLive, Rotated
    <2>9. ASSUME NEW u \in Tabs, u # t PROVE Private(u)'
      <3>1. Private(u) /\ call'[u] = call[u] /\ call[u].token \in Token \cup {None}
        BY <1>1, <2>3, <2>9, TokensTyped DEF SessionInv
      <3>2. call[u].at = "ok" => call[t].token # call[u].new /\ call[u].new # now
        BY <2>5, <3>1 DEF Private
      <3>3. \A v \in Tabs : call'[v].token = call[v].token
        BY <2>2, <2>3
      <3> QED BY <1>1, <2>2, <2>3, <2>5, <3>1, <3>2, <3>3 DEF Private
    <2>10. Private(t)'
      <3>1. \A v \in Tabs : call[v].token # now
        BY <1>1, <2>5, TokensTyped DEF SessionInv, Private
      <3>2. store.refresh # now
        BY <1>1, <2>5, TokensTyped DEF SessionInv, StoreIssued
      <3>3. \A v \in Tabs : v # t /\ call[v].at = "ok" => call[v].new # now
        BY <2>5 DEF SessionInv, Private
      <3>4. row'[call[t].token] # "none" /\ call[t].token # None
        BY <1>1, <1>2, <2>5, TokensTyped
      <3>5. \A l \in loose : l.token # now
        BY <1>1, <2>5, TokensTyped DEF SessionInv, LooseIssued
      <3> QED BY <1>1, <1>2, <2>2, <2>3, <2>4, <3>1, <3>2, <3>3, <3>4, <3>5 DEF Private
    <2> QED BY <2>6, <2>8, <2>9, <2>10 DEF SessionInv
  <1>4. CASE row[now] # "none"
    <2> DEFINE c == [call[t] EXCEPT !.at = "clash"]
    <2>1. row' = row /\ call' = [call EXCEPT ![t] = c]
      BY <1>4 DEF Commit
    <2>2. c \in Calls /\ c.at = "clash" /\ c.token = call[t].token /\ c.new = call[t].new
      BY <1>1 DEF Calls, States, Outcomes
    <2> HIDE DEF c
    <2>3. call' \in [Tabs -> Calls] /\ call'[t] = c /\ \A u \in Tabs : u # t => call'[u] = call[u]
      BY <1>1, <2>1, <2>2, TokensTyped
    <2>4. TypeOK'
      BY <1>1, <2>1, <2>3 DEF TypeOK, Calls, States
    <2>6. StoreIssued' /\ LooseIssued' /\ StoredIsLive'
      BY <1>1, <2>1, <2>2, <2>3 DEF SessionInv, StoreIssued, LooseIssued, StoredIsLive, Rotated
    <2>7. ASSUME NEW u \in Tabs PROVE Private(u)'
      BY <1>1, <2>1, <2>2, <2>3 DEF SessionInv, Private
    <2> QED BY <2>4, <2>6, <2>7 DEF SessionInv
  <1> QED BY <1>3, <1>4

(* Logging out, and every other way to an empty storage.                      *)
LEMMA RefusedKeeps ==
  ASSUME SessionInv, NEW r \in Requests, Refused(r)
  PROVE  SessionInv'
  <1> DEFINE t == TabOf[r]
  <1>1. TypeOK /\ t \in Tabs /\ UNCHANGED <<now, logins, row, with, loose, unheard>>
    BY SessionsAssumption DEF Refused, SessionInv
  <1>2. CASE store.refresh = None
    <2>1. /\ store' = Empty /\ signedIn' = [signedIn EXCEPT ![t] = FALSE]
          /\ pc' = [pc EXCEPT ![r] = "idle"] /\ call' = call
      BY <1>2 DEF Refused
    <2> HIDE DEF t
    <2>2. TypeOK'
      BY <1>1, <2>1, StoresTyped DEF TypeOK
    <2>3. StoreIssued' /\ LooseIssued' /\ StoredIsLive' /\ \A u \in Tabs : Private(u)'
      BY <1>1, <1>2, <2>1, StoresTyped DEF SessionInv, StoreIssued, LooseIssued, StoredIsLive, Private
    <2> QED BY <2>2, <2>3 DEF SessionInv
  <1>3. CASE store.refresh # None
    <2> DEFINE n == [NoCall EXCEPT !.token = store.refresh, !.at = "sent"]
               c == IF call[t] = NoCall THEN n ELSE call[t]
    <2>1. /\ call' = [call EXCEPT ![t] = c]
          /\ pc' = [pc EXCEPT ![r] = "waiting"] /\ UNCHANGED <<store, signedIn>>
      BY <1>3 DEF Refused
    <2>2. n \in Calls /\ n.token = store.refresh /\ n.at = "sent"
      BY <1>1, TokensTyped DEF NoCall, Calls, States
    <2>3. c \in Calls /\ c # NoCall /\ (c = call[t] \/ (c.token = store.refresh /\ c.at = "sent"))
      BY <1>1, <2>2, NoCallTyped, TokensTyped
    <2> HIDE DEF n, c, t
    <2>4. call' \in [Tabs -> Calls] /\ call'[t] = c /\ \A u \in Tabs : u # t => call'[u] = call[u]
      BY <1>1, <2>1, <2>3, TokensTyped
    <2>5. TypeOK'
      BY <1>1, <2>1, <2>4 DEF TypeOK, Calls, States
    <2>6. StoreIssued' /\ LooseIssued' /\ StoredIsLive'
      <3>1. \A u \in Tabs : call[u].at = "ok" => call'[u] = call[u]
        BY <2>1, <2>4, NoCallTyped DEF c
      <3> QED BY <1>1, <2>1, <3>1 DEF SessionInv, StoreIssued, LooseIssued, StoredIsLive, Rotated
    <2>7. ASSUME NEW u \in Tabs PROVE Private(u)'
      <3>1. Private(u) /\ StoreIssued
        BY DEF SessionInv
      <3>2. \A v \in Tabs : call'[v] = call[v] \/ (call'[v].token = store.refresh /\ call'[v].at = "sent")
        BY <1>1, <2>3, <2>4
      <3> QED BY <1>1, <1>3, <2>1, <3>1, <3>2 DEF Private, StoreIssued
    <2> QED BY <2>5, <2>6, <2>7 DEF SessionInv
  <1> QED BY <1>2, <1>3

LEMMA ResolveKeeps ==
  ASSUME SessionInv, NEW t \in Tabs, Resolve(t)
  PROVE  SessionInv'
  <1>1. /\ TypeOK /\ UNCHANGED <<now, logins, row, with, loose, unheard>> /\ call' = [call EXCEPT ![t] = NoCall]
        /\ call[t].at \in Outcomes
    BY DEF Resolve, SessionInv
  <1>2. call' \in [Tabs -> Calls] /\ call'[t] = NoCall /\ \A u \in Tabs : u # t => call'[u] = call[u]
    BY <1>1, TokensTyped, NoCallTyped
  <1>3. /\ store' \in [access : Token \cup {None}, refresh : Token \cup {None}, user : BOOLEAN]
        /\ store'.refresh = IF call[t].at = "ok" THEN call[t].new ELSE None
    <2>1. CASE call[t].at = "ok"
      <3>1. store' = [store EXCEPT !.access = call[t].new, !.refresh = call[t].new]
        BY <2>1 DEF Resolve
      <3> QED BY <1>1, <2>1, <3>1, TokensTyped DEF TypeOK
    <2>2. CASE call[t].at # "ok"
      BY <2>2, StoresTyped DEF Resolve
    <2> QED BY <2>1, <2>2
  <1>4. TypeOK'
    <2>1. signedIn' \in [Tabs -> BOOLEAN]
      <3>1. signedIn' = [signedIn EXCEPT ![t] = signedIn[t] /\ call[t].at = "ok"]
        BY DEF Resolve
      <3>2. (signedIn[t] /\ call[t].at = "ok") \in BOOLEAN
        OBVIOUS
      <3> QED BY <1>1, <3>1, <3>2 DEF TypeOK
    <2>2. pc' \in [Requests -> {"idle", "asked", "refused", "waiting"}]
      BY <1>1 DEF TypeOK, Resolve
    <2> QED BY <1>1, <1>2, <1>3, <2>1, <2>2 DEF TypeOK, Calls, States
  <1>5. StoreIssued' /\ LooseIssued' /\ StoredIsLive'
    BY <1>1, <1>3 DEF SessionInv, Private, StoreIssued, LooseIssued, StoredIsLive
  <1>6. ASSUME NEW u \in Tabs PROVE Private(u)'
    <2>1. Private(u) /\ Private(t)
      BY DEF SessionInv
    <2>2. \A v \in Tabs : call'[v] = call[v] \/ (call'[v].token = None /\ call'[v].at = "none")
      BY <1>2, NoCallTyped
    <2>3. call'[u].at = "ok" => u # t /\ call'[u] = call[u] /\ call[u].new \in Token /\ None \notin Token
      BY <1>1, <1>2, <2>1, NoCallTyped, TokensTyped DEF Private
    <2>4. call'[u].at = "ok" => store'.refresh # call[u].new
      BY <1>3, <2>1, <2>3 DEF Private
    <2> QED BY <1>1, <2>1, <2>2, <2>3, <2>4 DEF Private
  <1> QED BY <1>4, <1>5, <1>6 DEF SessionInv

(* What a page leaves behind stays known to nobody else.                      *)
LEMMA AbandonKeeps ==
  ASSUME SessionInv, NEW t \in Tabs, NEW c \in Calls, c.at \in {"none", "broken"}, c.token \in {None, call[t].token},
         call' = [call EXCEPT ![t] = c], Abandon(t), UNCHANGED <<now, logins, row, store, with>>,
         signedIn' \in [Tabs -> BOOLEAN], pc' \in [Requests -> {"idle", "asked", "refused", "waiting"}]
  PROVE  SessionInv'
  <1>1. TypeOK /\ Private(t) /\ call'[t] = c /\ \A u \in Tabs : u # t => call'[u] = call[u]
    BY TokensTyped DEF SessionInv
  <1>2. \A l \in loose' : l \in loose \/ (l = [token |-> call[t].token, at |-> call[t].at] /\ call[t].at \in {"sent", "read"})
    BY DEF Abandon
  <1>3. \A l \in loose' : l \in [token : Token, at : {"sent", "read"}] /\ (l \in loose \/ l.token = call[t].token)
    BY <1>1, <1>2, TokensTyped DEF Private
  <1>4. unheard \subseteq unheard' /\ unheard' \subseteq [of : Token, is : Token]
    BY <1>1, TokensTyped DEF Private, Abandon
  <1>5. TypeOK'
    <2>1. call' \in [Tabs -> Calls]
      BY <1>1, TokensTyped
    <2> QED BY <1>1, <1>3, <1>4, <2>1 DEF TypeOK, Calls, States
  <1>6. StoreIssued' /\ LooseIssued'
    <2>1. \A l \in loose' : l.token \in Token
      BY <1>3
    <2>2. call[t].token # None => row[call[t].token] # "none"
      BY <1>1 DEF Private
    <2> QED BY <1>1, <1>3, <2>1, <2>2, TokensTyped DEF SessionInv, StoreIssued, LooseIssued
  <1>7. StoredIsLive'
    <2> SUFFICES ASSUME store.refresh # None, row[store.refresh] # "live"
                 PROVE  \/ \E u \in Tabs : call'[u].at = "ok" /\ call'[u].token = store.refresh
                        \/ store.refresh \in Rotated'
      BY DEF StoredIsLive
    <2>1. Rotated \subseteq Rotated'
      BY <1>4 DEF Rotated
    <2>2. CASE call[t].at = "ok" /\ call[t].token = store.refresh
      <3>1. [of |-> call[t].token, is |-> call[t].new] \in unheard'
        BY <2>2 DEF Abandon
      <3> QED BY <2>2, <3>1 DEF Rotated
    <2> QED BY <1>1, <2>1, <2>2 DEF SessionInv, StoredIsLive
  <1>8. ASSUME NEW u \in Tabs PROVE Private(u)'
    <2>1. Private(u)
      BY DEF SessionInv
    <2>2. \A v \in Tabs : call'[v].token \in {None, call[v].token} /\ (call'[v].at = "ok" => call'[v] = call[v] /\ call[v].at = "ok")
      BY <1>1
    <2>3. u # t => call'[u] = call[u]
      BY <1>1
    <2>4. CASE u = t
      BY <1>1, <2>1, <2>4 DEF Private
    <2>5. CASE u # t
      BY <1>1, <1>3, <2>1, <2>2, <2>5, TokensTyped DEF Private
    <2> QED BY <2>4, <2>5
  <1> QED BY <1>5, <1>6, <1>7, <1>8 DEF SessionInv

LEMMA FaultsKeep ==
  ASSUME SessionInv, Faults
  PROVE  SessionInv'
  <1>1. ASSUME NEW t \in Tabs, Break(t) PROVE SessionInv'
    <2> DEFINE c == [call[t] EXCEPT !.at = "broken"]
    <2>1. call[t] \in Calls /\ c \in Calls /\ c.at = "broken" /\ c.token = call[t].token
      BY TokensTyped DEF SessionInv, Calls, States, Outcomes
    <2>2. call' = [call EXCEPT ![t] = c] /\ Abandon(t) /\ UNCHANGED <<now, logins, row, store, signedIn, pc, with>>
      BY <1>1 DEF Break
    <2> HIDE DEF c
    <2> QED BY <2>1, <2>2, AbandonKeeps DEF SessionInv, TypeOK
  <1>2. ASSUME NEW t \in Tabs, Reload(t) PROVE SessionInv'
    <2>1. /\ store.user \in BOOLEAN /\ call' = [call EXCEPT ![t] = NoCall] /\ Abandon(t)
          /\ UNCHANGED <<now, logins, row, store, with>>
      BY <1>2 DEF Reload, SessionInv, TypeOK
    <2>2. signedIn' \in [Tabs -> BOOLEAN] /\ pc' \in [Requests -> {"idle", "asked", "refused", "waiting"}]
      BY <1>2, <2>1 DEF Reload, SessionInv, TypeOK
    <2> QED BY <2>1, <2>2, NoCallTyped, AbandonKeeps
  <1>3. ASSUME NEW l \in loose, LooseRead(l) PROVE SessionInv'
    <2>1. TypeOK /\ l \in [token : Token, at : {"sent", "read"}] /\ UNCHANGED <<now, logins, row, store, signedIn, pc, with, call, unheard>>
      BY <1>3, TokensTyped DEF LooseRead, SessionInv
    <2>2. \A k \in loose' : k \in [token : Token, at : {"sent", "read"}] /\ \E m \in loose : k.token = m.token
      BY <1>3, <2>1, TokensTyped DEF LooseRead
    <2>3. TypeOK'
      BY <2>1, <2>2 DEF TypeOK
    <2>4. StoreIssued' /\ LooseIssued' /\ StoredIsLive'
      BY <2>1, <2>2 DEF SessionInv, StoreIssued, LooseIssued, StoredIsLive, Rotated
    <2>5. \A u \in Tabs : Private(u)'
      BY <2>1, <2>2 DEF SessionInv, Private
    <2> QED BY <2>3, <2>4, <2>5 DEF SessionInv
  <1>4. ASSUME NEW l \in loose, LooseCommit(l) PROVE SessionInv'
    <2>1. /\ TypeOK /\ l \in [token : Token, at : {"sent", "read"}] /\ row[now] = "none" /\ now \in Token
          /\ row' = [row EXCEPT ![l.token] = "revoked", ![now] = "live"] /\ loose' = loose \ {l}
          /\ unheard' = unheard \cup {[of |-> l.token, is |-> now]}
          /\ UNCHANGED <<now, logins, store, signedIn, pc, with, call>>
      BY <1>4, TokensTyped DEF LooseCommit, Rotate, SessionInv
    <2>2. l.token \in Token /\ row[l.token] # "none"
      BY <2>1 DEF SessionInv, LooseIssued
    <2>3. /\ \A x \in Token : row[x] # "none" => x # now /\ row'[x] # "none"
          /\ \A x \in Token : row[x] = "live" /\ x # l.token => row'[x] = "live"
          /\ row' \in [Token -> {"none", "live", "revoked"}]
      BY <2>1, <2>2, TokensTyped
    <2>4. TypeOK'
      <3>1. \A x \in Token : x > now => row'[x] = "none"
        <4>1. \A x \in Token : x > now => row[x] = "none" /\ x # now
          BY <2>1, SessionsAssumption DEF TypeOK, Token
        <4> QED BY <2>1, <2>2, <4>1, TokensTyped
      <3> QED BY <2>1, <2>2, <2>3, <3>1 DEF TypeOK
    <2>5. StoreIssued' /\ LooseIssued'
      BY <2>1, <2>3, TokensTyped DEF SessionInv, StoreIssued, LooseIssued
    <2>6. StoredIsLive'
      <3>1. unheard \subseteq unheard' /\ [of |-> l.token, is |-> now] \in unheard'
        BY <2>1
      <3>2. l.token \in Rotated' /\ Rotated \subseteq Rotated'
        BY <3>1 DEF Rotated
      <3> QED BY <2>1, <2>3, <3>2, TokensTyped DEF SessionInv, StoredIsLive
    <2>7. ASSUME NEW u \in Tabs PROVE Private(u)'
      <3>1. Private(u)
        BY DEF SessionInv
      <3>2. call[u].at = "ok" => l.token # call[u].new
        BY <3>1 DEF Private
      <3> QED BY <2>1, <2>3, <3>1, <3>2, TokensTyped DEF Private
    <2> QED BY <2>4, <2>5, <2>6, <2>7 DEF SessionInv
  <1>5. ASSUME NEW l \in loose, LooseFails(l) PROVE SessionInv'
    <2>1. TypeOK /\ loose' = loose \ {l} /\ UNCHANGED <<now, logins, row, store, signedIn, pc, with, call, unheard>>
      BY <1>5 DEF LooseFails, SessionInv
    <2>2. TypeOK'
      BY <2>1 DEF TypeOK
    <2>3. StoreIssued' /\ LooseIssued' /\ StoredIsLive' /\ \A u \in Tabs : Private(u)'
      BY <2>1 DEF SessionInv, StoreIssued, LooseIssued, StoredIsLive, Rotated, Private
    <2> QED BY <2>2, <2>3 DEF SessionInv
  <1> QED BY <1>1, <1>2, <1>3, <1>4, <1>5 DEF Faults

LEMMA RestKeeps ==
  ASSUME SessionInv,
         \/ \E r \in Requests : Serve(r) \/ Ask(r)
         \/ \E t \in Tabs : Logout(t)
         \/ Tick
  PROVE  SessionInv'
  <1>1. ASSUME NEW r \in Requests, Serve(r) PROVE SessionInv'
    <2>1. TypeOK'
      BY <1>1 DEF SessionInv, TypeOK, Serve
    <2> QED BY <1>1, <2>1, TokensKept DEF SessionInv, Serve
  <1>2. ASSUME NEW r \in Requests, Ask(r) PROVE SessionInv'
    <2>1. store.access \in Token \cup {None}
      BY TokensTyped DEF SessionInv
    <2>2. TypeOK'
      BY <1>2, <2>1 DEF SessionInv, TypeOK, Ask
    <2> QED BY <1>2, <2>2, TokensKept DEF SessionInv, Ask
  <1>3. ASSUME NEW t \in Tabs, Logout(t) PROVE SessionInv'
    <2>1. TypeOK'
      BY <1>3, StoresTyped DEF SessionInv, TypeOK, Logout
    <2>2. None \notin Token
      BY TokensTyped DEF SessionInv
    <2>3. StoreIssued' /\ LooseIssued' /\ StoredIsLive' /\ \A u \in Tabs : Private(u)'
      BY <1>3, <2>2, StoresTyped DEF SessionInv, StoreIssued, LooseIssued, StoredIsLive, Private, Logout
    <2> QED BY <2>1, <2>3 DEF SessionInv
  <1>4. CASE Tick
    <2>1. TypeOK'
      BY <1>4, SessionsAssumption DEF SessionInv, TypeOK, Tick, Token
    <2> QED BY <1>4, <2>1, TokensKept DEF SessionInv, Tick
  <1> QED BY <1>1, <1>2, <1>3, <1>4

LEMMA NextSession == SessionInv /\ [Next]_vars => SessionInv'
  <1> SUFFICES ASSUME SessionInv, [Next]_vars PROVE SessionInv'
    OBVIOUS
  <1>1. CASE UNCHANGED vars
    BY <1>1, TokensKept DEF vars, SessionInv, TypeOK
  <1> QED BY <1>1, LoginKeeps, ReadKeeps, CommitKeeps, RefusedKeeps, ResolveKeeps, FaultsKeep, RestKeeps DEF Next, Progress

(* Every variable keeps its type; no token is issued before its second.       *)
THEOREM SessionsTyped == Spec => []TypeOK
  <1>1. SessionInv => TypeOK
    BY DEF SessionInv
  <1> QED BY <1>1, InitSession, NextSession, PTL DEF Spec

(* The stored refresh token is one the server accepts, unless the answer of   *)
(* the refresh that rotated it is on its way to a page or was lost.           *)
THEOREM StoredTokenLives == Spec => []StoredIsLive
  <1>1. SessionInv => StoredIsLive
    BY DEF SessionInv
  <1> QED BY <1>1, InitSession, NextSession, PTL DEF Spec
-----------------------------------------------------------------------------
(* A tab of its own: its only call is the one its only request waits for, and *)
(* what it has stored is the latest pair there is, but for pairs that reached *)
(* no page and the one on its way.                                            *)
Sole == call[SoleTab]
Orphans == {u.is : u \in unheard}
IssuedUpTo(k) ==
  \A x \in Token : row[x] # "none" => x <= k \/ x \in Orphans \/ (Sole.at = "ok" /\ x = Sole.new)

SoleInv ==
  /\ \A q \in Requests \ {SoleRequest} : pc[q] = "idle"
  /\ \A u \in Tabs \ {SoleTab} : call[u] = NoCall
  /\ logins \in {0, 1}
  /\ logins = 0 => /\ store = Empty /\ \A x \in Token : row[x] = "none"
                   /\ pc[SoleRequest] = "idle" /\ Sole = NoCall /\ loose = {} /\ unheard = {}
  /\ signedIn[SoleTab] = store.user /\ store.access = store.refresh
  /\ signedIn[SoleTab] => store.refresh # None
  /\ pc[SoleRequest] = "waiting" <=> Sole # NoCall
  /\ Sole.at = "none" => Sole = NoCall
  /\ pc[SoleRequest] \in {"asked", "refused"} => with[SoleRequest] # None /\ store.refresh \in {None, with[SoleRequest]}
  /\ pc[SoleRequest] = "refused" => with[SoleRequest] < now
  /\ Sole.at = "none" /\ store.refresh # None => IssuedUpTo(store.refresh)
  /\ Sole.at # "none" => store.refresh \in {None, Sole.token} /\ Sole.token \in Token /\ IssuedUpTo(Sole.token)
  /\ Sole.at \in {"sent", "read"} => (row[Sole.token] = "live" \/ Sole.token \in Rotated) /\ Sole.token < now
  /\ Sole.at = "ok" => Sole.new \in Token /\ Sole.token < Sole.new
  /\ Sole.at = "failed" => store.refresh = None \/ Expired(store.refresh, RefreshLife) \/ store.refresh \in Rotated

LEMMA OneTabSteps ==
  ASSUME OneTab!Next, logins \in Nat
  PROVE  \/ Serve(SoleRequest) \/ Refused(SoleRequest) \/ Ask(SoleRequest)
         \/ Read(SoleTab) \/ Commit(SoleTab) \/ Resolve(SoleTab)
         \/ Login(SoleTab) /\ logins = 0
         \/ Logout(SoleTab) \/ Tick
         \/ Break(SoleTab) \/ Reload(SoleTab)
         \/ \E l \in loose : LooseRead(l) \/ LooseCommit(l) \/ LooseFails(l)
  <1>1. OneTab!Serve(SoleRequest) => Serve(SoleRequest)
    BY DEF OneTab!Serve, Serve, OneTab!Expired, Expired
  <1>2. OneTab!Refused(SoleRequest) => Refused(SoleRequest)
    BY DEF OneTab!Refused, Refused, OneTab!NoCall, NoCall, OneTab!Empty, Empty
  <1>3. OneTab!Ask(SoleRequest) => Ask(SoleRequest)
    BY DEF OneTab!Ask, Ask
  <1>4. OneTab!Read(SoleTab) => Read(SoleTab)
    BY DEF OneTab!Read, Read, OneTab!Valid, Valid, OneTab!Expired, Expired
  <1>5. OneTab!Commit(SoleTab) => Commit(SoleTab)
    BY DEF OneTab!Commit, Commit, OneTab!Rotate, Rotate
  <1>6. OneTab!Resolve(SoleTab) => Resolve(SoleTab)
    BY DEF OneTab!Resolve, Resolve, OneTab!Outcomes, Outcomes, OneTab!NoCall, NoCall, OneTab!Empty, Empty
  <1>7. OneTab!Login(SoleTab) /\ logins \in Nat => Login(SoleTab) /\ logins = 0
    BY BrowserAssumption, SessionsAssumption DEF OneTab!Login, Login, OneTab!Holding, Holding
  <1>8. OneTab!Logout(SoleTab) => Logout(SoleTab)
    BY DEF OneTab!Logout, Logout, OneTab!Empty, Empty
  <1>9. OneTab!Tick => Tick
    BY DEF OneTab!Tick, Tick
  <1>10. OneTab!Break(SoleTab) => Break(SoleTab)
    BY DEF OneTab!Break, Break, OneTab!Abandon, Abandon, OneTab!Cardinality, Cardinality
  <1>11. OneTab!Reload(SoleTab) => /\ signedIn' = [signedIn EXCEPT ![SoleTab] = store.user]
                                  /\ call' = [call EXCEPT ![SoleTab] = NoCall] /\ Abandon(SoleTab)
                                  /\ pc' = [q \in DOMAIN pc |-> IF TabOf[q] = SoleTab THEN "idle" ELSE pc[q]]
                                  /\ UNCHANGED <<now, logins, row, store, with>>
    BY DEF OneTab!Reload, OneTab!NoCall, NoCall, OneTab!Abandon, Abandon,
           OneTab!Cardinality, Cardinality
  <1>12. OneTab!Reload(SoleTab) => Reload(SoleTab)
    BY ONLY <1>11 DEF Reload
  <1>13. \A l \in loose : /\ OneTab!LooseRead(l) => LooseRead(l)
                          /\ OneTab!LooseCommit(l) => LooseCommit(l)
                          /\ OneTab!LooseFails(l) => LooseFails(l)
    BY DEF OneTab!LooseRead, LooseRead, OneTab!Valid, Valid, OneTab!Expired, Expired, OneTab!LooseCommit, LooseCommit,
           OneTab!Rotate, Rotate, OneTab!LooseFails, LooseFails
  <1> QED BY <1>1, <1>2, <1>3, <1>4, <1>5, <1>6, <1>7, <1>8, <1>9, <1>10, <1>12, <1>13
          DEF OneTab!Next, OneTab!Progress, OneTab!Faults

(* What the steps of the sole tab need to know of the types.                  *)
LEMMA SoleTyped ==
  ASSUME SessionInv
  PROVE  /\ SoleTab \in Tabs /\ SoleRequest \in Requests /\ TabOf[SoleRequest] = SoleTab
         /\ now \in Token /\ Token \subseteq Nat /\ None \notin Token /\ row \in [Token -> {"none", "live", "revoked"}]
         /\ store.refresh \in Token \cup {None} /\ store.access \in Token \cup {None}
         /\ store \in [access : Token \cup {None}, refresh : Token \cup {None}, user : BOOLEAN]
         /\ call \in [Tabs -> Calls] /\ Sole \in Calls /\ Sole.token \in Token \cup {None}
         /\ Sole.new \in Token \cup {None} /\ Sole.at \in States
         /\ pc \in [Requests -> {"idle", "asked", "refused", "waiting"}] /\ with \in [Requests -> Token \cup {None}]
         /\ signedIn \in [Tabs -> BOOLEAN] /\ logins \in Nat
         /\ \A x \in Token : x > now => row[x] = "none"
         /\ AccessLife \in Nat \ {0} /\ RefreshLife \in Nat
  BY BrowserAssumption, SessionsAssumption, TokensTyped DEF SessionInv, TypeOK, Sole, Calls, States, Token

LEMMA SoleServe ==
  ASSUME SessionInv, SoleInv, Serve(SoleRequest)
  PROVE  SoleInv'
  <1>1. /\ pc[SoleRequest] = "asked" /\ UNCHANGED <<now, logins, row, store, signedIn, with, call, loose, unheard>>
        /\ pc' \in [Requests -> {"idle", "asked", "refused", "waiting"}]
        /\ \A q \in Requests \ {SoleRequest} : pc'[q] = pc[q]
        /\ pc'[SoleRequest] \in {"idle", "refused"}
        /\ pc'[SoleRequest] = "refused" => with[SoleRequest] = None \/ with[SoleRequest] + AccessLife <= now
    BY SoleTyped DEF Serve, Expired
  <1>2. pc'[SoleRequest] = "refused" => with[SoleRequest] < now
    BY <1>1, SoleTyped DEF SoleInv
  <1> QED BY <1>1, <1>2, SoleTyped DEF SoleInv, Sole, IssuedUpTo, Orphans, Rotated, Expired

LEMMA SoleAsk ==
  ASSUME SessionInv, SoleInv, Ask(SoleRequest)
  PROVE  SoleInv'
  <1>1. /\ pc[SoleRequest] = "idle" /\ signedIn[SoleTab] /\ UNCHANGED <<now, logins, row, store, signedIn, call, loose, unheard>>
        /\ \A q \in Requests \ {SoleRequest} : pc'[q] = pc[q]
        /\ pc'[SoleRequest] = "asked" /\ with'[SoleRequest] = store.access
    BY SoleTyped DEF Ask
  <1>2. Sole' = Sole /\ store.access = store.refresh /\ store.refresh # None
    BY <1>1 DEF Sole, SoleInv
  <1>3. logins # 0 /\ Sole = NoCall
    BY <1>1, <1>2, StoresTyped DEF SoleInv, Sole
  <1>4. /\ \A q \in Requests \ {SoleRequest} : pc'[q] = "idle"
        /\ \A u \in Tabs \ {SoleTab} : call'[u] = NoCall
        /\ logins' \in {0, 1} /\ logins' # 0
        /\ signedIn'[SoleTab] = store'.user /\ store'.access = store'.refresh
        /\ signedIn'[SoleTab] => store'.refresh # None
    BY <1>1, <1>3 DEF SoleInv
  <1>5. /\ pc'[SoleRequest] # "waiting" /\ pc'[SoleRequest] # "refused"
        /\ with'[SoleRequest] = store'.refresh /\ with'[SoleRequest] # None
        /\ Sole' = NoCall
    BY <1>1, <1>2, <1>3
  <1>6. IssuedUpTo(store.refresh)
    BY <1>2, <1>3, NoCallTyped DEF SoleInv
  <1>7. IssuedUpTo(store.refresh)'
    BY ONLY <1>1, <1>6 DEF IssuedUpTo, Orphans, Sole
  <1> QED BY ONLY <1>4, <1>5, <1>7, NoCallTyped DEF SoleInv

LEMMA SoleRefused ==
  ASSUME SessionInv, SoleInv, Refused(SoleRequest)
  PROVE  SoleInv'
  <1>1. /\ pc[SoleRequest] = "refused" /\ UNCHANGED <<now, logins, row, with, loose, unheard>> /\ Sole = NoCall
    BY SoleTyped DEF Refused, SoleInv
  <1>2. CASE store.refresh = None
    <2>1. /\ store' = Empty /\ signedIn' = [signedIn EXCEPT ![SoleTab] = FALSE]
          /\ pc' = [pc EXCEPT ![SoleRequest] = "idle"] /\ call' = call
      BY <1>2, SoleTyped DEF Refused
    <2>2. store'.access = None /\ store'.refresh = None /\ store'.user = FALSE
      BY <2>1 DEF Empty
    <2>3. /\ \A q \in Requests \ {SoleRequest} : pc'[q] = pc[q]
          /\ pc'[SoleRequest] = "idle" /\ signedIn'[SoleTab] = FALSE
      BY <2>1, SoleTyped
    <2> QED BY <1>1, <2>1, <2>2, <2>3, SoleTyped, NoCallTyped DEF SoleInv, Sole
  <1>3. CASE store.refresh # None
    <2> DEFINE n == [NoCall EXCEPT !.token = store.refresh, !.at = "sent"]
    <2>1. /\ call' = [call EXCEPT ![SoleTab] = n]
          /\ pc' = [pc EXCEPT ![SoleRequest] = "waiting"] /\ UNCHANGED <<store, signedIn>>
      BY <1>1, <1>3, SoleTyped DEF Refused, Sole
    <2>2. n \in Calls /\ n.token = store.refresh /\ n.at = "sent"
      BY SoleTyped DEF NoCall, Calls, States
    <2> HIDE DEF n
    <2>3. Sole' = n /\ \A u \in Tabs \ {SoleTab} : call'[u] = call[u]
      BY <2>1, SoleTyped DEF Sole
    <2>4. /\ \A q \in Requests \ {SoleRequest} : pc'[q] = pc[q]
          /\ pc'[SoleRequest] = "waiting"
      BY <2>1, SoleTyped
    <2>5. row[store.refresh] = "live" \/ store.refresh \in Rotated
      BY <1>1, <1>3, NoCallTyped DEF SessionInv, StoredIsLive, SoleInv, Sole
    <2>6. store.refresh < now /\ IssuedUpTo(store.refresh) /\ store.refresh \in Token
      BY <1>1, <1>3, NoCallTyped, SoleTyped DEF SoleInv
    <2>7. logins # 0
      BY <1>3, StoresTyped DEF SoleInv
    <2>8. n # NoCall
      BY <2>2, NoCallTyped
    <2>9. IssuedUpTo(store.refresh)' /\ Rotated' = Rotated
      BY <1>1, <2>1, <2>2, <2>3, <2>6, NoCallTyped DEF IssuedUpTo, Orphans, Rotated
    <2> QED BY <1>1, <1>3, <2>1, <2>2, <2>3, <2>4, <2>5, <2>6, <2>7, <2>8, <2>9, SoleTyped DEF SoleInv
  <1> QED BY <1>2, <1>3

LEMMA SoleRead ==
  ASSUME SessionInv, SoleInv, Read(SoleTab)
  PROVE  SoleInv'
  <1> DEFINE a == IF Valid(Sole.token) THEN "read" ELSE "failed"
             c == [Sole EXCEPT !.at = a]
  <1>1. /\ Sole.at = "sent" /\ call' = [call EXCEPT ![SoleTab] = c]
        /\ UNCHANGED <<now, logins, row, store, signedIn, pc, with, loose, unheard>>
    BY SoleTyped DEF Read, Sole
  <1>2. a = "read" \/ (a = "failed" /\ (Expired(Sole.token, RefreshLife) \/ Sole.token \in Rotated))
    BY <1>1 DEF SoleInv, Valid
  <1> HIDE DEF a
  <1>3. c.at = a /\ c.token = Sole.token
    BY SoleTyped DEF Calls
  <1> HIDE DEF c
  <1>4. Sole' = c /\ \A u \in Tabs \ {SoleTab} : call'[u] = call[u]
    BY <1>1, SoleTyped DEF Sole
  <1>5. Sole # NoCall /\ c # NoCall
    BY <1>1, <1>2, <1>3, NoCallTyped
  <1>6. store.refresh \in {None, Sole.token} /\ Sole.token \in Token /\ IssuedUpTo(Sole.token)
    BY <1>1 DEF SoleInv
  <1>7. IssuedUpTo(Sole.token)'
    BY <1>1, <1>2, <1>3, <1>4, <1>6 DEF IssuedUpTo, Orphans
  <1>8. Rotated' = Rotated
    BY <1>1 DEF Rotated
  <1> QED BY <1>1, <1>2, <1>3, <1>4, <1>5, <1>6, <1>7, <1>8, SoleTyped DEF SoleInv, Expired

(* The pair of a refresh is issued in a later second than the token it        *)
(* replaces, and that is the latest there is but for pairs nobody has heard   *)
(* of: its hash is new, or theirs.                                            *)
LEMMA SoleCommit ==
  ASSUME SessionInv, SoleInv, Commit(SoleTab)
  PROVE  SoleInv' /\ (Sole'.at = "clash" => now \in Orphans)
  <1>1. /\ Sole.at = "read" /\ IssuedUpTo(Sole.token) /\ Sole.token < now /\ Sole.token \in Token
        /\ Sole \in Calls /\ store.refresh \in {None, Sole.token}
        /\ UNCHANGED <<now, logins, store, signedIn, pc, with, loose, unheard>>
    BY SoleTyped DEF Commit, Sole, SoleInv
  <1>2. Sole # NoCall /\ logins # 0
    BY <1>1, NoCallTyped DEF SoleInv
  <1>3. CASE row[now] = "none"
    <2> DEFINE c == [Sole EXCEPT !.at = "ok", !.new = now]
    <2>1. row' = [row EXCEPT ![Sole.token] = "revoked", ![now] = "live"] /\ call' = [call EXCEPT ![SoleTab] = c]
      BY <1>3 DEF Commit, Sole, Rotate
    <2>2. c.at = "ok" /\ c.token = Sole.token /\ c.new = now
      BY <1>1 DEF Calls
    <2> HIDE DEF c
    <2>3. Sole' = c /\ \A u \in Tabs \ {SoleTab} : call'[u] = call[u]
      BY <2>1, SoleTyped DEF Sole
    <2>4. IssuedUpTo(Sole.token)'
      BY <1>1, <2>1, <2>2, <2>3, SoleTyped DEF IssuedUpTo, Orphans
    <2> QED BY <1>1, <1>2, <2>2, <2>3, <2>4, NoCallTyped, SoleTyped DEF SoleInv
  <1>4. CASE row[now] # "none"
    <2> DEFINE c == [Sole EXCEPT !.at = "clash"]
    <2>1. row' = row /\ call' = [call EXCEPT ![SoleTab] = c]
      BY <1>4 DEF Commit, Sole
    <2>2. c.at = "clash" /\ c.token = Sole.token
      BY <1>1 DEF Calls
    <2> HIDE DEF c
    <2>3. Sole' = c /\ \A u \in Tabs \ {SoleTab} : call'[u] = call[u]
      BY <2>1, SoleTyped DEF Sole
    <2>4. now \in Orphans
      BY <1>1, <1>4, SoleTyped DEF IssuedUpTo
    <2>5. IssuedUpTo(Sole.token)'
      BY <1>1, <2>1, <2>2, <2>3 DEF IssuedUpTo, Orphans
    <2> QED BY <1>1, <1>2, <2>2, <2>3, <2>4, <2>5, NoCallTyped DEF SoleInv
  <1> QED BY <1>3, <1>4

LEMMA SoleResolve ==
  ASSUME SessionInv, SoleInv, Resolve(SoleTab)
  PROVE  SoleInv' /\ (signedIn[SoleTab] /\ ~signedIn'[SoleTab] =>
                        \/ store.refresh = None \/ Expired(store.refresh, RefreshLife) \/ store.refresh \in Rotated
                        \/ Sole.at \in {"broken", "clash"})
  <1>1. /\ Sole.at \in Outcomes /\ call' = [call EXCEPT ![SoleTab] = NoCall]
        /\ UNCHANGED <<now, logins, row, with, loose, unheard>>
        /\ signedIn' = [signedIn EXCEPT ![SoleTab] = signedIn[SoleTab] /\ Sole.at = "ok"]
        /\ pc' = [q \in Requests |-> IF TabOf[q] = SoleTab /\ pc[q] = "waiting" THEN "idle" ELSE pc[q]]
    BY SoleTyped DEF Resolve, Sole
  <1>2. Sole' = NoCall /\ \A u \in Tabs \ {SoleTab} : call'[u] = call[u]
    BY <1>1, SoleTyped DEF Sole
  <1>3. Sole # NoCall /\ pc[SoleRequest] = "waiting"
    BY <1>1, NoCallTyped DEF SoleInv, Outcomes
  <1>4. pc'[SoleRequest] = "idle" /\ \A q \in Requests \ {SoleRequest} : pc'[q] = "idle"
    BY <1>1, <1>3, SoleTyped DEF SoleInv
  <1>5. logins # 0
    BY <1>3 DEF SoleInv
  <1>6. CASE Sole.at = "ok"
    <2>1. store' = [store EXCEPT !.access = Sole.new, !.refresh = Sole.new]
      BY <1>6 DEF Resolve, Sole
    <2>2. store'.access = Sole.new /\ store'.refresh = Sole.new /\ store'.user = store.user
      BY <2>1, SoleTyped
    <2>3. Sole.new \in Token /\ Sole.token \in Token /\ Sole.token < Sole.new /\ IssuedUpTo(Sole.token)
      BY <1>6 DEF SoleInv
    <2>4. signedIn'[SoleTab] = signedIn[SoleTab]
      BY <1>1, <1>6, SoleTyped
    <2>5. IssuedUpTo(store.refresh)'
      BY <1>1, <2>2, <2>3, SoleTyped DEF IssuedUpTo, Orphans
    <2> QED BY <1>1, <1>2, <1>4, <1>5, <2>2, <2>3, <2>4, <2>5, NoCallTyped, SoleTyped DEF SoleInv
  <1>7. CASE Sole.at # "ok"
    <2>1. store' = Empty
      BY <1>7 DEF Resolve, Sole
    <2>2. store'.access = None /\ store'.refresh = None /\ store'.user = FALSE
      BY <2>1 DEF Empty
    <2>3. signedIn'[SoleTab] = FALSE
      BY <1>1, <1>7, SoleTyped
    <2>4. \/ store.refresh = None \/ Expired(store.refresh, RefreshLife) \/ store.refresh \in Rotated
          \/ Sole.at \in {"broken", "clash"}
      BY <1>1, <1>7 DEF SoleInv, Outcomes
    <2> QED BY <1>1, <1>2, <1>4, <1>5, <2>2, <2>3, <2>4, NoCallTyped DEF SoleInv
  <1> QED BY <1>6, <1>7

(* What the tab leaves behind at a break or a reload does not disturb what it *)
(* has stored: a pair it does not hear of is one of the Orphans.              *)
LEMMA SoleLeaves ==
  ASSUME SessionInv, SoleInv, Abandon(SoleTab), row' = row
  PROVE  /\ Sole.at # "none" => \A x \in Token : row'[x] # "none" => x <= Sole.token \/ x \in Orphans'
         /\ store.refresh # None => \A x \in Token : row'[x] # "none" => x <= store.refresh \/ x \in Orphans'
  <1>1. unheard \subseteq unheard' /\ (Sole.at = "ok" => [of |-> Sole.token, is |-> Sole.new] \in unheard')
    BY DEF Abandon, Sole
  <1>2. Orphans \subseteq Orphans' /\ (Sole.at = "ok" => Sole.new \in Orphans')
    BY <1>1 DEF Orphans
  <1>3. Sole.at # "none" => \A x \in Token : row'[x] # "none" => x <= Sole.token \/ x \in Orphans'
    BY <1>2 DEF SoleInv, IssuedUpTo
  <1>4. Sole.at = "none" /\ store.refresh # None =>
          \A x \in Token : row'[x] # "none" => x <= store.refresh \/ x \in Orphans'
    BY <1>2 DEF SoleInv, IssuedUpTo
  <1> QED BY <1>3, <1>4 DEF SoleInv

LEMMA SoleFaults ==
  ASSUME SessionInv, SoleInv,
         \/ Break(SoleTab) \/ Reload(SoleTab)
         \/ \E l \in loose : LooseRead(l) \/ LooseCommit(l) \/ LooseFails(l)
  PROVE  SoleInv' /\ signedIn'[SoleTab] = signedIn[SoleTab] /\ (Sole'.at = "clash" => Sole.at = "clash")
  <1>1. CASE Break(SoleTab)
    <2> DEFINE c == [Sole EXCEPT !.at = "broken"]
    <2>1. /\ Sole.at \in {"sent", "read", "ok"} /\ call' = [call EXCEPT ![SoleTab] = c] /\ Abandon(SoleTab)
          /\ UNCHANGED <<now, logins, row, store, signedIn, pc, with>>
      BY <1>1 DEF Break, Sole
    <2>2. c.at = "broken" /\ c.token = Sole.token
      BY SoleTyped DEF Calls
    <2> HIDE DEF c
    <2>3. Sole' = c /\ \A u \in Tabs \ {SoleTab} : call'[u] = call[u]
      BY <2>1, SoleTyped DEF Sole
    <2>4. Sole # NoCall /\ c # NoCall /\ logins # 0
      BY <2>1, <2>2, NoCallTyped DEF SoleInv
    <2>5. IssuedUpTo(Sole.token)'
      BY <2>1, <2>2, <2>3, SoleLeaves DEF IssuedUpTo
    <2> QED BY <2>1, <2>2, <2>3, <2>4, <2>5 DEF SoleInv
  <1>2. CASE Reload(SoleTab)
    <2>1. /\ signedIn' = [signedIn EXCEPT ![SoleTab] = store.user] /\ call' = [call EXCEPT ![SoleTab] = NoCall]
          /\ pc' = [q \in DOMAIN pc |-> IF TabOf[q] = SoleTab THEN "idle" ELSE pc[q]]
          /\ Abandon(SoleTab) /\ UNCHANGED <<now, logins, row, store, with>>
      BY <1>2 DEF Reload
    <2>2. Sole' = NoCall /\ \A u \in Tabs \ {SoleTab} : call'[u] = call[u]
      BY <2>1, SoleTyped DEF Sole
    <2>3. pc'[SoleRequest] = "idle" /\ \A q \in Requests \ {SoleRequest} : pc'[q] = "idle"
      BY <2>1, SoleTyped DEF SoleInv
    <2>4. signedIn'[SoleTab] = signedIn[SoleTab]
      BY <2>1, SoleTyped DEF SoleInv
    <2>5. store.refresh # None => IssuedUpTo(store.refresh)'
      BY <2>1, <2>2, SoleLeaves DEF IssuedUpTo
    <2>6. logins = 0 => loose' = {} /\ unheard' = {}
      BY <2>1, NoCallTyped DEF SoleInv, Abandon, Sole
    <2> QED BY <2>1, <2>2, <2>3, <2>4, <2>5, <2>6, NoCallTyped DEF SoleInv
  <1>3. ASSUME NEW l \in loose, LooseRead(l) \/ LooseFails(l) PROVE SoleInv' /\ signedIn' = signedIn /\ Sole' = Sole
    <2>1. UNCHANGED <<now, logins, row, store, signedIn, pc, with, call, unheard>>
      BY <1>3 DEF LooseRead, LooseFails
    <2>2. logins # 0
      BY DEF SoleInv
    <2> QED BY <2>1, <2>2 DEF SoleInv, Sole, IssuedUpTo, Orphans, Rotated, Expired
  <1>4. ASSUME NEW l \in loose, LooseCommit(l) PROVE SoleInv' /\ signedIn' = signedIn /\ Sole' = Sole
    <2>1. /\ row' = [row EXCEPT ![l.token] = "revoked", ![now] = "live"]
          /\ unheard' = unheard \cup {[of |-> l.token, is |-> now]}
          /\ UNCHANGED <<now, logins, store, signedIn, pc, with, call>>
      BY <1>4 DEF LooseCommit, Rotate
    <2>2. logins # 0 /\ l.token \in Token /\ Sole' = Sole
      BY <2>1, TokensTyped DEF SoleInv, SessionInv, Sole
    <2>3. /\ unheard \subseteq unheard' /\ [of |-> l.token, is |-> now] \in unheard'
      BY <2>1
    <2>4. Rotated \subseteq Rotated' /\ l.token \in Rotated' /\ Orphans \subseteq Orphans' /\ now \in Orphans'
      BY <2>3 DEF Rotated, Orphans
    <2>5. \A x \in Token : row'[x] # "none" => row[x] # "none" \/ x = now
      BY <2>1, <2>2, SoleTyped DEF SessionInv, LooseIssued
    <2>6. \A x \in Token : row[x] = "live" => row'[x] = "live" \/ x \in Rotated'
      BY <2>1, <2>2, <2>4, SoleTyped
    <2>7. /\ Sole.at # "none" => IssuedUpTo(Sole.token)'
          /\ Sole.at = "none" /\ store.refresh # None => IssuedUpTo(store.refresh)'
      BY <2>1, <2>2, <2>4, <2>5 DEF SoleInv, IssuedUpTo
    <2>8. Sole.at \in {"sent", "read"} => row'[Sole.token] = "live" \/ Sole.token \in Rotated'
      BY <2>2, <2>4, <2>6 DEF SoleInv
    <2>9. Expired(store.refresh, RefreshLife)' = Expired(store.refresh, RefreshLife)
      BY <2>1 DEF Expired
    <2> QED BY <2>1, <2>2, <2>4, <2>7, <2>8, <2>9 DEF SoleInv
  <1>5. CASE \E l \in loose : LooseRead(l) \/ LooseCommit(l) \/ LooseFails(l)
    BY <1>3, <1>4, <1>5
  <1> QED BY <1>1, <1>2, <1>5

LEMMA SoleLogin ==
  ASSUME SessionInv, SoleInv, Login(SoleTab), logins = 0
  PROVE  SoleInv'
  <1>1. /\ row' = [row EXCEPT ![now] = "live"] /\ store' = Holding(now) /\ logins' = 1
        /\ signedIn' = [signedIn EXCEPT ![SoleTab] = TRUE] /\ UNCHANGED <<now, pc, with, call, loose, unheard>>
    BY SoleTyped DEF Login
  <1>2. /\ store'.access = now /\ store'.refresh = now /\ store'.user = TRUE /\ signedIn'[SoleTab] = TRUE
    BY <1>1, SoleTyped DEF Holding
  <1>3. \A x \in Token : row'[x] # "none" => x <= now
    BY <1>1, SoleTyped DEF SoleInv
  <1>4. Sole = NoCall /\ Sole' = NoCall /\ pc[SoleRequest] = "idle"
    BY <1>1 DEF SoleInv, Sole
  <1>5. IssuedUpTo(store.refresh)'
    BY <1>2, <1>3 DEF IssuedUpTo
  <1>6. Sole'.at = "none" /\ store'.refresh # None
    BY <1>2, <1>4, NoCallTyped, SoleTyped
  <1>7. /\ \A q \in Requests \ {SoleRequest} : pc'[q] = "idle"
        /\ \A u \in Tabs \ {SoleTab} : call'[u] = NoCall
    BY <1>1 DEF SoleInv
  <1>8. pc'[SoleRequest] = "idle" /\ signedIn'[SoleTab] = store'.user /\ store'.access = store'.refresh
    BY <1>1, <1>2, <1>4
  <1>9. logins' = 1 /\ pc'[SoleRequest] # "waiting" /\ pc'[SoleRequest] \notin {"asked", "refused"}
    BY <1>1, <1>8
  <1> QED BY <1>4, <1>5, <1>6, <1>7, <1>8, <1>9 DEF SoleInv

LEMMA SoleRest ==
  ASSUME SessionInv, SoleInv, Logout(SoleTab) \/ Tick \/ UNCHANGED vars
  PROVE  SoleInv'
  <1>1. CASE Logout(SoleTab)
    <2>1. /\ store' = Empty /\ signedIn' = [signedIn EXCEPT ![SoleTab] = FALSE]
          /\ signedIn[SoleTab] /\ UNCHANGED <<now, logins, row, pc, with, call, loose, unheard>>
      BY <1>1 DEF Logout
    <2>2. store'.access = None /\ store'.refresh = None /\ store'.user = FALSE /\ signedIn'[SoleTab] = FALSE
      BY <2>1, SoleTyped DEF Empty
    <2>3. Sole' = Sole /\ logins # 0
      BY <2>1, StoresTyped DEF Sole, SoleInv
    <2> QED BY <2>1, <2>2, <2>3, SoleTyped DEF SoleInv, IssuedUpTo, Orphans, Rotated
  <1>2. CASE Tick
    <2>1. now' = now + 1 /\ UNCHANGED <<logins, row, store, signedIn, pc, with, call, loose, unheard>> /\ Sole' = Sole
      BY <1>2 DEF Tick, Sole
    <2>2. /\ pc[SoleRequest] = "refused" => with[SoleRequest] < now'
          /\ Sole.at \in {"sent", "read"} => Sole.token < now'
      BY <2>1, SoleTyped DEF SoleInv, SessionInv, Private, Sole
    <2>3. store.refresh # None /\ Expired(store.refresh, RefreshLife) => Expired(store.refresh, RefreshLife)'
      BY <2>1, SoleTyped DEF Expired
    <2> QED BY <2>1, <2>2, <2>3, SoleTyped DEF SoleInv, IssuedUpTo, Orphans, Rotated
  <1>3. CASE UNCHANGED vars
    BY <1>3 DEF vars, SoleInv, Sole, IssuedUpTo, Orphans, Rotated, Expired
  <1> QED BY <1>1, <1>2, <1>3

(* While another part is at work, no session changes.                         *)
LEMMA SessionsElsewhere ==
  ASSUME [DeskNext]_deskVars
  PROVE  \/ desk = "one tab" /\ OneTab!Next
         \/ desk = "two tabs" /\ TwoTabs!Next
         \/ UNCHANGED vars
  BY DEF DeskNext, SessionStep, PeriodStep, FigureStep, ReminderStep, ProductStep, SearchStep, ImportStep, deskVars

LEMMA DeskStays == ASSUME [DeskNext]_deskVars PROVE desk' = desk
  BY DEF DeskNext, SessionStep, PeriodStep, FigureStep, ReminderStep, ProductStep, SearchStep, ImportStep, deskVars

LEMMA TwoTabsAreSessions == ASSUME TwoTabs!Next, now \in Nat PROVE Next
  <1>1. /\ \A r \in Requests : /\ TwoTabs!Serve(r) => Serve(r)
                               /\ TwoTabs!Refused(r) => Refused(r)
                               /\ TwoTabs!Ask(r) => Ask(r)
        /\ \A t \in Tabs : /\ TwoTabs!Read(t) => Read(t)
                           /\ TwoTabs!Commit(t) => Commit(t)
                           /\ TwoTabs!Resolve(t) => Resolve(t)
    BY DEF TwoTabs!Serve, Serve, TwoTabs!Expired, Expired, TwoTabs!Refused, Refused, TwoTabs!NoCall, NoCall,
           TwoTabs!Empty, Empty, TwoTabs!Ask, Ask, TwoTabs!Read, Read, TwoTabs!Valid, Valid,
           TwoTabs!Commit, Commit, TwoTabs!Rotate, Rotate, TwoTabs!Resolve, Resolve, TwoTabs!Outcomes, Outcomes
  <1>2. \A t \in Tabs : /\ TwoTabs!Login(t) => Login(t)
                        /\ TwoTabs!Logout(t) => Logout(t)
                        /\ TwoTabs!Break(t) => Break(t)
    BY DEF TwoTabs!Login, Login, TwoTabs!Holding, Holding, TwoTabs!Logout, Logout, TwoTabs!Empty, Empty,
           TwoTabs!Break, Break, TwoTabs!Abandon, Abandon,
           TwoTabs!Cardinality, Cardinality
  <1>3. TwoTabs!Tick => Tick
    BY BrowserAssumption, SessionsAssumption DEF TwoTabs!Tick, Tick
  <1>4. ASSUME NEW t \in Tabs, TwoTabs!Reload(t) PROVE Reload(t)
    BY <1>4 DEF TwoTabs!Reload, Reload, TwoTabs!NoCall, NoCall, TwoTabs!Abandon, Abandon,
           TwoTabs!Cardinality, Cardinality
  <1>5. \A l \in loose : /\ TwoTabs!LooseRead(l) => LooseRead(l)
                         /\ TwoTabs!LooseCommit(l) => LooseCommit(l)
                         /\ TwoTabs!LooseFails(l) => LooseFails(l)
    BY DEF TwoTabs!LooseRead, LooseRead, TwoTabs!Valid, Valid, TwoTabs!Expired, Expired,
           TwoTabs!LooseCommit, LooseCommit, TwoTabs!Rotate, Rotate, TwoTabs!LooseFails, LooseFails
  <1>6. TwoTabs!Faults => Faults
    BY <1>2, <1>4, <1>5 DEF TwoTabs!Faults, Faults
  <1> QED BY <1>1, <1>2, <1>3, <1>6 DEF TwoTabs!Next, TwoTabs!Progress, Next, Progress

OfficeSessions == SessionInv /\ (desk = "one tab" => SoleInv)

LEMMA SessionsStart == DeskInit => OfficeSessions
  <1> SUFFICES ASSUME DeskInit PROVE OfficeSessions
    OBVIOUS
  <1>1. Init /\ SessionInv
    BY InitSession DEF DeskInit
  <1>2. call = [t \in Tabs |-> NoCall] /\ pc = [r \in Requests |-> "idle"] /\ store = Empty
        /\ signedIn = [t \in Tabs |-> FALSE] /\ logins = 0 /\ row = [t \in Token |-> "none"]
        /\ loose = {} /\ unheard = {}
    BY <1>1 DEF Init
  <1>3. Sole = NoCall /\ store.access = None /\ store.refresh = None /\ store.user = FALSE
    BY <1>2, BrowserAssumption DEF Sole, Empty
  <1>4. SoleInv
    BY <1>2, <1>3, BrowserAssumption, NoCallTyped DEF SoleInv, IssuedUpTo
  <1> QED BY <1>1, <1>4 DEF OfficeSessions

LEMMA SoleHolds ==
  ASSUME SessionInv, SoleInv, OneTab!Next
  PROVE  SoleInv' /\ Next /\ OneTab!SignedOutForAReason /\ OneTab!Rotates
  <1>1. \/ Serve(SoleRequest) \/ Refused(SoleRequest) \/ Ask(SoleRequest)
        \/ Read(SoleTab) \/ Commit(SoleTab) \/ Resolve(SoleTab)
        \/ Login(SoleTab) /\ logins = 0
        \/ Logout(SoleTab) \/ Tick
        \/ Break(SoleTab) \/ Reload(SoleTab)
        \/ \E l \in loose : LooseRead(l) \/ LooseCommit(l) \/ LooseFails(l)
    BY OneTabSteps, SoleTyped
  <1>2. SoleInv'
    BY <1>1, SoleServe, SoleRefused, SoleAsk, SoleRead, SoleCommit, SoleResolve, SoleLogin, SoleFaults, SoleRest
  <1>3. Next
    BY <1>1, BrowserAssumption DEF Next, Progress, Faults
  <1>4. OneTab!SignedOutForAReason
    <2> SUFFICES ASSUME signedIn[SoleTab], ~signedIn'[SoleTab]
                 PROVE  \/ Logout(SoleTab) \/ store.refresh = None \/ Expired(store.refresh, RefreshLife)
                        \/ store.refresh \in Rotated \/ Sole.at \in {"broken", "clash"}
      BY DEF OneTab!SignedOutForAReason, OneTab!Logout, Logout, OneTab!Empty, Empty, OneTab!Expired, Expired,
             OneTab!Rotated, Rotated, Sole
    <2>1. CASE signedIn' = signedIn
      BY <2>1
    <2>2. CASE Login(SoleTab)
      BY <2>2 DEF Login
    <2>3. CASE Refused(SoleRequest)
      BY <2>3, SoleTyped DEF Refused
    <2> QED BY <1>1, <2>1, <2>2, <2>3, SoleResolve, SoleFaults DEF Serve, Ask, Read, Commit, Tick
  <1>5. OneTab!Rotates
    <2> SUFFICES ASSUME Sole.at = "read", Sole'.at = "clash" PROVE now \in Orphans
      BY DEF OneTab!Rotates, Sole, Orphans
    <2>1. CASE call' = call
      BY <2>1 DEF Sole
    <2>2. CASE Commit(SoleTab)
      BY <2>2, SoleCommit
    <2>3. Sole # NoCall /\ pc[SoleRequest] = "waiting"
      BY NoCallTyped DEF SoleInv
    <2> QED BY <1>1, <2>1, <2>2, <2>3, SoleFaults DEF Serve, Refused, Ask, Read, Resolve, Outcomes, Login, Logout, Tick, Sole
  <1> QED BY <1>2, <1>3, <1>4, <1>5

LEMMA SessionsKept ==
  ASSUME OfficeSessions, [DeskNext]_deskVars
  PROVE  /\ OfficeSessions'
         /\ desk = "one tab" => OneTab!SignedOutForAReason /\ OneTab!Rotates
  <1>1. CASE desk = "one tab" /\ OneTab!Next
    BY <1>1, SoleHolds, NextSession, DeskStays DEF OfficeSessions
  <1>2. CASE desk = "two tabs" /\ TwoTabs!Next
    <2>1. Next
      BY <1>2, TwoTabsAreSessions, SoleTyped DEF OfficeSessions
    <2> QED BY <1>2, <2>1, NextSession, DeskStays DEF OfficeSessions
  <1>3. CASE UNCHANGED vars
    <2>1. OfficeSessions'
      BY <1>3, NextSession, SoleRest, DeskStays DEF OfficeSessions
    <2>2. OneTab!SignedOutForAReason /\ OneTab!Rotates
      BY <1>3 DEF vars, OneTab!SignedOutForAReason, OneTab!Rotates
    <2> QED BY <2>1, <2>2
  <1> QED BY <1>1, <1>2, <1>3, SessionsElsewhere

(* Whatever tabs and requests there are, the stored variables keep their      *)
(* types; a tab alone stays signed in until its user leaves, its refresh      *)
(* token expires or is rotated by an answer that is lost, or an error meets   *)
(* its refresh, and a token found valid fails to be rotated only in the       *)
(* second of a pair that reached no page.                                     *)
THEOREM AloneStaysSignedIn == DeskSpec => SessionsLast
  <1>1. OfficeSessions => TypeOK
    BY DEF OfficeSessions, SessionInv
  <1>2. OfficeSessions /\ [DeskNext]_deskVars =>
          OfficeSessions' /\ [desk = "one tab" => OneTab!SignedOutForAReason /\ OneTab!Rotates]_deskVars
    BY SessionsKept
  <1> QED BY <1>1, <1>2, SessionsStart, PTL DEF DeskSpec, SessionsLast
-----------------------------------------------------------------------------
(* Reminders: who is in a setting, and what its rules and dates are.          *)
Calendars == {"cadence", "queue"}
People(s) == IF s = "queue" THEN Queued ELSE Watched
Fields == {"first", "unanswered", "talking", "quoted", "coldAfter", "coldEvery"}
LegalRules == {r \in [Fields \cup {"start"} -> Nat] : \A k \in Fields : r[k] # 0}
Persons(s) == [acquired : Reminders(s)!OptDays, stage : (IF s = "queue" THEN QueuedStages ELSE WatchedStages) \cup {None},
               archive : Reminders(s)!OptDays, cold : BOOLEAN]

(* No follow-up is of a day to come.                                          *)
ReminderInv(s) ==
  /\ Reminders(s)!TypeOK
  /\ \A c \in People(s) : history[c] \subseteq 0..today

LEMMA CalendarTyped ==
  ASSUME NEW s \in Calendars
  PROVE  /\ None \notin Nat /\ None \notin {"new", "talking", "quoted", "sample", "won", "repeat"}
         /\ Reminders(s)!Days \subseteq Nat
         /\ Reminders(s)!OptDays = Reminders(s)!Days \cup {None}
         /\ (IF s = "queue" THEN QueuedFrom ELSE WatchedFrom) \subseteq Reminders(s)!Days
  BY RemindersAssumption DEF Calendars, Reminders!CadenceAssumption, Reminders!Days, Reminders!OptDays

LEMMA DefaultsLegal ==
  ASSUME NEW s \in Calendars
  PROVE  Reminders(s)!Defaults \in LegalRules
  BY RemindersAssumption DEF Calendars, Reminders!CadenceAssumption, Reminders!Defaults, LegalRules, Fields

LEMMA SavedLegal ==
  ASSUME NEW s \in Calendars
  PROVE  SavedRules \subseteq LegalRules
  <1> SUFFICES ASSUME NEW r \in SavedRules PROVE r \in LegalRules
    OBVIOUS
  <1>1. DOMAIN Reminders(s)!Defaults = Fields \cup {"start"}
    BY DEF Reminders!Defaults, Fields
  <1>2. r \in [Fields \cup {"start"} -> Nat] /\ \A k \in Fields : r[k] > 0
    BY <1>1, RemindersAssumption DEF Calendars, Reminders!CadenceAssumption, Fields
  <1> QED BY <1>2 DEF LegalRules, Fields

LEMMA RulesLegal ==
  ASSUME NEW s \in Calendars, Reminders(s)!TypeOK
  PROVE  Reminders(s)!Rules \in LegalRules
  BY DefaultsLegal, SavedLegal DEF Reminders!TypeOK, Reminders!Rules

(* What a rule record and the calendar give a reminder to count with.         *)
LEMMA IntervalsPositive ==
  ASSUME NEW s \in Calendars, NEW R \in LegalRules, NEW st \in DOMAIN Reminders(s)!Intervals(R)
  PROVE  /\ Reminders(s)!Intervals(R)[st] \in Nat \ {0}
         /\ st # None /\ st \in {"new", "talking", "quoted", "sample", "won", "repeat"}
  BY CalendarTyped DEF LegalRules, Fields, Reminders!Intervals

LEMMA CadencesPositive ==
  ASSUME NEW R \in LegalRules
  PROVE  /\ R.first \in Nat \ {0} /\ R.coldAfter \in Nat \ {0} /\ R.coldEvery \in Nat \ {0}
         /\ R.start \in Nat
  BY DEF LegalRules, Fields

(* A notice is due from its d on; the later its d, the higher its number. *)
LEMMA NoticeOf ==
  ASSUME NEW s \in Calendars, NEW due \in Int, NEW d \in Int, NEW offset \in Nat
  PROVE  LET n == Reminders(s)!DueNotice(due, d, offset) IN
         /\ n.due = due
         /\ n.status = "overdue" <=> due < d
         /\ n.status \in Reminders(s)!DueStates <=> due <= d
         /\ n.priority = IF due < d THEN offset
                         ELSE IF due = d THEN offset + 1
                         ELSE IF due - d <= 3 THEN offset + 1 + (due - d) ELSE offset + 8
  BY DEF Reminders!DueNotice, Reminders!Notice, Reminders!DueStates

(* The three kinds of reminder that have a date.                              *)
ColdDue(s, a, l, R) == Reminders(s)!Base(l, a + R.coldAfter) + R.coldEvery
StageDue(s, a, l, st, R) == Reminders(s)!Base(l, a) + Reminders(s)!Intervals(R)[st]

LEMMA ReminderOf ==
  ASSUME NEW s \in Calendars, NEW a \in Nat, NEW l \in Nat \cup {None}, NEW st,
         NEW R \in LegalRules, NEW d \in Nat
  PROVE  LET r == Reminders(s)!Reminder(a, l, st, R, d)
             cold == Reminders(s)!IsCold(a, st, R, d)
         IN
         /\ cold => /\ r = Reminders(s)!DueNotice(ColdDue(s, a, l, R), d, 30)
                    /\ ColdDue(s, a, l, R) \in Nat
                    /\ l # None => ColdDue(s, a, l, R) > l
         /\ ~cold /\ l = None /\ st = None =>
              r = Reminders(s)!Notice("unfollowed", a + R.first, 25)
         /\ ~cold /\ ~(l = None /\ st = None) /\ st \notin DOMAIN Reminders(s)!Intervals(R) =>
              r = Reminders(s)!Notice("stage_unset", None, 90)
         /\ ~cold /\ st \in DOMAIN Reminders(s)!Intervals(R) =>
              /\ r = Reminders(s)!DueNotice(StageDue(s, a, l, st, R), d, 0)
              /\ StageDue(s, a, l, st, R) \in Nat
              /\ l # None => StageDue(s, a, l, st, R) > l
  <1>1. None \notin Nat
    BY CalendarTyped
  <1>2. /\ Reminders(s)!Base(l, a + R.coldAfter) \in Nat /\ (l # None => Reminders(s)!Base(l, a + R.coldAfter) = l)
        /\ Reminders(s)!Base(l, a) \in Nat /\ (l # None => Reminders(s)!Base(l, a) = l)
    BY CadencesPositive DEF Reminders!Base
  <1>3. ColdDue(s, a, l, R) \in Nat /\ (l # None => ColdDue(s, a, l, R) > l)
    BY <1>2, CadencesPositive DEF ColdDue
  <1>4. st \in DOMAIN Reminders(s)!Intervals(R) =>
          StageDue(s, a, l, st, R) \in Nat /\ (l # None => StageDue(s, a, l, st, R) > l)
    BY <1>2, IntervalsPositive DEF StageDue
  <1>5. st \in DOMAIN Reminders(s)!Intervals(R) => st # None
    BY IntervalsPositive
  <1> DEFINE r == Reminders(s)!Reminder(a, l, st, R, d)
             cold == Reminders(s)!IsCold(a, st, R, d)
  <1>6. cold => r = Reminders(s)!DueNotice(ColdDue(s, a, l, R), d, 30)
    BY <1>1 DEF Reminders!Reminder, ColdDue
  <1>7. ~cold /\ l = None /\ st = None => r = Reminders(s)!Notice("unfollowed", a + R.first, 25)
    BY <1>1 DEF Reminders!Reminder
  <1>8. ~cold /\ ~(l = None /\ st = None) /\ st \notin DOMAIN Reminders(s)!Intervals(R) =>
              r = Reminders(s)!Notice("stage_unset", None, 90)
    BY <1>1 DEF Reminders!Reminder
  <1>9. ~cold /\ st \in DOMAIN Reminders(s)!Intervals(R) =>
              r = Reminders(s)!DueNotice(StageDue(s, a, l, st, R), d, 0)
    BY <1>1, <1>5 DEF Reminders!Reminder, StageDue
  <1> QED BY <1>3, <1>4, <1>6, <1>7, <1>8, <1>9

LEMMA ColdReminder ==
  ASSUME NEW s \in Calendars, NEW a \in Nat, NEW l \in Nat \cup {None}, NEW st,
         NEW R \in LegalRules, NEW d \in Nat,
         Reminders(s)!IsCold(a, st, R, d)
  PROVE  /\ Reminders(s)!Reminder(a, l, st, R, d) = Reminders(s)!DueNotice(ColdDue(s, a, l, R), d, 30)
         /\ ColdDue(s, a, l, R) \in Nat
         /\ l # None => ColdDue(s, a, l, R) > l
  BY ReminderOf

LEMMA StageReminder ==
  ASSUME NEW s \in Calendars, NEW a \in Nat, NEW l \in Nat \cup {None}, NEW st,
         NEW R \in LegalRules, NEW d \in Nat,
         ~Reminders(s)!IsCold(a, st, R, d), st \in DOMAIN Reminders(s)!Intervals(R)
  PROVE  /\ Reminders(s)!Reminder(a, l, st, R, d) = Reminders(s)!DueNotice(StageDue(s, a, l, st, R), d, 0)
         /\ StageDue(s, a, l, st, R) \in Nat
         /\ l # None => StageDue(s, a, l, st, R) > l
  BY ReminderOf

LEMMA FirstReminder ==
  ASSUME NEW s \in Calendars, NEW a \in Nat, NEW l \in Nat \cup {None}, NEW st,
         NEW R \in LegalRules, NEW d \in Nat,
         ~Reminders(s)!IsCold(a, st, R, d), l = None, st = None
  PROVE  Reminders(s)!Reminder(a, l, st, R, d) = Reminders(s)!Notice("unfollowed", a + R.first, 25)
  BY CalendarTyped DEF Reminders!Reminder

LEMMA NoReminder ==
  ASSUME NEW s \in Calendars, NEW a \in Nat, NEW l \in Nat \cup {None}, NEW st,
         NEW R \in LegalRules, NEW d \in Nat,
         ~Reminders(s)!IsCold(a, st, R, d), ~(l = None /\ st = None), st \notin DOMAIN Reminders(s)!Intervals(R)
  PROVE  Reminders(s)!Reminder(a, l, st, R, d) = Reminders(s)!Notice("stage_unset", None, 90)
  BY CalendarTyped DEF Reminders!Reminder

LEMMA ColdGrows ==
  ASSUME NEW s \in Calendars, NEW a \in Nat \cup {None}, NEW st, NEW R \in LegalRules,
         NEW d \in Nat, NEW later \in Nat, d <= later, Reminders(s)!IsCold(a, st, R, d)
  PROVE  Reminders(s)!IsCold(a, st, R, later)
  BY CadencesPositive DEF Reminders!IsCold

LEMMA HasLeast ==
  ASSUME NEW S \in SUBSET Nat, S # {}
  PROVE  \E u \in S : \A v \in S : u <= v
  <1>1. PICK u \in S : \A v \in S : ~ (<<v, u>> \in OpToRel(<, Nat))
    BY NatLessThanWellFounded, WFMin
  <1>2. \A v \in S : ~ (v < u)
    BY <1>1 DEF OpToRel
  <1> QED BY <1>2

(* Days up to a bound have a latest one: it leaves the least time to the bound*)
LEMMA HasLatest ==
  ASSUME NEW N \in Nat, NEW S \in SUBSET (0..N), S # {}
  PROVE  \E u \in S : \A v \in S : v <= u
  <1> DEFINE T == {N - v : v \in S}
  <1>1. T \in SUBSET Nat /\ T # {}
    <2>1. \A v \in S : N - v \in Nat
      OBVIOUS
    <2> QED BY <2>1
  <1>2. PICK u \in T : \A v \in T : u <= v
    <2> HIDE DEF T
    <2> QED BY <1>1, HasLeast
  <1>3. PICK w \in S : u = N - w
    BY <1>2
  <1>4. \A v \in S : N - w <= N - v
    BY <1>2, <1>3
  <1> QED BY <1>4

Last(H) == CHOOSE u \in H : \A v \in H : v <= u

LEMMA LastIs ==
  ASSUME NEW N \in Nat, NEW H \in SUBSET (0..N), H # {}
  PROVE  Last(H) \in H /\ \A v \in H : v <= Last(H)
  <1>1. \E u \in H : \A v \in H : v <= u
    BY HasLatest
  <1> QED BY <1>1 DEF Last

(* The latest follow-up is the archive's date or the last of the history.     *)
LEMMA LatestOf ==
  ASSUME NEW s \in Calendars, NEW c \in People(s), NEW N \in Nat, NEW H \in SUBSET (0..N),
         cadence[c].archive \in Nat \cup {None}
  PROVE  /\ Reminders(s)!LatestIn(c, H) \in Nat \cup {None}
         /\ H = {} => Reminders(s)!LatestIn(c, H) = cadence[c].archive
         /\ H # {} => /\ Reminders(s)!LatestIn(c, H) \in H
                      /\ \A v \in H : v <= Reminders(s)!LatestIn(c, H)
  <1>1. CASE H = {}
    BY <1>1 DEF Reminders!LatestIn
  <1>2. CASE H # {}
    <2>1. Reminders(s)!LatestIn(c, H) = Last(H)
      BY <1>2 DEF Reminders!LatestIn, Last
    <2>2. Last(H) \in H /\ \A v \in H : v <= Last(H)
      BY <1>2, LastIs
    <2>3. H \subseteq Nat
      OBVIOUS
    <2> QED BY <1>2, <2>1, <2>2, <2>3
  <1> QED BY <1>1, <1>2

(* What a customer's reminder is made of.                                     *)
LEMMA QueueOf ==
  ASSUME NEW s \in Calendars, ReminderInv(s), NEW c \in People(s)
  PROVE  LET a == cadence[c].acquired
             l == Reminders(s)!Latest(c)
             st == cadence[c].stage
             R == Reminders(s)!Rules
         IN
         /\ a \in Nat \cup {None} /\ l \in Nat \cup {None} /\ R \in LegalRules /\ today \in Nat
         /\ Reminders(s)!Applicable(c) => a \in Nat
         /\ Reminders(s)!Applicable(c) =>
              Reminders(s)!QueueReminder(c) = Reminders(s)!Reminder(a, l, st, R, today)
         /\ ~Reminders(s)!Applicable(c) =>
              Reminders(s)!QueueReminder(c) = Reminders(s)!Notice("not_applicable", None, 99)
         /\ Reminders(s)!QueueCold(c) <=> Reminders(s)!Applicable(c) /\ Reminders(s)!IsCold(a, st, R, today)
  <1>1. Reminders(s)!TypeOK /\ cadence \in [People(s) -> Persons(s)] /\ today \in Nat /\ history[c] \subseteq 0..today
    BY CalendarTyped DEF ReminderInv, Reminders!TypeOK, People, Persons
  <1>2. cadence[c].acquired \in Nat \cup {None} /\ cadence[c].archive \in Nat \cup {None}
    BY <1>1, CalendarTyped DEF Persons
  <1>3. Reminders(s)!Latest(c) \in Nat \cup {None}
    BY <1>1, <1>2, LatestOf DEF Reminders!Latest
  <1>4. Reminders(s)!Applicable(c) => cadence[c].acquired # None
    BY DEF Reminders!Applicable
  <1> QED BY <1>1, <1>2, <1>3, <1>4, RulesLegal DEF Reminders!QueueReminder, Reminders!QueueCold

QueueFacts(s, c) ==
  LET a == cadence[c].acquired
      r == Reminders(s)!QueueReminder(c)
  IN
  /\ a \in Nat \cup {None} /\ Reminders(s)!Rules \in LegalRules
  /\ Reminders(s)!Applicable(c) =>
       a \in Nat /\ r = Reminders(s)!Reminder(a, Reminders(s)!Latest(c), cadence[c].stage, Reminders(s)!Rules, today)
  /\ ~Reminders(s)!Applicable(c) => r = Reminders(s)!Notice("not_applicable", None, 99)
QueuesKnown == \A s \in Calendars : ReminderInv(s) => \A c \in People(s) : QueueFacts(s, c)

LEMMA QueuesAreKnown == QueuesKnown
  BY QueueOf DEF QueuesKnown, QueueFacts

(* Every step of a calendar keeps the types, and dates do not pass today.     *)
LEMMA RemindersStart ==
  ASSUME NEW s \in Calendars, Reminders(s)!Init
  PROVE  ReminderInv(s)
  <1> DEFINE p == [acquired |-> None, stage |-> None, archive |-> None, cold |-> FALSE]
  <1>1. p \in Persons(s) /\ p.cold = FALSE
    BY CalendarTyped DEF Persons
  <1> HIDE DEF p
  <1>2. today \in Reminders(s)!Days /\ rules = None /\ cadence = [c \in People(s) |-> p]
        /\ history = [c \in People(s) |-> {}]
    BY CalendarTyped DEF Reminders!Init, People, p
  <1>3. Reminders(s)!TypeOK
    BY <1>1, <1>2 DEF Reminders!TypeOK, Persons, People
  <1> QED BY <1>2, <1>3 DEF ReminderInv

(* The refreshed flag leaves a customer a customer.                           *)
LEMMA SyncedPerson ==
  ASSUME NEW s \in Calendars, NEW p \in Persons(s)
  PROVE  Reminders(s)!Synced(p) \in Persons(s)
  <1>1. Reminders(s)!IsCold(p.acquired, p.stage, Reminders(s)!Rules, today) \in BOOLEAN
    BY DEF Reminders!IsCold
  <1> QED BY <1>1 DEF Reminders!Synced, Persons

(* A customer that is written, by whatever, stays a customer.                 *)
LEMMA WrittenPerson ==
  ASSUME NEW s \in Calendars, ReminderInv(s), NEW c \in People(s), NEW q \in Persons(s),
         NEW H \in SUBSET (0..today),
         cadence' = [cadence EXCEPT ![c] = q],
         history' = [history EXCEPT ![c] = H], UNCHANGED <<today, rules>>
  PROVE  ReminderInv(s)'
  <1>1. /\ Reminders(s)!TypeOK /\ cadence \in [People(s) -> Persons(s)]
        /\ history \in [People(s) -> SUBSET Reminders(s)!Days] /\ today \in Reminders(s)!Days
        /\ \A b \in People(s) : history[b] \subseteq 0..today
    BY DEF ReminderInv, Reminders!TypeOK, People, Persons
  <1>2. cadence' \in [People(s) -> Persons(s)]
    BY <1>1
  <1>3. 0..today \subseteq Reminders(s)!Days
    BY <1>1, RemindersAssumption DEF Reminders!Days, Calendars, Reminders!CadenceAssumption
  <1>4. history' \in [People(s) -> SUBSET Reminders(s)!Days] /\ \A b \in People(s) : history'[b] \subseteq 0..today
    BY <1>1, <1>3
  <1>5. Reminders(s)!TypeOK'
    BY <1>1, <1>2, <1>4 DEF Reminders!TypeOK, Persons, People
  <1> QED BY <1>4, <1>5 DEF ReminderInv

LEMMA RemindersStep ==
  ASSUME NEW s \in Calendars, ReminderInv(s), Reminders(s)!Next
  PROVE  ReminderInv(s)'
  <1>1. /\ Reminders(s)!TypeOK /\ cadence \in [People(s) -> Persons(s)]
        /\ history \in [People(s) -> SUBSET Reminders(s)!Days] /\ today \in Reminders(s)!Days /\ today \in Nat
        /\ \A b \in People(s) : history[b] \subseteq 0..today /\ cadence[b] \in Persons(s)
        /\ history = [b \in People(s) |-> history[b]]
    BY CalendarTyped DEF ReminderInv, Reminders!TypeOK, People, Persons
  <1>2. CASE Reminders(s)!NextDay
    <2>1. today' = today + 1 /\ UNCHANGED <<rules, cadence, history>> /\ today' \in Reminders(s)!Days
      BY <1>1, <1>2, RemindersAssumption
      DEF Reminders!NextDay, Reminders!Days, Calendars, Reminders!CadenceAssumption
    <2>2. Reminders(s)!TypeOK'
      BY <1>1, <2>1 DEF Reminders!TypeOK
    <2>3. \A b \in People(s) : history'[b] \subseteq 0..today'
      BY <1>1, <2>1
    <2> QED BY <2>2, <2>3 DEF ReminderInv
  <1>3. CASE Reminders(s)!SaveRules
    <2>1. rules' \in SavedRules /\ UNCHANGED <<today, cadence, history>>
      BY <1>3 DEF Reminders!SaveRules
    <2> QED BY <1>1, <2>1 DEF ReminderInv, Reminders!TypeOK
  <1>4. CASE Reminders(s)!Finished
    <2>1. UNCHANGED <<today, rules, cadence, history>>
      BY <1>4 DEF Reminders!Finished, Reminders!vars
    <2> QED BY <2>1 DEF ReminderInv, Reminders!TypeOK
  <1>5. ASSUME NEW c \in People(s), Reminders(s)!SaveCustomer(c) PROVE ReminderInv(s)'
    <2>1. PICK a \in {d \in IF s = "queue" THEN QueuedFrom ELSE WatchedFrom : d <= today} \cup {None},
               st \in IF s = "queue" THEN QueuedStages ELSE WatchedStages,
               l \in {cadence[c].archive, None, today} :
            /\ cadence' = [cadence EXCEPT ![c] =
                 Reminders(s)!Synced([cadence[c] EXCEPT !.acquired = a, !.stage = st, !.archive = l])]
            /\ UNCHANGED <<today, rules, history>>
      BY <1>5 DEF Reminders!SaveCustomer
    <2> DEFINE p == [cadence[c] EXCEPT !.acquired = a, !.stage = st, !.archive = l]
    <2>2. p \in Persons(s)
      <3>1. a \in Reminders(s)!OptDays /\ l \in Reminders(s)!OptDays
        BY <1>1, CalendarTyped DEF Persons
      <3> QED BY <1>1, <3>1 DEF Persons
    <2>3. history' = [history EXCEPT ![c] = history[c]]
      BY <1>1, <2>1
    <2> HIDE DEF p
    <2>4. cadence' = [cadence EXCEPT ![c] = Reminders(s)!Synced(p)]
      BY <2>1 DEF p
    <2> QED BY <1>1, <2>1, <2>2, <2>3, <2>4, SyncedPerson, WrittenPerson
  <1>6. ASSUME NEW c \in People(s), Reminders(s)!RecordFollowup(c) PROVE ReminderInv(s)'
    <2>1. PICK d \in {today, today - 1} \cap Reminders(s)!Days :
            /\ history' = [history EXCEPT ![c] = history[c] \cup {d}]
            /\ cadence' = [cadence EXCEPT ![c] =
                 Reminders(s)!Synced([cadence[c] EXCEPT !.archive = Reminders(s)!LatestIn(c, history[c] \cup {d})])]
            /\ UNCHANGED <<today, rules>>
      BY <1>6 DEF Reminders!RecordFollowup
    <2> DEFINE H == history[c] \cup {d}
               p == [cadence[c] EXCEPT !.archive = Reminders(s)!LatestIn(c, H)]
    <2>2. H \in SUBSET (0..today) /\ H # {} /\ H \subseteq Reminders(s)!Days
      BY <1>1, CalendarTyped
    <2>3. Reminders(s)!LatestIn(c, H) \in Reminders(s)!OptDays
      <3>1. cadence[c].archive \in Nat \cup {None}
        BY <1>1, CalendarTyped DEF Persons
      <3> HIDE DEF H
      <3>2. Reminders(s)!LatestIn(c, H) \in H
        BY <1>1, <2>2, <3>1, LatestOf
      <3> QED BY <2>2, <3>2, CalendarTyped
    <2> HIDE DEF H
    <2>4. p \in Persons(s)
      BY <1>1, <2>3 DEF Persons
    <2> HIDE DEF p
    <2>5. cadence' = [cadence EXCEPT ![c] = Reminders(s)!Synced(p)] /\ history' = [history EXCEPT ![c] = H]
      BY <2>1 DEF p, H
    <2> QED BY <2>1, <2>2, <2>4, <2>5, SyncedPerson, WrittenPerson
  <1>7. ASSUME NEW c \in People(s), Reminders(s)!DeleteFollowup(c) PROVE ReminderInv(s)'
    <2>1. PICK d \in history[c] : history' = [history EXCEPT ![c] = history[c] \ {d}]
      BY <1>7 DEF Reminders!DeleteFollowup
    <2>2. cadence' = [cadence EXCEPT ![c] = Reminders(s)!Synced(cadence[c])] /\ UNCHANGED <<today, rules>>
      BY <1>7 DEF Reminders!DeleteFollowup
    <2>3. history[c] \ {d} \in SUBSET (0..today)
      BY <1>1
    <2> QED BY <1>1, <2>1, <2>2, <2>3, SyncedPerson, WrittenPerson
  <1>8. ASSUME NEW c \in People(s), Reminders(s)!ImportCustomer(c) PROVE ReminderInv(s)'
    <2>1. PICK a \in {d \in IF s = "queue" THEN QueuedFrom ELSE WatchedFrom : d <= today} \cup {None},
               st \in IF s = "queue" THEN QueuedStages ELSE WatchedStages,
               l \in {cadence[c].archive, None, today} :
            /\ cadence' = [cadence EXCEPT ![c] =
                 [cadence[c] EXCEPT !.acquired = a, !.stage = st, !.archive = l]]
            /\ UNCHANGED <<today, rules, history>>
      BY <1>8 DEF Reminders!ImportCustomer
    <2> DEFINE p == [cadence[c] EXCEPT !.acquired = a, !.stage = st, !.archive = l]
    <2>2. p \in Persons(s)
      <3>1. a \in Reminders(s)!OptDays /\ l \in Reminders(s)!OptDays
        BY <1>1, CalendarTyped DEF Persons
      <3> QED BY <1>1, <3>1 DEF Persons
    <2>3. history' = [history EXCEPT ![c] = history[c]]
      BY <1>1, <2>1
    <2> HIDE DEF p
    <2>4. cadence' = [cadence EXCEPT ![c] = p] /\ UNCHANGED <<today, rules>>
      BY <2>1 DEF p
    <2> DEFINE H == history[c]
    <2>5. H \in SUBSET (0..today) /\ history' = [history EXCEPT ![c] = H]
      BY <1>1, <2>3
    <2> HIDE DEF H
    <2> QED BY <2>2, <2>4, <2>5, WrittenPerson
  <1> QED BY <1>2, <1>3, <1>4, <1>5, <1>6, <1>7, <1>8 DEF Reminders!Next, People

(* Inside one band the notices' numbers grow with their dates.                *)
LEMMA DatedReminder ==
  ASSUME NEW s \in Calendars, ReminderInv(s), NEW c \in People(s), Reminders(s)!QueueReminder(c).due # None
  PROVE  LET r == Reminders(s)!QueueReminder(c)
             offset == IF Reminders(s)!QueueCold(c) THEN 30 ELSE 0
         IN
         /\ r.due \in Nat
         /\ \/ ~Reminders(s)!QueueCold(c) /\ cadence[c].stage = None /\ r.priority = 25
            \/ /\ Reminders(s)!QueueCold(c) \/ cadence[c].stage # None
               /\ r = Reminders(s)!DueNotice(r.due, today, offset)
  <1> DEFINE a == cadence[c].acquired
             l == Reminders(s)!Latest(c)
             st == cadence[c].stage
             R == Reminders(s)!Rules
             r == Reminders(s)!QueueReminder(c)
             cold == Reminders(s)!IsCold(a, st, R, today)
  <1>1. Reminders(s)!Applicable(c)
    BY QueueOf DEF Reminders!Notice
  <1>2. /\ a \in Nat /\ l \in Nat \cup {None} /\ R \in LegalRules /\ today \in Nat
        /\ r = Reminders(s)!Reminder(a, l, st, R, today) /\ (Reminders(s)!QueueCold(c) <=> cold)
    BY <1>1, QueueOf
  <1> HIDE DEF a, l, st, R, r
  <1>3. CASE cold
    <2>1. r = Reminders(s)!DueNotice(ColdDue(s, a, l, R), today, 30) /\ ColdDue(s, a, l, R) \in Nat
      BY <1>2, <1>3, ColdReminder
    <2>2. r.due = ColdDue(s, a, l, R)
      BY <1>2, <2>1, NoticeOf
    <2> QED BY <1>2, <1>3, <2>1, <2>2 DEF r, st
  <1>4. CASE ~cold /\ l = None /\ st = None
    <2>1. r = Reminders(s)!Notice("unfollowed", a + R.first, 25)
      BY <1>2, <1>4, FirstReminder
    <2>2. r.due = a + R.first /\ r.priority = 25
      BY <2>1 DEF Reminders!Notice
    <2> QED BY <1>2, <1>4, <2>2, CadencesPositive DEF r, st
  <1>5. CASE ~cold /\ ~(l = None /\ st = None) /\ st \notin DOMAIN Reminders(s)!Intervals(R)
    <2>1. r = Reminders(s)!Notice("stage_unset", None, 90)
      BY <1>2, <1>5, NoReminder
    <2> QED BY <2>1 DEF Reminders!Notice, r
  <1>6. CASE ~cold /\ st \in DOMAIN Reminders(s)!Intervals(R)
    <2>1. r = Reminders(s)!DueNotice(StageDue(s, a, l, st, R), today, 0) /\ StageDue(s, a, l, st, R) \in Nat
      BY <1>2, <1>6, StageReminder
    <2>2. r.due = StageDue(s, a, l, st, R)
      BY <1>2, <2>1, NoticeOf
    <2>3. st # None
      BY <1>2, <1>6, IntervalsPositive
    <2> QED BY <1>2, <1>6, <2>1, <2>2, <2>3 DEF r, st
  <1> QED BY <1>3, <1>4, <1>5, <1>6

LEMMA QueueOrdered ==
  ASSUME NEW s \in Calendars, ReminderInv(s)
  PROVE  Reminders(s)!QueueByDate
  <1> SUFFICES ASSUME NEW c \in People(s), NEW d \in People(s),
                      cadence[c].stage = cadence[d].stage,
                      Reminders(s)!QueueCold(c) = Reminders(s)!QueueCold(d),
                      Reminders(s)!QueueReminder(c).due # None, Reminders(s)!QueueReminder(d).due # None,
                      Reminders(s)!QueueReminder(c).due < Reminders(s)!QueueReminder(d).due
               PROVE  Reminders(s)!Before(Reminders(s)!SortKey(c), Reminders(s)!SortKey(d))
    BY DEF Reminders!QueueByDate, Reminders!Listed, People
  <1> DEFINE x == Reminders(s)!QueueReminder(c)
             y == Reminders(s)!QueueReminder(d)
             k == Reminders(s)!SortKey(c)
             m == Reminders(s)!SortKey(d)
             offset == IF Reminders(s)!QueueCold(c) THEN 30 ELSE 0
  <1>1. today \in Nat /\ x.due \in Nat /\ y.due \in Nat
    BY QueueOf, DatedReminder
  <1>2. \/ x.priority = 25 /\ y.priority = 25
        \/ /\ x = Reminders(s)!DueNotice(x.due, today, offset)
           /\ y = Reminders(s)!DueNotice(y.due, today, offset)
    BY DatedReminder
  <1> HIDE DEF x, y
  <1>3. x.priority \in Nat /\ y.priority \in Nat /\ x.priority <= y.priority
    <2>1. CASE x.priority = 25 /\ y.priority = 25
      BY <2>1
    <2>2. CASE x = Reminders(s)!DueNotice(x.due, today, offset) /\ y = Reminders(s)!DueNotice(y.due, today, offset)
      <3>1. offset \in Nat /\ x.due < y.due
        BY DEF x, y
      <3> HIDE DEF offset
      <3>2. /\ x.priority = IF x.due < today THEN offset
                            ELSE IF x.due = today THEN offset + 1
                            ELSE IF x.due - today <= 3 THEN offset + 1 + (x.due - today) ELSE offset + 8
            /\ y.priority = IF y.due < today THEN offset
                            ELSE IF y.due = today THEN offset + 1
                            ELSE IF y.due - today <= 3 THEN offset + 1 + (y.due - today) ELSE offset + 8
        BY <1>1, <2>2, <3>1, NoticeOf
      <3> QED BY <1>1, <3>1, <3>2
    <2> QED BY <1>2, <2>1, <2>2
  <1>4. k[1] = m[1]
    BY DEF Reminders!SortKey, Reminders!Band
  <1>5. k[2] = x.priority /\ m[2] = y.priority
    BY DEF Reminders!SortKey, x, y
  <1>6. k[3] = x.due - today /\ m[3] = y.due - today
    BY DEF Reminders!SortKey, Reminders!Secondary, x, y
  <1>7. k[3] < m[3]
    BY <1>1, <1>6 DEF x, y
  <1> HIDE DEF k, m
  <1>8. Reminders(s)!Before(k, m)
    <2>1. CASE x.priority < y.priority
      BY <1>4, <1>5, <2>1 DEF Reminders!Before
    <2>2. CASE x.priority = y.priority
      BY <1>4, <1>5, <1>7, <2>2 DEF Reminders!Before
    <2> QED BY <1>3, <2>1, <2>2
  <1> QED BY <1>8 DEF k, m

(* What is due on a day is overdue on the next, unless the customer turns     *)
(* cold.                                                                      *)
LEMMA DueStaysDue ==
  ASSUME NEW s \in Calendars, ReminderInv(s), Reminders(s)!Next
  PROVE  Reminders(s)!StaysDue
  <1> SUFFICES ASSUME today' # today, NEW c \in People(s),
                      Reminders(s)!QueueReminder(c).status \in Reminders(s)!DueStates,
                      ~(~Reminders(s)!QueueCold(c) /\ Reminders(s)!QueueCold(c)')
               PROVE  Reminders(s)!QueueReminder(c).status' = "overdue"
    BY DEF Reminders!StaysDue, People
  <1>1. today' = today + 1 /\ UNCHANGED <<rules, cadence, history>>
    BY DEF Reminders!Next, Reminders!NextDay, Reminders!SaveRules, Reminders!Finished, Reminders!vars,
           Reminders!SaveCustomer, Reminders!ImportCustomer, Reminders!RecordFollowup, Reminders!DeleteFollowup
  <1>2. ReminderInv(s)'
    BY RemindersStep
  <1> DEFINE a == cadence[c].acquired
             l == Reminders(s)!Latest(c)
             st == cadence[c].stage
             R == Reminders(s)!Rules
             r == Reminders(s)!QueueReminder(c)
  <1>3. Reminders(s)!Applicable(c)
    BY QueueOf DEF Reminders!Notice, Reminders!DueStates
  <1>4. /\ a \in Nat /\ l \in Nat \cup {None} /\ R \in LegalRules /\ today \in Nat
        /\ r = Reminders(s)!Reminder(a, l, st, R, today)
        /\ Reminders(s)!QueueCold(c) <=> Reminders(s)!IsCold(a, st, R, today)
    BY <1>3, QueueOf
  <1>5. /\ cadence' = cadence /\ Reminders(s)!Latest(c)' = l /\ Reminders(s)!Rules' = R
        /\ Reminders(s)!Applicable(c)'
    BY <1>1, <1>3 DEF Reminders!Latest, Reminders!LatestIn, Reminders!Rules, Reminders!Applicable, Reminders!Defaults
  <1>6. /\ Reminders(s)!QueueReminder(c)' = Reminders(s)!Reminder(a, l, st, R, today + 1)
        /\ Reminders(s)!QueueCold(c)' <=> Reminders(s)!IsCold(a, st, R, today + 1)
    BY <1>1, <1>5 DEF Reminders!QueueReminder, Reminders!QueueCold, Reminders!Reminder, Reminders!IsCold,
                      Reminders!DueNotice, Reminders!Notice, Reminders!Base, Reminders!Intervals
  <1> DEFINE t == Reminders(s)!Reminder(a, l, st, R, today + 1)
  <1>7. r.status \in Reminders(s)!DueStates /\ today + 1 \in Nat
    BY <1>4
  <1> HIDE DEF a, l, st, R, r, t
  <1>8. Reminders(s)!IsCold(a, st, R, today) <=> Reminders(s)!IsCold(a, st, R, today + 1)
    BY <1>4, <1>6, <1>7, ColdGrows
  <1>9. t.status = "overdue"
    <2>1. CASE Reminders(s)!IsCold(a, st, R, today)
      <3>1. /\ r = Reminders(s)!DueNotice(ColdDue(s, a, l, R), today, 30)
            /\ t = Reminders(s)!DueNotice(ColdDue(s, a, l, R), today + 1, 30) /\ ColdDue(s, a, l, R) \in Nat
        BY <1>4, <1>7, <1>8, <2>1, ColdReminder DEF t
      <3>2. ColdDue(s, a, l, R) <= today
        BY <1>4, <1>7, <3>1, NoticeOf
      <3> QED BY <1>4, <3>1, <3>2, NoticeOf
    <2>2. CASE ~Reminders(s)!IsCold(a, st, R, today) /\ st \in DOMAIN Reminders(s)!Intervals(R)
      <3>1. /\ r = Reminders(s)!DueNotice(StageDue(s, a, l, st, R), today, 0)
            /\ t = Reminders(s)!DueNotice(StageDue(s, a, l, st, R), today + 1, 0) /\ StageDue(s, a, l, st, R) \in Nat
        BY <1>4, <1>7, <1>8, <2>2, StageReminder DEF t
      <3>2. StageDue(s, a, l, st, R) <= today
        BY <1>4, <1>7, <3>1, NoticeOf
      <3> QED BY <1>4, <3>1, <3>2, NoticeOf
    <2>3. CASE ~Reminders(s)!IsCold(a, st, R, today) /\ l = None /\ st = None
      <3>1. r = Reminders(s)!Notice("unfollowed", a + R.first, 25)
        BY <1>4, <2>3, FirstReminder
      <3> QED BY <1>7, <3>1 DEF Reminders!Notice, Reminders!DueStates
    <2>4. CASE /\ ~Reminders(s)!IsCold(a, st, R, today) /\ ~(l = None /\ st = None)
               /\ st \notin DOMAIN Reminders(s)!Intervals(R)
      <3>1. r = Reminders(s)!Notice("stage_unset", None, 90)
        BY <1>4, <2>4, NoReminder
      <3> QED BY <1>7, <3>1 DEF Reminders!Notice, Reminders!DueStates
    <2> QED BY <2>1, <2>2, <2>3, <2>4
  <1> QED BY <1>6, <1>9 DEF t

(* A follow-up of today counts every cadence from today.                      *)
LEMMA FollowupSilences ==
  ASSUME NEW s \in Calendars, ReminderInv(s), Reminders(s)!Next
  PROVE  Reminders(s)!Silences
  <1> SUFFICES ASSUME NEW c \in People(s), today \in history[c]' \ history[c]
               PROVE  Reminders(s)!QueueReminder(c).status' \notin Reminders(s)!DueStates
    BY DEF Reminders!Silences, People
  <1>1. today' = today
    BY DEF Reminders!Next, Reminders!NextDay, Reminders!SaveRules, Reminders!Finished, Reminders!vars,
           Reminders!SaveCustomer, Reminders!ImportCustomer, Reminders!RecordFollowup, Reminders!DeleteFollowup
  <1>2. ReminderInv(s)'
    BY RemindersStep
  <1> DEFINE a == cadence[c].acquired
             l == Reminders(s)!Latest(c)
             st == cadence[c].stage
             R == Reminders(s)!Rules
             r == Reminders(s)!QueueReminder(c)
  <1>3. history'[c] \in SUBSET (0..today) /\ history'[c] # {} /\ today \in history'[c] /\ today \in Nat
    BY <1>1, <1>2, QueueOf DEF ReminderInv
  <1>4. l' = today
    <2>1. l' = Last(history'[c])
      BY <1>3 DEF Reminders!Latest, Reminders!LatestIn, Last
    <2>2. Last(history'[c]) \in history'[c] /\ \A v \in history'[c] : v <= Last(history'[c])
      BY <1>3, LastIs
    <2> QED BY <1>3, <2>1, <2>2
  <1>5. /\ a' \in Nat \cup {None} /\ R' \in LegalRules
        /\ Reminders(s)!Applicable(c)' => a' \in Nat /\ r' = Reminders(s)!Reminder(a', l', st', R', today')
        /\ ~Reminders(s)!Applicable(c)' => r' = Reminders(s)!Notice("not_applicable", None, 99)
    <2>1. QueuesKnown'
      BY QueuesAreKnown, PTL
    <2>2. QueueFacts(s, c)'
      BY <1>2, <2>1 DEF QueuesKnown, People
    <2> QED BY <2>2 DEF QueueFacts
  <1> HIDE DEF a, l, st, R, r
  <1>6. CASE ~Reminders(s)!Applicable(c)'
    BY <1>5, <1>6 DEF Reminders!Notice, Reminders!DueStates, r
  <1>7. CASE Reminders(s)!Applicable(c)'
    <2>1. None \notin Nat
      BY CalendarTyped
    <2>2. r'.status \notin Reminders(s)!DueStates
      <3>1. CASE Reminders(s)!IsCold(a', st', R', today)
        <4>1. r' = Reminders(s)!DueNotice(ColdDue(s, a', l', R'), today, 30) /\ ColdDue(s, a', l', R') \in Nat
              /\ ColdDue(s, a', l', R') > today
          BY <1>1, <1>3, <1>4, <1>5, <1>7, <2>1, <3>1, ColdReminder
        <4> QED BY <1>3, <4>1, NoticeOf
      <3>2. CASE ~Reminders(s)!IsCold(a', st', R', today) /\ st' \in DOMAIN Reminders(s)!Intervals(R')
        <4>1. r' = Reminders(s)!DueNotice(StageDue(s, a', l', st', R'), today, 0) /\ StageDue(s, a', l', st', R') \in Nat
              /\ StageDue(s, a', l', st', R') > today
          BY <1>1, <1>3, <1>4, <1>5, <1>7, <2>1, <3>2, StageReminder
        <4> QED BY <1>3, <4>1, NoticeOf
      <3>3. CASE ~Reminders(s)!IsCold(a', st', R', today) /\ st' \notin DOMAIN Reminders(s)!Intervals(R')
        <4>1. r' = Reminders(s)!Notice("stage_unset", None, 90)
          BY <1>1, <1>3, <1>4, <1>5, <1>7, <2>1, <3>3, NoReminder
        <4> QED BY <4>1 DEF Reminders!Notice, Reminders!DueStates
      <3> QED BY <3>1, <3>2, <3>3
    <2> QED BY <2>2 DEF r
  <1> QED BY <1>6, <1>7

(* While another part is at work, the calendar stands still.                  *)
LEMMA RemindersElsewhere ==
  ASSUME [DeskNext]_deskVars
  PROVE  \/ desk = "cadence" /\ Reminders("cadence")!Next
         \/ desk = "queue" /\ Reminders("queue")!Next
         \/ UNCHANGED reminderVars
  BY DEF DeskNext, SessionStep, PeriodStep, FigureStep, ReminderStep, ProductStep, SearchStep, ImportStep, deskVars

OfficeReminders == \A s \in Calendars : desk = s => ReminderInv(s)

LEMMA RemindersKept ==
  ASSUME OfficeReminders, [DeskNext]_deskVars
  PROVE  /\ OfficeReminders'
         /\ desk = "cadence" => Reminders("cadence")!StaysDue /\ Reminders("cadence")!Silences
  <1>1. desk' = desk
    BY DeskStays
  <1>2. ASSUME NEW s \in Calendars, desk = s, UNCHANGED reminderVars
        PROVE  ReminderInv(s)' /\ Reminders(s)!StaysDue /\ Reminders(s)!Silences
    <2>1. UNCHANGED <<today, rules, cadence, history>> /\ ReminderInv(s)
      BY <1>2 DEF reminderVars, OfficeReminders
    <2>2. ReminderInv(s)'
      BY <2>1 DEF ReminderInv, Reminders!TypeOK
    <2> QED BY <2>1, <2>2 DEF Reminders!StaysDue, Reminders!Silences
  <1>3. ASSUME NEW s \in Calendars, desk = s, Reminders(s)!Next
        PROVE  ReminderInv(s)' /\ Reminders(s)!StaysDue /\ Reminders(s)!Silences
    BY <1>3, RemindersStep, DueStaysDue, FollowupSilences DEF OfficeReminders
  <1>4. ASSUME NEW s \in Calendars, desk = s
        PROVE  ReminderInv(s)' /\ Reminders(s)!StaysDue /\ Reminders(s)!Silences
    BY <1>2, <1>3, <1>4, RemindersElsewhere
  <1>5. "cadence" \in Calendars
    BY DEF Calendars
  <1> QED BY <1>1, <1>4, <1>5 DEF OfficeReminders

(* Who is due stays due until followed up or cold, a follow-up of today       *)
(* silences the reminder whatever rules were saved, and a band of the queue   *)
(* is in the order of the dates, for saved and for imported customers.        *)
THEOREM RemindersAlwaysHold == DeskSpec => RemindersHold
  <1>1. DeskInit => OfficeReminders
    <2> SUFFICES ASSUME DeskInit, NEW s \in Calendars, desk = s PROVE ReminderInv(s)
      BY DEF OfficeReminders
    <2>1. Reminders(s)!Init
      BY DEF DeskInit, Calendars
    <2> QED BY <2>1, RemindersStart
  <1>2. OfficeReminders =>
          /\ desk = "cadence" => Reminders("cadence")!TypeOK
          /\ desk = "queue" => Reminders("queue")!TypeOK /\ Reminders("queue")!QueueByDate
    <2>1. "cadence" \in Calendars /\ "queue" \in Calendars
      BY DEF Calendars
    <2>2. ReminderInv("queue") => Reminders("queue")!QueueByDate
      BY <2>1, QueueOrdered
    <2> QED BY <2>1, <2>2 DEF OfficeReminders, ReminderInv
  <1>3. OfficeReminders /\ [DeskNext]_deskVars =>
          OfficeReminders' /\ [desk = "cadence" => Reminders("cadence")!StaysDue /\ Reminders("cadence")!Silences]_deskVars
    BY RemindersKept
  <1> QED BY <1>1, <1>2, <1>3, PTL DEF DeskSpec, RemindersHold
-----------------------------------------------------------------------------
(* The catalog: rows of images, and what pending requests have read of them.  *)
ShelfSettings == {"images", "lines"}
Urls(s) == IF s = "images" THEN UserUrls ELSE {}
Most(s) == IF s = "images" THEN MaxImages ELSE 0
Rows(s) == [id : 1..Most(s), of : Products, url : Urls(s) \cup {ScriptUrl}, primary : BOOLEAN]
LateOnes(s) == IF s = "images" THEN ImageSkus ELSE LineSkus
Boards(s) == IF s = "images" THEN {} ELSE Deals
Ids(rows) == {i.id : i \in rows}

LEMMA ShelfCounts ==
  ASSUME NEW s \in ShelfSettings
  PROVE  \A S : Shelves(s)!Cardinality(S) = Cardinality(S) /\ Shelves(s)!IsFiniteSet(S) = IsFiniteSet(S)
  BY DEF Shelves!Cardinality, Cardinality, Shelves!IsFiniteSet, IsFiniteSet

LEMMA ShelfTyped ==
  ASSUME NEW s \in ShelfSettings
  PROVE  /\ IsFiniteSet(Products) /\ IsFiniteSet(Urls(s)) /\ ScriptUrl \notin Urls(s)
         /\ (IF s = "images" THEN CatalogueSkus ELSE {}) \subseteq Skus /\ LateOnes(s) \subseteq Skus
         /\ \A x, y \in LateOnes(s) : x = y
         /\ Most(s) \in Nat /\ None \notin Skus /\ Gone \notin Skus /\ None # Gone
  <1>1. Shelves(s)!CatalogAssumption
    BY ShelvesAssumption DEF ShelfSettings
  <1>2. IsFiniteSet(Products) /\ IsFiniteSet(Urls(s)) /\ ScriptUrl \notin Urls(s)
    BY <1>1, ShelfCounts DEF Shelves!CatalogAssumption, Urls
  <1>3. /\ (IF s = "images" THEN CatalogueSkus ELSE {}) \subseteq Skus /\ LateOnes(s) \subseteq Skus
        /\ \A x, y \in LateOnes(s) : x = y
    BY <1>1 DEF Shelves!CatalogAssumption, LateOnes
  <1>4. Most(s) \in Nat /\ None \notin Skus /\ Gone \notin Skus /\ None # Gone
    BY <1>1 DEF Shelves!CatalogAssumption, Most
  <1> QED BY <1>2, <1>3, <1>4

(* Identities are given out in any order, each once.                          *)
Numbering(s, S) ==
  CHOOSE f \in [S -> nextImage..(nextImage + Shelves(s)!Cardinality(S) - 1)] : \A u, v \in S : f[u] = f[v] => u = v

LEMMA NumberingIs ==
  ASSUME NEW s \in ShelfSettings, NEW S, IsFiniteSet(S), nextImage \in Nat
  PROVE  /\ Numbering(s, S) \in [S -> nextImage..(nextImage + Cardinality(S) - 1)]
         /\ \A u, v \in S : Numbering(s, S)[u] = Numbering(s, S)[v] => u = v
  <1> DEFINE T == nextImage..(nextImage + Cardinality(S) - 1)
  <1>1. Cardinality(S) \in Nat
    BY FS_CardinalityType
  <1>2. IsFiniteSet(T) /\ Cardinality(T) = Cardinality(S)
    <2> DEFINE hi == nextImage + Cardinality(S) - 1
    <2>1. nextImage \in Int /\ hi \in Int
      BY <1>1
    <2>2. nextImage > hi <=> Cardinality(S) = 0
      BY <1>1
    <2>3. hi - nextImage + 1 = Cardinality(S)
      BY <1>1
    <2> HIDE DEF hi
    <2>4. IsFiniteSet(nextImage..hi) /\ Cardinality(nextImage..hi) = IF nextImage > hi THEN 0 ELSE hi - nextImage + 1
      BY <2>1, FS_Interval
    <2> QED BY <2>2, <2>3, <2>4 DEF hi
  <1>3. ExistsBijection(S, T)
    <2> HIDE DEF T
    <2> QED BY <1>2, FS_SameCardinalityBij
  <1>4. \E f \in [S -> T] : \A u, v \in S : f[u] = f[v] => u = v
    <2> HIDE DEF T
    <2> QED BY <1>3 DEF ExistsBijection, Bijection, Injection, IsInjective
  <1>5. Shelves(s)!Cardinality(S) = Cardinality(S)
    BY ShelfCounts
  <1> QED BY <1>4, <1>5 DEF Numbering

LEMMA NewImagesAre ==
  ASSUME NEW s \in ShelfSettings, nextImage \in Nat \ {0}, NEW p \in Products, NEW U \in SUBSET (Urls(s) \cup {ScriptUrl}),
         IsFiniteSet(U), NEW P, Shelves(s)!Room(Cardinality(U))
  PROVE  LET N == Shelves(s)!NewImages(p, U, P) IN
         /\ N \subseteq Rows(s) /\ Cardinality(N) = Cardinality(U) /\ Cardinality(U) \in Nat
         /\ \A i \in N : /\ i.of = p /\ i.url \in U /\ (i.primary <=> i.url \in P)
                         /\ nextImage <= i.id /\ i.id < nextImage + Cardinality(U)
         /\ \A i, j \in N : i.id = j.id \/ i.url = j.url => i = j
         /\ \A u \in U : \E i \in N : i.url = u
  <1> DEFINE f == Numbering(s, U)
             R(u) == [id |-> f[u], of |-> p, url |-> u, primary |-> u \in P]
             N == {R(u) : u \in U}
             g == [u \in U |-> R(u)]
  <1>1. Shelves(s)!NewImages(p, U, P) = N
    <2>1. Shelves(s)!NewImages(p, U, P) =
            {[id |-> Numbering(s, U)[u], of |-> p, url |-> u, primary |-> u \in P] : u \in U}
      BY DEF Shelves!NewImages, Numbering
    <2> QED BY <2>1
  <1>2. Cardinality(U) \in Nat /\ nextImage + Cardinality(U) <= Most(s) + 1 /\ Most(s) \in Nat
    BY FS_CardinalityType, ShelfTyped DEF Shelves!Room, Most
  <1>3. /\ \A u \in U : f[u] \in Nat /\ nextImage <= f[u] /\ f[u] < nextImage + Cardinality(U)
        /\ \A u, v \in U : f[u] = f[v] => u = v
    BY <1>2, NumberingIs
  <1> HIDE DEF f
  <1>4. \A u \in U : /\ R(u).id = f[u] /\ R(u).of = p /\ R(u).url = u /\ (R(u).primary <=> u \in P)
                     /\ R(u) \in Rows(s)
    <2> TAKE u \in U
    <2>1. f[u] \in 1..Most(s) /\ u \in Urls(s) \cup {ScriptUrl} /\ (u \in P) \in BOOLEAN
      BY <1>2, <1>3
    <2> QED BY <2>1 DEF Rows
  <1>5. Cardinality(N) = Cardinality(U)
    <2>1. g \in Bijection(U, N)
      BY <1>4 DEF Bijection, Injection, Surjection, IsInjective
    <2> HIDE DEF g, N
    <2> QED BY <2>1, FS_Bijection DEF ExistsBijection
  <1>6. \A i \in N : \E u \in U : i = R(u)
    OBVIOUS
  <1>7. \A u \in U : R(u) \in N
    OBVIOUS
  <1> HIDE DEF N, R
  <1>8. /\ N \subseteq Rows(s)
        /\ \A i \in N : /\ i.of = p /\ i.url \in U /\ (i.primary <=> i.url \in P)
                        /\ nextImage <= i.id /\ i.id < nextImage + Cardinality(U)
    BY <1>3, <1>4, <1>6
  <1>9. \A i, j \in N : i.id = j.id \/ i.url = j.url => i = j
    BY <1>3, <1>4, <1>6
  <1>10. \A u \in U : \E i \in N : i.url = u
    BY <1>4, <1>7
  <1> QED BY <1>1, <1>2, <1>5, <1>8, <1>9, <1>10

(* What a request has read stays a record of rows: identities are never given *)
(* out again, and a row keeps its product and its link.                       *)
Recalled(s, seen) ==
  /\ seen \subseteq Rows(s)
  /\ \A j \in seen : j.id < nextImage /\ \A i \in image : i.id = j.id => i.of = j.of /\ i.url = j.url

(* Where an image has come that a request has not read, the primary one is    *)
(* among those that have come.                                                *)
Overtaken(seen, p) ==
  (\E i \in image : i.of = p /\ i.id \notin Ids(seen)) =>
    \A i \in image : i.of = p /\ i.primary => i.id \notin Ids(seen)

Writes(s) ==
  {w \in [urls : SUBSET Urls(s), flags : SUBSET Urls(s)] : w.flags \subseteq w.urls /\ \A u, v \in w.flags : u = v}
    \cup {Shelves(s)!Keep}

UpdateInv(s, x) ==
  /\ edits[x].on \in Products /\ sku[edits[x].on] # None /\ edits[x].sku \in Skus /\ edits[x].rename \in BOOLEAN
  /\ edits[x].write \in Writes(s) /\ Recalled(s, edits[x].seen)
  /\ \A j \in edits[x].seen : j.of = edits[x].on
  /\ Overtaken(edits[x].seen, edits[x].on)

(* A script that attaches pictures has read every image of its product: the   *)
(* primary one, and its own picture only as the primary one.                  *)
LateInv(s, x) ==
  /\ edits[x].on \subseteq Products /\ (\A p, q \in edits[x].on : p = q) /\ (\A p \in edits[x].on : sku[p] # None)
  /\ Recalled(s, edits[x].seen)
  /\ \A j \in edits[x].seen : /\ j.of \in edits[x].on
                              /\ j.url = ScriptUrl => j.primary
                              /\ \E i \in edits[x].seen : i.of = j.of /\ i.primary
  /\ \A i, j \in edits[x].seen : i.id = j.id \/ (i.primary /\ j.primary) => i = j
  /\ \A p \in edits[x].on : Overtaken(edits[x].seen, p)

JobInv(s, x) ==
  /\ edits[x].op = "update" => UpdateInv(s, x)
  /\ edits[x].op = "delete" => edits[x].on \in Products
  /\ edits[x].op = "lines" => edits[x].on \in Boards(s) /\ edits[x].write \subseteq Products
  /\ edits[x].op = "import" => /\ edits[x].todo \subseteq Skus /\ edits[x].create \subseteq Skus
                               /\ edits[x].illustrate \subseteq Products
  /\ edits[x].op = "late" => LateInv(s, x)

(* Exactly one primary image of a product with images, and that is the        *)
(* script's picture where there is one.                                       *)
Pictures ==
  /\ \A i \in image : sku[i.of] \in Skus
  /\ \A i, j \in image : i.id = j.id => i = j
  /\ \A i \in image : i.url = ScriptUrl => i.primary
  /\ \A i, j \in image : i.of = j.of /\ i.primary /\ j.primary => i = j
  /\ \A i \in image : \E j \in image : j.of = i.of /\ j.primary

OneSku == \A p, q \in Products : sku[p] \in Skus /\ sku[p] = sku[q] => p = q

CatalogInv(s) ==
  /\ Shelves(s)!TypeOK /\ Pictures /\ OneSku
  /\ \A d \in Boards(s), p \in Products : <<d, p>> \in line => sku[p] \in Skus
  /\ edits = [x \in Requests |-> edits[x]]
  /\ \A x \in Requests : JobInv(s, x)

LEMMA CatalogTyped ==
  ASSUME NEW s \in ShelfSettings, CatalogInv(s)
  PROVE  /\ sku \in [Products -> Skus \cup {None, Gone}] /\ image \subseteq Rows(s)
         /\ nextImage \in Nat \ {0} /\ nextImage <= Most(s) + 1 /\ \A i \in image : i.id < nextImage
         /\ line \subseteq Boards(s) \X Products
         /\ Pictures /\ OneSku /\ edits = [x \in Requests |-> edits[x]]
         /\ \A x \in Requests : JobInv(s, x)
         /\ \A d \in Boards(s), p \in Products : <<d, p>> \in line => sku[p] \in Skus
  BY ShelfTyped DEF CatalogInv, Shelves!TypeOK, Rows, Most, Urls, Boards

(* How far a step may move the images and products under a request that is    *)
(* not its own: per product, images only go, or every primary one is new.     *)
Smooth ==
  /\ nextImage <= nextImage'
  /\ \A p \in Products : sku[p] # None => sku'[p] # None
  /\ \A i \in image' : i.id < nextImage => \E j \in image : j.id = i.id /\ j.of = i.of /\ j.url = i.url
  /\ \A p \in Products : \/ \A i \in image' : i.of = p => i \in image
                         \/ \A i \in image' : i.of = p /\ i.primary => nextImage <= i.id

LEMMA RecalledStays ==
  ASSUME NEW s \in ShelfSettings, NEW seen, Recalled(s, seen), Smooth, nextImage \in Nat, nextImage' \in Nat
  PROVE  /\ \A j \in seen : j.id < nextImage' /\ \A i \in image' : i.id = j.id => i.of = j.of /\ i.url = j.url
         /\ seen \subseteq Rows(s)
  BY DEF Recalled, Smooth, Rows

LEMMA OvertakenStays ==
  ASSUME NEW s \in ShelfSettings, NEW seen, NEW p \in Products, Recalled(s, seen), Overtaken(seen, p), Smooth,
         nextImage \in Nat, image' \subseteq Rows(s)
  PROVE  (\E i \in image' : i.of = p /\ i.id \notin Ids(seen)) =>
           \A i \in image' : i.of = p /\ i.primary => i.id \notin Ids(seen)
  <1>1. CASE \A i \in image' : i.of = p => i \in image
    BY <1>1 DEF Overtaken
  <1>2. CASE \A i \in image' : i.of = p /\ i.primary => nextImage <= i.id
    <2>1. \A k \in Ids(seen) : k \in Nat /\ k < nextImage
      BY DEF Recalled, Ids, Rows
    <2>2. \A i \in image' : i.id \in Nat
      BY DEF Rows
    <2> QED BY <1>2, <2>1, <2>2
  <1> QED BY <1>1, <1>2 DEF Smooth

LEMMA JobStays ==
  ASSUME NEW s \in ShelfSettings, NEW x \in Requests, JobInv(s, x), Smooth, nextImage \in Nat, nextImage' \in Nat,
         image' \subseteq Rows(s), edits'[x] = edits[x]
  PROVE  JobInv(s, x)'
  <1>1. ASSUME UpdateInv(s, x) PROVE UpdateInv(s, x)'
    <2>1. Recalled(s, edits[x].seen)'
      BY <1>1, RecalledStays DEF UpdateInv, Recalled
    <2>2. Overtaken(edits[x].seen, edits[x].on)'
      BY <1>1, OvertakenStays DEF UpdateInv, Overtaken
    <2>3. sku'[edits[x].on] # None
      BY <1>1 DEF UpdateInv, Smooth
    <2> QED BY <1>1, <2>1, <2>2, <2>3 DEF UpdateInv, Writes, Shelves!Keep
  <1>2. ASSUME LateInv(s, x) PROVE LateInv(s, x)'
    <2> DEFINE seen == edits[x].seen
    <2>1. Recalled(s, seen) /\ seen' = seen
      BY <1>2 DEF LateInv
    <2> HIDE DEF seen
    <2>2. Recalled(s, seen)'
      BY <2>1, RecalledStays DEF Recalled
    <2>3. Recalled(s, edits[x].seen)'
      BY <2>2 DEF seen
    <2>4. \A p \in edits[x].on : p \in Products /\ sku'[p] # None
      BY <1>2 DEF LateInv, Smooth
    <2>5. \A p \in edits[x].on : Overtaken(edits[x].seen, p)'
      BY <1>2, <2>4, OvertakenStays DEF LateInv, Overtaken
    <2> QED BY <1>2, <2>3, <2>4, <2>5 DEF LateInv, Overtaken
  <1> QED BY <1>1, <1>2 DEF JobInv

(* What a user sends: a set of links, at most one of them flagged.            *)
LEMMA PayloadOne ==
  ASSUME NEW s \in ShelfSettings, NEW w \in Shelves(s)!Payload, Shelves(s)!Cardinality(w.flags) <= 1
  PROVE  w \in Writes(s) /\ w # Shelves(s)!Keep
  <1>1. w \in [urls : SUBSET Urls(s), flags : SUBSET Urls(s)] /\ w.flags \subseteq w.urls
    BY DEF Shelves!Payload, Urls
  <1>2. IsFiniteSet(w.flags) /\ Cardinality(w.flags) <= 1
    BY <1>1, ShelfTyped, ShelfCounts, FS_Subset
  <1>3. Cardinality(w.flags) \in Nat
    BY <1>2, FS_CardinalityType
  <1>4. \A u, v \in w.flags : u = v
    <2>1. CASE Cardinality(w.flags) = 0
      BY <1>2, <2>1, FS_EmptySet
    <2>2. CASE Cardinality(w.flags) = 1
      BY <1>2, <2>2, FS_Singleton
    <2> QED BY <1>2, <1>3, <2>1, <2>2
  <1>5. w # Shelves(s)!Keep
    BY <1>1 DEF Shelves!Keep
  <1> QED BY <1>1, <1>4, <1>5 DEF Writes

LEMMA FlaggedOne ==
  ASSUME NEW s \in ShelfSettings, NEW w \in Writes(s), w # Shelves(s)!Keep
  PROVE  /\ w.urls \subseteq Urls(s) /\ IsFiniteSet(w.urls) /\ Shelves(s)!Flagged(w) \subseteq w.urls
         /\ \A u, v \in Shelves(s)!Flagged(w) : u = v
         /\ w.urls # {} => \E u \in w.urls : u \in Shelves(s)!Flagged(w)
  <1>1. w \in [urls : SUBSET Urls(s), flags : SUBSET Urls(s)] /\ w.flags \subseteq w.urls /\ \A u, v \in w.flags : u = v
    BY DEF Writes
  <1>2. IsFiniteSet(w.urls)
    BY <1>1, ShelfTyped, FS_Subset
  <1>3. CASE w.flags = {} /\ w.urls # {}
    <2>1. Shelves(s)!Flagged(w) = {CHOOSE u \in w.urls : TRUE}
      BY <1>3 DEF Shelves!Flagged
    <2>2. (CHOOSE u \in w.urls : TRUE) \in w.urls
      BY <1>3
    <2> QED BY <1>1, <1>2, <2>1, <2>2
  <1>4. CASE ~(w.flags = {} /\ w.urls # {})
    <2>1. Shelves(s)!Flagged(w) = w.flags
      BY <1>4 DEF Shelves!Flagged
    <2> QED BY <1>1, <1>2, <1>4, <2>1
  <1> QED BY <1>3, <1>4

Operations == {"idle", "update", "delete", "lines", "import", "late"}
ShelfAnswers == {None, "ok", "SkuTaken", "InUse", "Error"}
Tree(s) == [IF s = "images" THEN {} ELSE Categories -> (IF s = "images" THEN {} ELSE Categories) \cup {None}]
Linked(s) == \A d \in Boards(s), p \in Products : <<d, p>> \in line => sku[p] \in Skus

(* What a step owes to the invariant: the tables it leaves, a smooth move     *)
(* under the other requests, and the record of its own.                       *)
LEMMA EditKeeps ==
  ASSUME NEW s \in ShelfSettings, NEW r \in Requests, CatalogInv(s), Smooth,
         sku' \in [Products -> Skus \cup {None, Gone}], image' \subseteq Rows(s), nextImage' \in Nat \ {0},
         nextImage' <= Most(s) + 1, \A i \in image' : i.id < nextImage',
         Pictures', OneSku', line' \subseteq Boards(s) \X Products, Linked(s)',
         parent' \in Tree(s), answer' \in ShelfAnswers,
         NEW job, edits' = [edits EXCEPT ![r] = job], job.op \in Operations, JobInv(s, r)'
  PROVE  CatalogInv(s)'
  <1>1. /\ edits = [x \in Requests |-> edits[x]] /\ nextImage \in Nat
        /\ \A x \in Requests : JobInv(s, x) /\ edits[x].op \in Operations
    BY CatalogTyped DEF CatalogInv, Shelves!TypeOK, Operations
  <1>2. edits' = [x \in Requests |-> edits'[x]] /\ edits'[r] = job
    BY <1>1
  <1>3. \A x \in Requests : x # r => edits'[x] = edits[x]
    BY <1>1
  <1>4. \A x \in Requests : JobInv(s, x)'
    BY <1>1, <1>3, JobStays
  <1>5. \A x \in Requests : edits'[x].op \in Operations
    BY <1>1, <1>2, <1>3
  <1>6. nextImage' \in 1..(Most(s) + 1)
    BY ShelfTyped
  <1>7. Shelves(s)!TypeOK'
    BY <1>5, <1>6 DEF Shelves!TypeOK, Rows, Most, Urls, Boards, Tree, Operations, ShelfAnswers
  <1> QED BY <1>2, <1>4, <1>7 DEF CatalogInv, Linked

LEMMA RequestsTyped ==
  ASSUME NEW s \in ShelfSettings, CatalogInv(s)
  PROVE  parent \in Tree(s) /\ Linked(s) /\ answer \in ShelfAnswers /\ \A x \in Requests : edits[x].op \in Operations
  BY DEF CatalogInv, Shelves!TypeOK, Tree, Linked, ShelfAnswers, Operations

(* A step that writes no table owes only its request's record.                *)
LEMMA Untouched ==
  ASSUME NEW s \in ShelfSettings, NEW r \in Requests, CatalogInv(s), UNCHANGED <<sku, image, nextImage, line>>,
         parent' \in Tree(s), answer' \in ShelfAnswers,
         NEW job, edits' = [edits EXCEPT ![r] = job], job.op \in Operations, JobInv(s, r)'
  PROVE  CatalogInv(s)'
  <1>1. Smooth
    BY CatalogTyped DEF Smooth
  <1>2. Pictures' /\ OneSku' /\ Linked(s)'
    BY CatalogTyped, RequestsTyped DEF Pictures, OneSku, Linked
  <1> QED BY <1>1, <1>2, CatalogTyped, EditKeeps

LEMMA IdleJob ==
  ASSUME NEW s \in ShelfSettings, NEW r \in Requests, edits'[r] = Shelves(s)!Idle
  PROVE  JobInv(s, r)'
  BY DEF JobInv, Shelves!Idle

LEMMA EndIs ==
  ASSUME NEW s \in ShelfSettings, NEW r \in Requests, CatalogInv(s), NEW how \in ShelfAnswers, Shelves(s)!End(r, how)
  PROVE  /\ edits' = [edits EXCEPT ![r] = Shelves(s)!Idle] /\ Shelves(s)!Idle.op \in Operations
         /\ JobInv(s, r)' /\ answer' \in ShelfAnswers
  <1>1. edits' = [edits EXCEPT ![r] = Shelves(s)!Idle] /\ answer' = how
    BY DEF Shelves!End
  <1>2. edits'[r] = Shelves(s)!Idle
    BY <1>1, CatalogTyped
  <1>3. Shelves(s)!Idle.op \in Operations
    BY DEF Shelves!Idle, Operations
  <1> QED BY <1>1, <1>2, <1>3, IdleJob

(* A request that ends and leaves the tables alone.                           *)
LEMMA TurnedDown ==
  ASSUME NEW s \in ShelfSettings, NEW r \in Requests, CatalogInv(s), NEW how \in ShelfAnswers, Shelves(s)!End(r, how),
         UNCHANGED <<sku, image, nextImage, line, parent>>
  PROVE  CatalogInv(s)'
  BY EndIs, Untouched, RequestsTyped

(* A request that begins with what it has read.                               *)
LEMMA Begun ==
  ASSUME NEW s \in ShelfSettings, NEW r \in Requests, CatalogInv(s), NEW job, Shelves(s)!Begin(r, job),
         UNCHANGED <<sku, image, nextImage, line, parent>>, job.op \in Operations,
         edits'[r] = job => JobInv(s, r)'
  PROVE  CatalogInv(s)'
  <1>1. edits' = [edits EXCEPT ![r] = job] /\ answer' \in ShelfAnswers
    BY DEF Shelves!Begin, ShelfAnswers
  <1>2. edits'[r] = job
    BY <1>1, CatalogTyped
  <1> QED BY <1>1, <1>2, Untouched, RequestsTyped

LEMMA CatalogStart ==
  ASSUME NEW s \in ShelfSettings, Shelves(s)!Init
  PROVE  CatalogInv(s)
  <1>1. /\ sku = [p \in Products |-> None] /\ image = {} /\ nextImage = 1 /\ line = {}
        /\ edits = [x \in Requests |-> Shelves(s)!Idle] /\ answer = None /\ parent \in Tree(s)
    BY DEF Shelves!Init, Tree
  <1>2. Pictures /\ OneSku
    BY <1>1, ShelfTyped DEF Pictures, OneSku
  <1>3. \A x \in Requests : JobInv(s, x) /\ edits[x].op \in Operations
    BY <1>1 DEF JobInv, Shelves!Idle, Operations
  <1>4. 1 \in 1..(Most(s) + 1)
    BY ShelfTyped
  <1>5. Shelves(s)!TypeOK
    BY <1>1, <1>3, <1>4 DEF Shelves!TypeOK, Most, Tree, Operations
  <1> QED BY <1>1, <1>2, <1>3, <1>5 DEF CatalogInv

LEMMA BeginUpdate ==
  ASSUME NEW s \in ShelfSettings, NEW r \in Requests, CatalogInv(s), Shelves(s)!StartUpdate(r)
  PROVE  CatalogInv(s)'
  <1>1. PICK p \in Products, k \in Skus, w \in Shelves(s)!Payload \cup {Shelves(s)!Keep} :
          /\ sku[p] \in Skus /\ (Shelves(s)!Cardinality(w.flags) <= 1 \/ w = Shelves(s)!Keep)
          /\ Shelves(s)!Begin(r, [op |-> "update", on |-> p, sku |-> k, rename |-> k # sku[p], write |-> w,
                                  seen |-> Shelves(s)!ImagesOf(p)])
          /\ UNCHANGED <<sku, image, nextImage, line, parent>>
    BY DEF Shelves!StartUpdate, Shelves!Live
  <1> DEFINE job == [op |-> "update", on |-> p, sku |-> k, rename |-> k # sku[p], write |-> w,
                     seen |-> Shelves(s)!ImagesOf(p)]
  <1>2. /\ job.op = "update" /\ job.on = p /\ job.sku = k /\ job.rename \in BOOLEAN /\ job.write = w
        /\ job.seen = {i \in image : i.of = p}
    BY DEF Shelves!ImagesOf
  <1>3. w \in Writes(s)
    BY <1>1, PayloadOne DEF Writes
  <1>4. Shelves(s)!Begin(r, job)
    BY <1>1
  <1> HIDE DEF job
  <1> SUFFICES ASSUME edits'[r] = job PROVE JobInv(s, r)'
    BY <1>2, <1>4, <1>1, Begun DEF Operations
  <1>5. /\ edits'[r].op = "update" /\ edits'[r].on = p /\ edits'[r].sku = k /\ edits'[r].rename \in BOOLEAN
        /\ edits'[r].write = w /\ edits'[r].seen = {i \in image : i.of = p}
    BY <1>2
  <1>6. image' = image /\ nextImage' = nextImage /\ sku' = sku
    BY <1>1
  <1>7. Recalled(s, edits[r].seen)'
    BY <1>5, <1>6, CatalogTyped DEF Recalled, Pictures
  <1>8. Overtaken(edits[r].seen, edits[r].on)'
    BY <1>5, <1>6 DEF Overtaken, Ids
  <1>9. (edits[r].write \in Writes(s))'
    BY <1>3, <1>5 DEF Writes, Shelves!Keep
  <1>10. UpdateInv(s, r)'
    BY <1>1, <1>5, <1>6, <1>7, <1>8, <1>9, ShelfTyped DEF UpdateInv
  <1> QED BY <1>5, <1>10 DEF JobInv

LEMMA BeginDelete ==
  ASSUME NEW s \in ShelfSettings, NEW r \in Requests, CatalogInv(s), Shelves(s)!StartDelete(r)
  PROVE  CatalogInv(s)'
  <1>1. PICK p \in Products :
          /\ \/ Shelves(s)!End(r, "InUse")
             \/ Shelves(s)!Begin(r, [op |-> "delete", on |-> p])
          /\ UNCHANGED <<sku, image, nextImage, line, parent>>
    BY DEF Shelves!StartDelete, Shelves!Live
  <1>2. CASE Shelves(s)!End(r, "InUse")
    BY <1>1, <1>2, TurnedDown DEF ShelfAnswers
  <1>3. CASE Shelves(s)!Begin(r, [op |-> "delete", on |-> p])
    <2> DEFINE job == [op |-> "delete", on |-> p]
    <2>1. job.op = "delete" /\ job.on = p /\ Shelves(s)!Begin(r, job)
      BY <1>3
    <2> HIDE DEF job
    <2>2. edits'[r] = job => JobInv(s, r)'
      BY <2>1 DEF JobInv
    <2> QED BY <1>1, <2>1, <2>2, Begun DEF Operations
  <1> QED BY <1>1, <1>2, <1>3

LEMMA BeginLines ==
  ASSUME NEW s \in ShelfSettings, NEW r \in Requests, CatalogInv(s), Shelves(s)!StartLines(r)
  PROVE  CatalogInv(s)'
  <1>1. PICK d \in Boards(s), ps \in SUBSET Shelves(s)!Live :
          /\ Shelves(s)!Begin(r, [op |-> "lines", on |-> d, seen |-> Shelves(s)!LinesOf(d), write |-> ps])
          /\ UNCHANGED <<sku, image, nextImage, line, parent>>
    BY DEF Shelves!StartLines, Boards
  <1> DEFINE job == [op |-> "lines", on |-> d, seen |-> Shelves(s)!LinesOf(d), write |-> ps]
  <1>2. job.op = "lines" /\ job.on = d /\ job.write = ps /\ Shelves(s)!Begin(r, job)
    BY <1>1
  <1>3. ps \subseteq Products
    BY DEF Shelves!Live
  <1> HIDE DEF job
  <1>4. edits'[r] = job => JobInv(s, r)'
    BY <1>2, <1>3 DEF JobInv
  <1> QED BY <1>1, <1>2, <1>4, Begun DEF Operations

LEMMA BeginImport ==
  ASSUME NEW s \in ShelfSettings, NEW r \in Requests, CatalogInv(s), Shelves(s)!StartImport(r)
  PROVE  CatalogInv(s)'
  <1> DEFINE job == [op |-> "import", todo |-> IF s = "images" THEN CatalogueSkus ELSE {}, create |-> {}, illustrate |-> {}]
  <1>1. Shelves(s)!Begin(r, job) /\ UNCHANGED <<sku, image, nextImage, line, parent>>
    BY DEF Shelves!StartImport
  <1>2. job.op = "import" /\ job.todo \subseteq Skus /\ job.create = {} /\ job.illustrate = {}
    BY ShelfTyped
  <1> HIDE DEF job
  <1>3. edits'[r] = job => JobInv(s, r)'
    BY <1>2 DEF JobInv
  <1> QED BY <1>1, <1>2, <1>3, Begun DEF Operations

LEMMA LookKeeps ==
  ASSUME NEW s \in ShelfSettings, NEW r \in Requests, CatalogInv(s), edits[r].op = "import", Shelves(s)!Look(r)
  PROVE  CatalogInv(s)'
  <1>1. PICK k \in edits[r].todo :
          /\ edits' = [edits EXCEPT ![r].todo = @ \ {k},
                 ![r].create = IF Shelves(s)!Missing(k) THEN @ \cup {k} ELSE @,
                 ![r].illustrate = @ \cup Shelves(s)!Bare(k)]
          /\ answer' = None /\ UNCHANGED <<sku, image, nextImage, line, parent>>
    BY DEF Shelves!Look
  <1> DEFINE c == IF Shelves(s)!Missing(k) THEN edits[r].create \cup {k} ELSE edits[r].create
             b == edits[r].illustrate \cup Shelves(s)!Bare(k)
             job == [edits[r] EXCEPT !.todo = @ \ {k}, !.create = c, !.illustrate = b]
  <1>2. edits' = [edits EXCEPT ![r] = job]
    BY <1>1, CatalogTyped
  <1>3. /\ edits[r].todo \subseteq Skus /\ edits[r].create \subseteq Skus /\ edits[r].illustrate \subseteq Products
        /\ edits'[r] = job
    BY <1>2, CatalogTyped DEF JobInv
  <1>4. Shelves(s)!Bare(k) \subseteq Products
    BY DEF Shelves!Bare, Shelves!Holder, Shelves!Live
  <1>5. c \subseteq Skus /\ b \subseteq Products
    BY <1>3, <1>4
  <1>6. /\ job.op = "import"
        /\ job.todo = edits[r].todo \/ job.todo = edits[r].todo \ {k}
        /\ job.create = edits[r].create \/ job.create = c
        /\ job.illustrate = edits[r].illustrate \/ job.illustrate = b
    OBVIOUS
  <1> HIDE DEF job, c, b
  <1>7. JobInv(s, r)'
    <2>1. edits'[r].op = "import" /\ edits'[r].todo \subseteq Skus /\ edits'[r].create \subseteq Skus /\ edits'[r].illustrate \subseteq Products
      BY <1>3, <1>5, <1>6
    <2> QED BY <2>1 DEF JobInv
  <1> QED BY <1>1, <1>2, <1>6, <1>7, Untouched, RequestsTyped DEF Operations, ShelfAnswers

LEMMA MoveKeeps ==
  ASSUME NEW s \in ShelfSettings, NEW r \in Requests, CatalogInv(s), Shelves(s)!MoveCategory(r)
  PROVE  CatalogInv(s)'
  <1>1. parent' \in Tree(s) /\ answer' \in ShelfAnswers /\ UNCHANGED <<sku, image, nextImage, line, edits>>
    BY RequestsTyped DEF Shelves!MoveCategory, Tree, ShelfAnswers
  <1>2. edits' = [edits EXCEPT ![r] = edits[r]] /\ edits[r].op \in Operations /\ edits'[r] = edits[r]
    BY <1>1, CatalogTyped, RequestsTyped
  <1>3. JobInv(s, r)'
    <2>1. Smooth
      BY <1>1, CatalogTyped DEF Smooth
    <2> QED BY <1>1, <1>2, <2>1, CatalogTyped, JobStays
  <1> QED BY <1>1, <1>2, <1>3, Untouched

LEMMA StopKeeps ==
  ASSUME NEW s \in ShelfSettings, NEW r \in Requests, CatalogInv(s), Shelves(s)!Stop(r)
  PROVE  CatalogInv(s)'
  BY TurnedDown DEF Shelves!Stop, ShelfAnswers

(* A product with a line stays: the foreign key restricts its deletion.       *)
LEMMA DeleteKeeps ==
  ASSUME NEW s \in ShelfSettings, NEW r \in Requests, CatalogInv(s), Shelves(s)!CommitDelete(r)
  PROVE  CatalogInv(s)'
  <1> DEFINE p == edits[r].on
  <1>1. p \in Products /\ UNCHANGED <<nextImage, line, parent>>
    BY CatalogTyped DEF Shelves!CommitDelete, JobInv
  <1>2. CASE Shelves(s)!Restricted(p)
    BY <1>1, <1>2, TurnedDown DEF Shelves!CommitDelete, ShelfAnswers
  <1>3. CASE ~Shelves(s)!Restricted(p)
    <2>1. sku' = [sku EXCEPT ![p] = Gone] /\ image' = {i \in image : i.of # p} /\ Shelves(s)!End(r, "ok")
      BY <1>3 DEF Shelves!CommitDelete, Shelves!ImagesOf
    <2>2. \A d \in Boards(s) : <<d, p>> \notin line
      BY <1>1, <1>3 DEF Shelves!Restricted, Shelves!LinesOf, Boards
    <2> HIDE DEF p
    <2>3. /\ sku' \in [Products -> Skus \cup {None, Gone}] /\ sku'[p] = Gone
          /\ \A q \in Products : q # p => sku'[q] = sku[q]
      BY <1>1, <2>1, CatalogTyped
    <2>4. \A i \in image' : i \in image /\ i.of \in Products /\ i.of # p /\ sku'[i.of] = sku[i.of]
      BY <2>1, <2>3, CatalogTyped DEF Rows
    <2>5. Pictures'
      <3>1. \A i \in image' : sku'[i.of] \in Skus
        BY <2>4, CatalogTyped DEF Pictures
      <3>2. \A i \in image' : \E j \in image' : j.of = i.of /\ j.primary
        BY <2>1, <2>4, CatalogTyped DEF Pictures
      <3> QED BY <2>4, <3>1, <3>2, CatalogTyped DEF Pictures
    <2>6. OneSku'
      BY <1>1, <2>3, CatalogTyped, ShelfTyped DEF OneSku
    <2>7. Linked(s)'
      BY <1>1, <2>2, <2>3, CatalogTyped DEF Linked
    <2>8. Smooth
      BY <1>1, <2>3, <2>4, CatalogTyped, ShelfTyped DEF Smooth
    <2>9. /\ edits' = [edits EXCEPT ![r] = Shelves(s)!Idle] /\ Shelves(s)!Idle.op \in Operations
          /\ JobInv(s, r)' /\ answer' \in ShelfAnswers
      BY <2>1, EndIs DEF ShelfAnswers
    <2>10. parent' \in Tree(s) /\ line' \subseteq Boards(s) \X Products /\ nextImage' \in Nat \ {0}
           /\ nextImage' <= Most(s) + 1 /\ image' \subseteq Rows(s) /\ \A i \in image' : i.id < nextImage'
      BY <1>1, <2>4, CatalogTyped, RequestsTyped
    <2> QED BY <2>3, <2>5, <2>6, <2>7, <2>8, <2>9, <2>10, EditKeeps
  <1> QED BY <1>2, <1>3

LEMMA LinesKeep ==
  ASSUME NEW s \in ShelfSettings, NEW r \in Requests, CatalogInv(s), Shelves(s)!CommitLines(r)
  PROVE  CatalogInv(s)'
  <1> DEFINE q == edits[r]
             kept == Shelves(s)!LinesOf(q.on) \ q.seen
  <1>1. /\ q.on \in Boards(s) /\ q.write \subseteq Products /\ UNCHANGED <<sku, image, nextImage, parent>>
        /\ kept \subseteq {p \in Products : <<q.on, p>> \in line}
    BY CatalogTyped DEF Shelves!CommitLines, JobInv, Shelves!LinesOf
  <1>2. CASE q.write \subseteq Shelves(s)!Live /\ q.write \cap kept = {}
    <2>1. line' = {l \in line : l[1] # q.on} \cup ({q.on} \X (kept \cup q.write)) /\ Shelves(s)!End(r, "ok")
      BY <1>2 DEF Shelves!CommitLines
    <2>2. \A p \in q.write : p \in Products /\ sku[p] \in Skus
      BY <1>2 DEF Shelves!Live
    <2> HIDE DEF q, kept
    <2>3. line' \subseteq Boards(s) \X Products
      BY <1>1, <2>1, CatalogTyped
    <2>4. Linked(s)'
      <3> SUFFICES ASSUME NEW d \in Boards(s), NEW p \in Products, <<d, p>> \in line' PROVE sku[p] \in Skus
        BY <1>1 DEF Linked
      <3>1. <<d, p>> \in line \/ (d = q.on /\ (p \in kept \/ p \in q.write))
        BY <2>1
      <3> QED BY <1>1, <2>2, <3>1, CatalogTyped
    <2>5. Smooth /\ Pictures' /\ OneSku'
      BY <1>1, CatalogTyped DEF Smooth, Pictures, OneSku
    <2>6. /\ edits' = [edits EXCEPT ![r] = Shelves(s)!Idle] /\ Shelves(s)!Idle.op \in Operations
          /\ JobInv(s, r)' /\ answer' \in ShelfAnswers
      BY <2>1, EndIs DEF ShelfAnswers
    <2> QED BY <1>1, <2>3, <2>4, <2>5, <2>6, EditKeeps, CatalogTyped, RequestsTyped
  <1>3. CASE ~(q.write \subseteq Shelves(s)!Live /\ q.write \cap kept = {})
    <2>1. Shelves(s)!End(r, "Error") /\ line' = line
      BY <1>3 DEF Shelves!CommitLines
    <2> QED BY <1>1, <2>1, TurnedDown DEF ShelfAnswers
  <1> QED BY <1>2, <1>3

LEMMA NewImagesCount ==
  ASSUME NEW s \in ShelfSettings, NEW p, NEW U, IsFiniteSet(U), NEW P
  PROVE  /\ Shelves(s)!Cardinality(Shelves(s)!NewImages(p, U, P)) = Cardinality(U)
         /\ Shelves(s)!Cardinality(U) = Cardinality(U)
  <1> DEFINE R(u) == [id |-> Numbering(s, U)[u], of |-> p, url |-> u, primary |-> u \in P]
             N == {R(u) : u \in U}
             g == [u \in U |-> R(u)]
  <1>1. Shelves(s)!NewImages(p, U, P) = N
    <2>1. Shelves(s)!NewImages(p, U, P) =
            {[id |-> Numbering(s, U)[u], of |-> p, url |-> u, primary |-> u \in P] : u \in U}
      BY DEF Shelves!NewImages, Numbering
    <2> QED BY <2>1
  <1>2. \A u \in U : R(u).url = u
    OBVIOUS
  <1>3. g \in Bijection(U, N)
    BY <1>2 DEF Bijection, Injection, Surjection, IsInjective
  <1>4. Cardinality(N) = Cardinality(U)
    <2> HIDE DEF g, N
    <2> QED BY <1>3, FS_Bijection DEF ExistsBijection
  <1>5. Shelves(s)!Cardinality(N) = Cardinality(N) /\ Shelves(s)!Cardinality(U) = Cardinality(U)
    BY ShelfCounts
  <1> HIDE DEF N
  <1> QED BY <1>1, <1>4, <1>5

(* One product's images are replaced by a list of links, or a list is added.  *)
LEMMA Replaced ==
  ASSUME NEW s \in ShelfSettings, CatalogInv(s), NEW p \in Products, NEW w \in Writes(s), w # Shelves(s)!Keep,
         Shelves(s)!Room(Cardinality(w.urls)),
         NEW old \in SUBSET image, \A i \in image : i.of # p => i \in old,
         w.urls = {} => \A i \in old : i.of = p => \E j \in old : j.of = p /\ j.primary,
         NEW N, N = Shelves(s)!NewImages(p, w.urls, Shelves(s)!Flagged(w)),
         image' = old \cup N, nextImage' = nextImage + Cardinality(w.urls),
         \A i, j \in image' : i.primary /\ j.primary /\ i.of = j.of => i = j,
         \A i \in image' : sku'[i.of] \in Skus, \A q \in Products : sku[q] # None => sku'[q] # None
  PROVE  /\ image' \subseteq Rows(s) /\ nextImage' \in Nat \ {0} /\ nextImage' <= Most(s) + 1
         /\ \A i \in image' : i.id < nextImage'
         /\ Pictures' /\ Smooth
  <1> DEFINE n == Cardinality(w.urls)
  <1>1. /\ image \subseteq Rows(s) /\ nextImage \in Nat \ {0} /\ \A i \in image : i.id < nextImage /\ i.id \in Nat
        /\ Pictures /\ Most(s) \in Nat
    BY CatalogTyped, ShelfTyped DEF Rows
  <1>2. /\ w.urls \in SUBSET (Urls(s) \cup {ScriptUrl}) /\ IsFiniteSet(w.urls) /\ ScriptUrl \notin w.urls
        /\ w.urls # {} => \E u \in w.urls : u \in Shelves(s)!Flagged(w)
    BY FlaggedOne, ShelfTyped
  <1>3. /\ N \subseteq Rows(s) /\ n \in Nat
        /\ \A i \in N : /\ i.of = p /\ i.url \in w.urls /\ (i.primary <=> i.url \in Shelves(s)!Flagged(w))
                        /\ nextImage <= i.id /\ i.id < nextImage + n
        /\ \A i, j \in N : i.id = j.id \/ i.url = j.url => i = j
        /\ \A u \in w.urls : \E i \in N : i.url = u
    <2>1. LET M == Shelves(s)!NewImages(p, w.urls, Shelves(s)!Flagged(w)) IN
          /\ M \subseteq Rows(s) /\ n \in Nat
          /\ \A i \in M : /\ i.of = p /\ i.url \in w.urls /\ (i.primary <=> i.url \in Shelves(s)!Flagged(w))
                          /\ nextImage <= i.id /\ i.id < nextImage + n
          /\ \A i, j \in M : i.id = j.id \/ i.url = j.url => i = j
          /\ \A u \in w.urls : \E i \in M : i.url = u
      BY <1>1, <1>2, NewImagesAre
    <2> QED BY <2>1
  <1>4. nextImage + n <= Most(s) + 1
    BY DEF Shelves!Room, Most
  <1> HIDE DEF n
  <1>5. nextImage' = nextImage + n
    BY DEF n
  <1>6. \A i \in N : i.id \in Nat
    BY <1>3 DEF Rows
  <1>7. /\ image' \subseteq Rows(s) /\ nextImage' \in Nat \ {0} /\ nextImage' <= Most(s) + 1 /\ nextImage <= nextImage'
        /\ \A i \in image' : i.id < nextImage'
    BY <1>1, <1>3, <1>4, <1>5, <1>6
  <1>8. \A i, j \in image' : i.id = j.id => i = j
    BY <1>1, <1>3, <1>6 DEF Pictures
  <1>9. \A i \in image' : i.url = ScriptUrl => i.primary
    BY <1>1, <1>2, <1>3 DEF Pictures
  <1>10. w.urls # {} => \E k \in N : k.of = p /\ k.primary
    BY <1>2, <1>3
  <1>11. \A i \in image' : \E j \in image' : j.of = i.of /\ j.primary
    <2> TAKE i \in image'
    <2>1. CASE i.of # p
      BY <1>1, <1>3, <2>1 DEF Pictures
    <2>2. CASE i.of = p /\ w.urls # {}
      BY <1>10, <2>2
    <2>3. CASE i.of = p /\ w.urls = {}
      <3>1. i \in old
        BY <1>3, <2>3
      <3> QED BY <2>3, <3>1
    <2> QED BY <2>1, <2>2, <2>3
  <1>12. Pictures'
    BY <1>8, <1>9, <1>11 DEF Pictures
  <1>13. Smooth
    <2>1. \A i \in image' : i.id < nextImage => \E j \in image : j.id = i.id /\ j.of = i.of /\ j.url = i.url
      BY <1>1, <1>3, <1>6
    <2>2. \A q \in Products : \/ \A i \in image' : i.of = q => i \in image
                              \/ \A i \in image' : i.of = q /\ i.primary => nextImage <= i.id
      <3> TAKE q \in Products
      <3>1. CASE q # p \/ w.urls = {}
        BY <1>3, <3>1
      <3>2. CASE q = p /\ w.urls # {}
        <4>1. PICK k \in N : k.of = p /\ k.primary
          BY <1>10, <3>2
        <4> QED BY <1>3, <3>2, <4>1
      <3> QED BY <3>1, <3>2
    <2> QED BY <1>7, <2>1, <2>2 DEF Smooth
  <1> QED BY <1>7, <1>12, <1>13

LEMMA CreateKeeps ==
  ASSUME NEW s \in ShelfSettings, NEW r \in Requests, CatalogInv(s), Shelves(s)!Create(r)
  PROVE  CatalogInv(s)'
  <1>1. PICK p \in Products, k \in Skus, w \in Shelves(s)!Payload :
          /\ edits[r] = Shelves(s)!Idle /\ UNCHANGED <<line, parent>>
          /\ sku[p] = None /\ Shelves(s)!Cardinality(w.flags) <= 1
          /\ Shelves(s)!Room(Shelves(s)!Cardinality(w.urls))
          /\ IF Shelves(s)!Holder(k) # {}
             THEN Shelves(s)!End(r, "SkuTaken") /\ UNCHANGED <<sku, image, nextImage>>
             ELSE /\ sku' = [sku EXCEPT ![p] = k]
                  /\ image' = image \cup Shelves(s)!NewImages(p, w.urls, Shelves(s)!Flagged(w))
                  /\ nextImage' = nextImage + Shelves(s)!Cardinality(w.urls)
                  /\ Shelves(s)!End(r, "ok")
    BY DEF Shelves!Create
  <1>2. CASE Shelves(s)!Holder(k) # {}
    BY <1>1, <1>2, TurnedDown DEF ShelfAnswers
  <1>3. CASE Shelves(s)!Holder(k) = {}
    <2> DEFINE N == Shelves(s)!NewImages(p, w.urls, Shelves(s)!Flagged(w))
    <2>1. /\ sku' = [sku EXCEPT ![p] = k] /\ image' = image \cup N
          /\ nextImage' = nextImage + Shelves(s)!Cardinality(w.urls) /\ Shelves(s)!End(r, "ok")
      BY <1>1, <1>3
    <2>2. w \in Writes(s) /\ w # Shelves(s)!Keep
      BY <1>1, PayloadOne
    <2>3. /\ w.urls \subseteq Urls(s) /\ IsFiniteSet(w.urls) /\ \A u, v \in Shelves(s)!Flagged(w) : u = v
          /\ Shelves(s)!Cardinality(w.urls) = Cardinality(w.urls)
      BY <2>2, FlaggedOne, ShelfCounts
    <2>4. Shelves(s)!Room(Cardinality(w.urls)) /\ nextImage' = nextImage + Cardinality(w.urls)
      BY <1>1, <2>1, <2>3
    <2>5. \A i \in N : i.of = p /\ (i.primary <=> i.url \in Shelves(s)!Flagged(w))
      BY <2>3, <2>4, NewImagesAre, CatalogTyped
    <2>6. \A i, j \in N : i.url = j.url => i = j
      BY <2>3, <2>4, NewImagesAre, CatalogTyped
    <2> HIDE DEF N
    <2>7. \A i \in image : i.of \in Products /\ i.of # p /\ sku[i.of] \in Skus
      BY <1>1, CatalogTyped, ShelfTyped DEF Pictures, Rows
    <2>8. /\ sku' \in [Products -> Skus \cup {None, Gone}] /\ sku'[p] = k
          /\ \A q \in Products : q # p => sku'[q] = sku[q]
      BY <2>1, CatalogTyped
    <2>9. \A i, j \in image' : i.primary /\ j.primary /\ i.of = j.of => i = j
      BY <2>1, <2>3, <2>5, <2>6, <2>7, CatalogTyped DEF Pictures
    <2>10. \A i \in image' : sku'[i.of] \in Skus
      BY <2>1, <2>5, <2>7, <2>8
    <2>11. \A q \in Products : sku[q] # None => sku'[q] # None
      BY <1>1, <2>8
    <2>12. /\ image' \subseteq Rows(s) /\ nextImage' \in Nat \ {0} /\ nextImage' <= Most(s) + 1
           /\ \A i \in image' : i.id < nextImage'
           /\ Pictures' /\ Smooth
      <3>1. w.urls = {} => \A i \in image : i.of = p => \E j \in image : j.of = p /\ j.primary
        BY <2>7
      <3> QED BY <2>1, <2>2, <2>4, <2>9, <2>10, <2>11, <3>1, Replaced DEF N
    <2>13. OneSku'
      <3>1. \A q \in Products : sku[q] # k
        BY <1>3 DEF Shelves!Holder, Shelves!Live
      <3> QED BY <2>8, <3>1, CatalogTyped DEF OneSku
    <2>14. Linked(s)' /\ line' \subseteq Boards(s) \X Products /\ parent' \in Tree(s)
      BY <1>1, <2>8, CatalogTyped, RequestsTyped, ShelfTyped DEF Linked
    <2>15. /\ edits' = [edits EXCEPT ![r] = Shelves(s)!Idle] /\ Shelves(s)!Idle.op \in Operations
           /\ JobInv(s, r)' /\ answer' \in ShelfAnswers
      BY <2>1, EndIs DEF ShelfAnswers
    <2> QED BY <2>8, <2>12, <2>13, <2>14, <2>15, EditKeeps
  <1> QED BY <1>2, <1>3

LEMMA UpdateKeeps ==
  ASSUME NEW s \in ShelfSettings, NEW r \in Requests, CatalogInv(s), Shelves(s)!CommitUpdate(r)
  PROVE  CatalogInv(s)'
  <1> DEFINE q == edits[r]
             p == q.on
             w == q.write
             N == Shelves(s)!NewImages(p, w.urls, Shelves(s)!Flagged(w))
             drop == IF w = Shelves(s)!Keep THEN {} ELSE Ids(q.seen)
             new == IF w = Shelves(s)!Keep THEN {} ELSE N
             old == {i \in image : i.id \notin drop}
  <1>1. /\ p \in Products /\ sku[p] # None /\ q.sku \in Skus /\ q.rename \in BOOLEAN /\ w \in Writes(s)
        /\ Recalled(s, q.seen) /\ (\A j \in q.seen : j.of = p) /\ Overtaken(q.seen, p)
    BY CatalogTyped DEF Shelves!CommitUpdate, JobInv, UpdateInv
  <1>2. /\ UNCHANGED <<line, parent>> /\ Shelves(s)!Room(Shelves(s)!Cardinality(new))
        /\ \/ /\ p \in Shelves(s)!Live /\ (q.rename => Shelves(s)!Holder(q.sku) \subseteq {p})
              /\ Shelves(s)!IndexHolds(old \cup new)
              /\ sku' = IF q.rename THEN [sku EXCEPT ![p] = q.sku] ELSE sku
              /\ image' = old \cup new /\ nextImage' = nextImage + Shelves(s)!Cardinality(new)
              /\ Shelves(s)!End(r, "ok")
           \/ Shelves(s)!End(r, "SkuTaken") /\ UNCHANGED <<sku, image, nextImage>>
           \/ Shelves(s)!End(r, "Error") /\ UNCHANGED <<sku, image, nextImage>>
    BY DEF Shelves!CommitUpdate, Ids
  <1>3. CASE Shelves(s)!End(r, "SkuTaken") /\ UNCHANGED <<sku, image, nextImage>>
    BY <1>2, <1>3, TurnedDown DEF ShelfAnswers
  <1>4. CASE Shelves(s)!End(r, "Error") /\ UNCHANGED <<sku, image, nextImage>>
    BY <1>2, <1>4, TurnedDown DEF ShelfAnswers
  <1>5. CASE /\ p \in Shelves(s)!Live /\ (q.rename => Shelves(s)!Holder(q.sku) \subseteq {p})
             /\ Shelves(s)!IndexHolds(old \cup new)
             /\ sku' = IF q.rename THEN [sku EXCEPT ![p] = q.sku] ELSE sku
             /\ image' = old \cup new /\ nextImage' = nextImage + Shelves(s)!Cardinality(new)
             /\ Shelves(s)!End(r, "ok")
    <2>1. sku[p] \in Skus /\ (\A i, j \in image' : i.primary /\ j.primary /\ i.of = j.of => i = j)
      BY <1>5 DEF Shelves!Live, Shelves!IndexHolds
    <2>2. /\ sku' \in [Products -> Skus \cup {None, Gone}] /\ sku'[p] \in Skus
          /\ \A x \in Products : x # p => sku'[x] = sku[x]
          /\ sku'[p] = sku[p] \/ (sku'[p] = q.sku /\ q.rename)
      BY <1>1, <1>5, <2>1, CatalogTyped
    <2>3. \A x \in Products : sku[x] # None => sku'[x] # None
      BY <2>2, ShelfTyped
    <2>4. OneSku'
      <3>1. q.rename => \A x \in Products : x # p => sku[x] # q.sku
        BY <1>1, <1>5 DEF Shelves!Holder, Shelves!Live
      <3> QED BY <2>2, <3>1, CatalogTyped DEF OneSku
    <2>5. Linked(s)' /\ line' \subseteq Boards(s) \X Products /\ parent' \in Tree(s)
      BY <1>2, <2>2, CatalogTyped, RequestsTyped DEF Linked
    <2>6. /\ edits' = [edits EXCEPT ![r] = Shelves(s)!Idle] /\ Shelves(s)!Idle.op \in Operations
          /\ JobInv(s, r)' /\ answer' \in ShelfAnswers
      BY <1>5, EndIs DEF ShelfAnswers
    <2>7. /\ image' \subseteq Rows(s) /\ nextImage' \in Nat \ {0} /\ nextImage' <= Most(s) + 1
          /\ \A i \in image' : i.id < nextImage'
          /\ Pictures' /\ Smooth
      <3>1. CASE w = Shelves(s)!Keep
        <4>1. image' = image /\ new = {}
          BY <1>5, <3>1
        <4>2. Shelves(s)!Cardinality(new) = 0
          BY <4>1, ShelfCounts, FS_EmptySet
        <4>3. nextImage' = nextImage
          BY <1>5, <4>2, CatalogTyped
        <4>4. Pictures'
          BY <2>2, <4>1, CatalogTyped DEF Pictures, Rows
        <4> QED BY <2>3, <4>1, <4>3, <4>4, CatalogTyped DEF Smooth
      <3>2. CASE w # Shelves(s)!Keep
        <4>1. new = N /\ drop = Ids(q.seen)
          BY <3>2
        <4>2. w.urls \subseteq Urls(s) /\ IsFiniteSet(w.urls)
          BY <1>1, <3>2, FlaggedOne
        <4>3. Shelves(s)!Cardinality(new) = Cardinality(w.urls)
          BY <4>1, <4>2, NewImagesCount
        <4>4. Shelves(s)!Room(Cardinality(w.urls)) /\ nextImage' = nextImage + Cardinality(w.urls)
          BY <1>2, <1>5, <4>3
        <4>5. \A i \in N : i.of = p
          BY <1>1, <4>2, <4>4, NewImagesAre, CatalogTyped
        <4>6. image' = old \cup N /\ old \in SUBSET image
          BY <1>5, <4>1
        <4>7. \A i \in old : i \in image /\ i.id \notin Ids(q.seen)
          BY <4>1
        <4>8. \A i \in image : i.id \notin Ids(q.seen) => i \in old
          BY <4>1
        <4> HIDE DEF q, p, w, N, drop, new, old
        <4>9. \A i \in image : i.of # p => i \in old
          BY <1>1, <4>8 DEF Recalled, Ids
        <4>10. \A i \in old : i.of = p => \E j \in old : j.of = p /\ j.primary
          BY <1>1, <4>7, <4>8, CatalogTyped DEF Overtaken, Pictures
        <4>11. \A i \in image' : sku'[i.of] \in Skus
          <5>1. \A i \in image : i.of \in Products /\ sku[i.of] \in Skus
            BY CatalogTyped DEF Pictures, Rows
          <5> QED BY <2>2, <4>5, <4>6, <5>1
        <4>12. N = Shelves(s)!NewImages(p, w.urls, Shelves(s)!Flagged(w))
          BY DEF N
        <4> QED BY <1>1, <2>1, <2>3, <3>2, <4>4, <4>6, <4>9, <4>10, <4>11, <4>12, Replaced
      <3> QED BY <3>1, <3>2
    <2> QED BY <2>2, <2>4, <2>5, <2>6, <2>7, EditKeeps
  <1> QED BY <1>2, <1>3, <1>4, <1>5

(* What a successful import has written: products the catalog missed, and a   *)
(* picture, the primary image, for each of these and for those without one.   *)
Imported(s, r, Fresh) ==
  /\ Fresh \subseteq Products
  /\ sku' \in [Products -> Skus \cup {None, Gone}]
  /\ \A p \in Products : sku[p] # None => sku'[p] = sku[p]
  /\ \A p \in Products : sku'[p] # sku[p] => p \in Fresh /\ sku'[p] \in Skus /\ \A x \in Products : sku[x] # sku'[p]
  /\ \A p \in Fresh : sku'[p] \in Skus
  /\ \A p, x \in Products : sku'[p] # sku[p] /\ sku'[x] # sku[x] /\ sku'[p] = sku'[x] => p = x
  /\ nextImage + Cardinality(Fresh) <= Most(s) + 1 /\ nextImage' = nextImage + Cardinality(Fresh)
  /\ image' = image \cup {[id |-> Numbering(s, Fresh)[p], of |-> p, url |-> ScriptUrl, primary |-> TRUE] : p \in Fresh}
  /\ \A i, j \in image' : i.primary /\ j.primary /\ i.of = j.of => i = j
  /\ Shelves(s)!End(r, "ok")

LEMMA ImportIs ==
  ASSUME NEW s \in ShelfSettings, NEW r \in Requests, CatalogInv(s), edits[r].op = "import", Shelves(s)!CommitImport(r)
  PROVE  /\ UNCHANGED <<line, parent>>
         /\ \/ \E Fresh \in SUBSET Products : Imported(s, r, Fresh)
            \/ Shelves(s)!End(r, "Error") /\ UNCHANGED <<sku, image, nextImage>>
  <1> DEFINE q == edits[r]
             Fresh == {p \in Products : sku'[p] # sku[p]} \cup q.illustrate
             rows == image \cup {[id |-> Numbering(s, Fresh)[p], of |-> p, url |-> ScriptUrl, primary |-> TRUE] : p \in Fresh}
             Written(at) == [p \in Products |-> IF \E k \in q.create : at[k] = p THEN CHOOSE k \in q.create : at[k] = p ELSE sku[p]]
  <1>1. q.create \subseteq Skus /\ q.illustrate \subseteq Products
    BY CatalogTyped DEF JobInv
  <1>2. /\ UNCHANGED <<line, parent>>
        /\ \/ /\ \A k \in q.create : Shelves(s)!Missing(k)
              /\ q.illustrate \subseteq Shelves(s)!Live
              /\ \E at \in [q.create -> {p \in Products : sku[p] = None}] :
                   /\ \A k, x \in q.create : at[k] = at[x] => k = x
                   /\ sku' = Written(at)
              /\ Shelves(s)!Room(Shelves(s)!Cardinality(Fresh)) /\ Shelves(s)!IndexHolds(rows)
              /\ image' = rows /\ nextImage' = nextImage + Shelves(s)!Cardinality(Fresh)
              /\ Shelves(s)!End(r, "ok")
           \/ Shelves(s)!End(r, "Error") /\ UNCHANGED <<sku, image, nextImage>>
    BY DEF Shelves!CommitImport, Numbering
  <1>3. ASSUME \A k \in q.create : Shelves(s)!Missing(k), q.illustrate \subseteq Shelves(s)!Live,
               NEW at \in [q.create -> {p \in Products : sku[p] = None}],
               \A k, x \in q.create : at[k] = at[x] => k = x, sku' = Written(at),
               Shelves(s)!Room(Shelves(s)!Cardinality(Fresh)), Shelves(s)!IndexHolds(rows),
               image' = rows, nextImage' = nextImage + Shelves(s)!Cardinality(Fresh),
               Shelves(s)!End(r, "ok")
        PROVE  Imported(s, r, Fresh)
    <2>1. \A k \in q.create : k \in Skus /\ at[k] \in Products /\ sku[at[k]] = None
      BY <1>1
    <2>2. \A k \in q.create, x \in Products : sku[x] # k
      BY <1>1, <1>3 DEF Shelves!Missing, Shelves!Holder, Shelves!Live
    <2>3. \A p \in Products : /\ sku'[p] = sku[p] \/ (\E k \in q.create : at[k] = p /\ sku'[p] = k)
                              /\ (\E k \in q.create : at[k] = p) => sku'[p] \in q.create /\ at[sku'[p]] = p
                              /\ sku[p] # None => sku'[p] = sku[p]
      <3> TAKE p \in Products
      <3>1. CASE \E k \in q.create : at[k] = p
        <4>1. sku'[p] = CHOOSE k \in q.create : at[k] = p
          BY <1>3, <3>1
        <4>2. (CHOOSE k \in q.create : at[k] = p) \in q.create /\ at[CHOOSE k \in q.create : at[k] = p] = p
          BY <3>1
        <4> QED BY <2>1, <4>1, <4>2
      <3>2. CASE ~ \E k \in q.create : at[k] = p
        BY <1>3, <3>2
      <3> QED BY <3>1, <3>2
    <2>4. sku' \in [Products -> Skus \cup {None, Gone}]
      <3>1. sku' = [p \in Products |-> sku'[p]]
        BY <1>3
      <3>2. \A p \in Products : sku'[p] \in Skus \cup {None, Gone}
        BY <2>1, <2>3, CatalogTyped
      <3> QED BY <3>1, <3>2
    <2>5. \A p \in Products : sku'[p] # sku[p] => p \in Fresh /\ sku'[p] \in Skus /\ \A x \in Products : sku[x] # sku'[p]
      BY <2>1, <2>2, <2>3
    <2>6. \A p \in Fresh : p \in Products /\ sku'[p] \in Skus
      <3>1. \A p \in q.illustrate : p \in Products /\ sku[p] \in Skus
        BY <1>3 DEF Shelves!Live
      <3> QED BY <2>3, <2>5, <3>1, ShelfTyped
    <2>7. \A p, x \in Products : sku'[p] # sku[p] /\ sku'[x] # sku[x] /\ sku'[p] = sku'[x] => p = x
      BY <2>3
    <2>8. Shelves(s)!Cardinality(Fresh) = Cardinality(Fresh)
      BY ShelfCounts
    <2>9. nextImage + Cardinality(Fresh) <= Most(s) + 1 /\ nextImage' = nextImage + Cardinality(Fresh)
      BY <1>3, <2>8 DEF Shelves!Room, Most
    <2>10. \A i, j \in image' : i.primary /\ j.primary /\ i.of = j.of => i = j
      BY <1>3 DEF Shelves!IndexHolds
    <2> HIDE DEF Fresh, q
    <2> QED BY <1>3, <2>3, <2>4, <2>5, <2>6, <2>7, <2>9, <2>10 DEF Imported
  <1>4. Fresh \in SUBSET Products
    BY <1>1
  <1> HIDE DEF q, Fresh
  <1> QED BY <1>2, <1>3, <1>4

LEMMA ImportedKeeps ==
  ASSUME NEW s \in ShelfSettings, NEW r \in Requests, CatalogInv(s), NEW Fresh \in SUBSET Products, Imported(s, r, Fresh),
         UNCHANGED <<line, parent>>
  PROVE  /\ CatalogInv(s)'
         /\ \A p \in Products : sku[p] \in Skus => sku'[p] = sku[p]
         /\ \A i \in image : {j \in image' : j.of = i.of} = {j \in image : j.of = i.of}
  <1> DEFINE n == Cardinality(Fresh)
             f == Numbering(s, Fresh)
             R(p) == [id |-> f[p], of |-> p, url |-> ScriptUrl, primary |-> TRUE]
             N == {R(p) : p \in Fresh}
  <1>1. /\ image \subseteq Rows(s) /\ nextImage \in Nat \ {0} /\ Pictures /\ Most(s) \in Nat
        /\ \A i \in image : i.id < nextImage /\ i.id \in Nat /\ i.of \in Products /\ sku[i.of] \in Skus
    BY CatalogTyped, ShelfTyped DEF Rows, Pictures
  <1>2. IsFiniteSet(Fresh) /\ n \in Nat
    BY ShelfTyped, FS_Subset, FS_CardinalityType
  <1>3. /\ \A p \in Fresh : f[p] \in Nat /\ nextImage <= f[p] /\ f[p] < nextImage + n
        /\ \A p, x \in Fresh : f[p] = f[x] => p = x
    BY <1>1, <1>2, NumberingIs
  <1>4. nextImage + n <= Most(s) + 1 /\ nextImage' = nextImage + n /\ image' = image \cup N
    BY DEF Imported
  <1> HIDE DEF n, f
  <1>5. \A p \in Fresh : R(p).id = f[p] /\ R(p).of = p /\ R(p).url = ScriptUrl /\ R(p).primary /\ R(p) \in Rows(s) /\ R(p) \in N
    <2> TAKE p \in Fresh
    <2>1. f[p] \in 1..Most(s) /\ p \in Products /\ ScriptUrl \in Urls(s) \cup {ScriptUrl}
      BY <1>1, <1>2, <1>3, <1>4
    <2> QED BY <2>1 DEF Rows
  <1>6. \A i \in N : \E p \in Fresh : i = R(p)
    OBVIOUS
  <1> HIDE DEF N, R
  <1>7. /\ N \subseteq Rows(s)
        /\ \A i \in N : /\ i.of \in Fresh /\ i.url = ScriptUrl /\ i.primary /\ i.id \in Nat
                        /\ nextImage <= i.id /\ i.id < nextImage + n
        /\ \A i, j \in N : i.id = j.id => i = j
        /\ \A p \in Fresh : \E i \in N : i.of = p
    BY <1>3, <1>5, <1>6
  <1>8. /\ image' \subseteq Rows(s) /\ nextImage' \in Nat \ {0} /\ nextImage' <= Most(s) + 1 /\ nextImage <= nextImage'
        /\ \A i \in image' : i.id < nextImage'
    BY <1>1, <1>2, <1>4, <1>7
  <1>9. /\ \A i, j \in image' : i.primary /\ j.primary /\ i.of = j.of => i = j
        /\ sku' \in [Products -> Skus \cup {None, Gone}]
        /\ \A p \in Products : sku[p] # None => sku'[p] = sku[p]
        /\ \A p \in Fresh : sku'[p] \in Skus
    BY DEF Imported
  <1>10. Pictures'
    <2>1. \A i \in image' : sku'[i.of] \in Skus
      BY <1>1, <1>4, <1>7, <1>9, ShelfTyped
    <2>2. \A i, j \in image' : i.id = j.id => i = j
      BY <1>1, <1>4, <1>7 DEF Pictures
    <2>3. \A i \in image' : i.url = ScriptUrl => i.primary
      BY <1>1, <1>4, <1>7 DEF Pictures
    <2>4. \A i \in image' : \E j \in image' : j.of = i.of /\ j.primary
      BY <1>1, <1>4, <1>7 DEF Pictures
    <2> QED BY <1>9, <2>1, <2>2, <2>3, <2>4 DEF Pictures
  <1>11. OneSku'
    <2> SUFFICES ASSUME NEW p \in Products, NEW x \in Products, sku'[p] \in Skus, sku'[p] = sku'[x] PROVE p = x
      BY DEF OneSku
    <2>1. CASE sku'[p] # sku[p] /\ sku'[x] # sku[x]
      BY <2>1 DEF Imported
    <2>2. CASE sku'[p] # sku[p] /\ sku'[x] = sku[x]
      BY <2>2 DEF Imported
    <2>3. CASE sku'[p] = sku[p] /\ sku'[x] # sku[x]
      BY <2>3 DEF Imported
    <2>4. CASE sku'[p] = sku[p] /\ sku'[x] = sku[x]
      BY <2>4, CatalogTyped DEF OneSku
    <2> QED BY <2>1, <2>2, <2>3, <2>4
  <1>12. Smooth
    <2>1. \A i \in image' : i.id < nextImage => \E j \in image : j.id = i.id /\ j.of = i.of /\ j.url = i.url
      BY <1>1, <1>4, <1>7
    <2>2. \A p \in Products : \/ \A i \in image' : i.of = p => i \in image
                              \/ \A i \in image' : i.of = p /\ i.primary => nextImage <= i.id
      BY <1>4, <1>7, <1>9
    <2> QED BY <1>8, <1>9, <2>1, <2>2, ShelfTyped DEF Smooth
  <1>13. Linked(s)' /\ line' \subseteq Boards(s) \X Products /\ parent' \in Tree(s)
    BY <1>9, CatalogTyped, RequestsTyped, ShelfTyped DEF Linked
  <1>14. /\ edits' = [edits EXCEPT ![r] = Shelves(s)!Idle] /\ Shelves(s)!Idle.op \in Operations
         /\ JobInv(s, r)' /\ answer' \in ShelfAnswers
    BY EndIs DEF ShelfAnswers, Imported
  <1>15. CatalogInv(s)'
    BY <1>8, <1>9, <1>10, <1>11, <1>12, <1>13, <1>14, EditKeeps
  <1>16. \A i \in image : {j \in image' : j.of = i.of} = {j \in image : j.of = i.of}
    <2> TAKE i \in image
    <2>1. PICK k \in image : k.of = i.of /\ k.primary
      BY <1>1 DEF Pictures
    <2>2. \A j \in N : j.of # i.of
      BY <1>1, <1>4, <1>7, <1>9, <2>1
    <2> QED BY <1>4, <2>2
  <1> QED BY <1>9, <1>15, <1>16, ShelfTyped

LEMMA ImportKeeps ==
  ASSUME NEW s \in ShelfSettings, NEW r \in Requests, CatalogInv(s), edits[r].op = "import", Shelves(s)!CommitImport(r)
  PROVE  /\ CatalogInv(s)'
         /\ \A p \in Products : sku[p] \in Skus => sku'[p] = sku[p]
         /\ \A i \in image : {j \in image' : j.of = i.of} = {j \in image : j.of = i.of}
         /\ \A x \in Requests : x # r => edits'[x] = edits[x]
  <1>1. /\ UNCHANGED <<line, parent>>
        /\ \/ \E Fresh \in SUBSET Products : Imported(s, r, Fresh)
           \/ Shelves(s)!End(r, "Error") /\ UNCHANGED <<sku, image, nextImage>>
    BY ImportIs
  <1>2. \A x \in Requests : x # r => edits'[x] = edits[x]
    <2>1. edits' = [edits EXCEPT ![r] = Shelves(s)!Idle]
      BY <1>1 DEF Imported, Shelves!End
    <2> QED BY <2>1, CatalogTyped
  <1>3. ASSUME NEW Fresh \in SUBSET Products, Imported(s, r, Fresh)
        PROVE  /\ CatalogInv(s)'
               /\ \A p \in Products : sku[p] \in Skus => sku'[p] = sku[p]
               /\ \A i \in image : {j \in image' : j.of = i.of} = {j \in image : j.of = i.of}
    BY <1>1, <1>3, ImportedKeeps
  <1>4. CASE Shelves(s)!End(r, "Error") /\ UNCHANGED <<sku, image, nextImage>>
    <2>1. CatalogInv(s)'
      BY <1>1, <1>4, TurnedDown DEF ShelfAnswers
    <2>2. image' = image /\ sku' = sku
      BY <1>4
    <2>3. \A i \in image : {j \in image' : j.of = i.of} = {j \in image : j.of = i.of}
      BY <2>2
    <2>4. \A p \in Products : sku[p] \in Skus => sku'[p] = sku[p]
      BY <2>2
    <2> QED BY <1>2, <2>1, <2>3, <2>4
  <1> QED BY <1>1, <1>2, <1>3, <1>4

LEMMA BeginLate ==
  ASSUME NEW s \in ShelfSettings, NEW r \in Requests, CatalogInv(s), Shelves(s)!StartLate(r)
  PROVE  CatalogInv(s)'
  <1> DEFINE job == [op |-> "late", on |-> {p \in Shelves(s)!Live : sku[p] \in LateOnes(s)},
                     seen |-> {i \in image : sku[i.of] \in LateOnes(s)}]
  <1>1. Shelves(s)!Begin(r, job) /\ UNCHANGED <<sku, image, nextImage, line, parent>>
    BY DEF Shelves!StartLate, LateOnes
  <1>2. /\ job.op = "late" /\ job.on = {p \in Products : sku[p] \in Skus /\ sku[p] \in LateOnes(s)}
        /\ job.seen = {i \in image : sku[i.of] \in LateOnes(s)}
    BY DEF Shelves!Live
  <1> HIDE DEF job
  <1> SUFFICES ASSUME edits'[r] = job PROVE JobInv(s, r)'
    BY <1>1, <1>2, Begun DEF Operations
  <1>3. image' = image /\ nextImage' = nextImage /\ sku' = sku
    BY <1>1
  <1>4. /\ edits'[r].op = "late" /\ edits'[r].on = {p \in Products : sku[p] \in Skus /\ sku[p] \in LateOnes(s)}
        /\ edits'[r].seen = {i \in image : sku[i.of] \in LateOnes(s)}
    BY <1>2
  <1>5. \A p, x \in edits'[r].on : p = x
    BY <1>4, CatalogTyped, ShelfTyped DEF OneSku
  <1>6. \A p \in edits'[r].on : p \in Products /\ sku'[p] # None
    BY <1>3, <1>4, ShelfTyped
  <1>7. Recalled(s, edits[r].seen)'
    BY <1>3, <1>4, CatalogTyped DEF Recalled, Pictures
  <1>8. \A j \in edits'[r].seen : j \in image /\ j.of \in edits'[r].on
    BY <1>4, CatalogTyped DEF Pictures, Rows
  <1>9. \A j \in edits'[r].seen : /\ j.url = ScriptUrl => j.primary
                                  /\ \E i \in edits'[r].seen : i.of = j.of /\ i.primary
    BY <1>4, CatalogTyped DEF Pictures
  <1>10. \A i, j \in edits'[r].seen : i.id = j.id \/ (i.primary /\ j.primary) => i = j
    BY <1>5, <1>8, CatalogTyped DEF Pictures
  <1>11. \A p \in edits'[r].on : Overtaken(edits[r].seen, p)'
    BY <1>3, <1>4 DEF Overtaken, Ids
  <1>12. LateInv(s, r)'
    BY <1>5, <1>6, <1>7, <1>8, <1>9, <1>10, <1>11 DEF LateInv, Overtaken
  <1> QED BY <1>4, <1>12 DEF JobInv

(* The picture is there already: then it is the primary image of its product, *)
(* and so is the row it was read from.                                        *)
LEMMA LateRewrites ==
  ASSUME NEW s \in ShelfSettings, CatalogInv(s), NEW p \in Products, NEW seen, Recalled(s, seen),
         \A i, j \in seen : i.primary /\ j.primary => i = j,
         NEW f \in seen, f.of = p, f.url = ScriptUrl, f.primary, f.id \in Ids(image), \A j \in seen : j.of = p
  PROVE  \A i \in image : i.id \in Ids(seen) => [i EXCEPT !.primary = (f.id = i.id)] = i
  <1>1. PICK k \in image : k.id = f.id
    BY DEF Ids
  <1>2. k.of = p /\ k.url = ScriptUrl /\ k.primary
    BY <1>1, CatalogTyped DEF Recalled, Pictures
  <1> TAKE i \in image
  <1> HAVE i.id \in Ids(seen)
  <1>3. i.of = p
    BY DEF Recalled, Ids
  <1>4. i \in Rows(s) /\ i.primary \in BOOLEAN
    BY CatalogTyped DEF Rows
  <1>5. CASE f.id = i.id
    <2>1. i = k /\ i.primary = TRUE
      BY <1>1, <1>2, <1>4, <1>5, CatalogTyped DEF Pictures
    <2> QED BY <1>4, <1>5, <2>1 DEF Rows
  <1>6. CASE f.id # i.id
    <2>1. i # k
      BY <1>1, <1>6
    <2>2. i.primary = FALSE
      BY <1>2, <1>3, <1>4, <2>1, CatalogTyped DEF Pictures
    <2> QED BY <1>4, <1>6, <2>2 DEF Rows
  <1> QED BY <1>5, <1>6

(* The picture as a new row.                                                  *)
LEMMA PictureIs ==
  ASSUME NEW s \in ShelfSettings, nextImage \in Nat \ {0}, NEW p \in Products, Shelves(s)!Room(1)
  PROVE  LET N == Shelves(s)!NewImages(p, {ScriptUrl}, {ScriptUrl}) IN
         /\ N \subseteq Rows(s) /\ N # {} /\ (\A i, j \in N : i = j)
         /\ \A i \in N : i.of = p /\ i.url = ScriptUrl /\ i.primary /\ nextImage <= i.id /\ i.id < nextImage + 1
  <1> DEFINE U == {ScriptUrl}
             M == Shelves(s)!NewImages(p, U, U)
  <1>1. U \in SUBSET (Urls(s) \cup {ScriptUrl}) /\ IsFiniteSet(U) /\ Cardinality(U) = 1
    BY FS_Singleton
  <1>2. \A u : u \in U <=> u = ScriptUrl
    OBVIOUS
  <1> SUFFICES /\ M \subseteq Rows(s) /\ M # {} /\ (\A i, j \in M : i = j)
               /\ \A i \in M : i.of = p /\ i.url = ScriptUrl /\ i.primary /\ nextImage <= i.id /\ i.id < nextImage + 1
    OBVIOUS
  <1> HIDE DEF U
  <1>3. Shelves(s)!Room(Cardinality(U))
    BY <1>1
  <1>4. /\ M \subseteq Rows(s)
        /\ \A i \in M : /\ i.of = p /\ i.url \in U /\ (i.primary <=> i.url \in U)
                        /\ nextImage <= i.id /\ i.id < nextImage + Cardinality(U)
        /\ \A i, j \in M : i.id = j.id \/ i.url = j.url => i = j
        /\ \A u \in U : \E i \in M : i.url = u
    BY <1>1, <1>3, NewImagesAre
  <1> HIDE DEF M
  <1>5. M # {} /\ \A i, j \in M : i = j
    BY <1>2, <1>4
  <1> QED BY <1>1, <1>2, <1>4, <1>5

Dim(i) == [i EXCEPT !.primary = FALSE]

LEMMA DimIs ==
  ASSUME NEW s \in ShelfSettings, NEW i \in Rows(s)
  PROVE  Dim(i).id = i.id /\ Dim(i).of = i.of /\ Dim(i).url = i.url /\ ~Dim(i).primary /\ Dim(i) \in Rows(s)
  BY DEF Rows, Dim

(* The picture is not there: it comes as the primary image, and those that    *)
(* were read stop being primary.                                              *)
LateParts(s, p, seen, N, kept, dimmed) ==
  /\ sku[p] \in Skus /\ Recalled(s, seen) /\ \A j \in seen : j.of = p /\ j.url # ScriptUrl
  /\ N \subseteq Rows(s) /\ N # {} /\ (\A i, j \in N : i = j) /\ nextImage + 1 <= Most(s) + 1
  /\ \A i \in N : i.of = p /\ i.url = ScriptUrl /\ i.primary /\ nextImage <= i.id /\ i.id < nextImage + 1
  /\ kept \subseteq image /\ \A i \in image : i \in kept <=> i.id \notin Ids(seen)
  /\ \A d \in dimmed : \E i \in image : i.id \in Ids(seen) /\ d = Dim(i)
  /\ image' = kept \cup N \cup dimmed /\ nextImage' = nextImage + 1 /\ sku' = sku
  /\ \A i, j \in image' : i.primary /\ j.primary /\ i.of = j.of => i = j

LEMMA LateAdds ==
  ASSUME NEW s \in ShelfSettings, CatalogInv(s), NEW p \in Products, NEW seen, NEW N, NEW kept, NEW dimmed,
         LateParts(s, p, seen, N, kept, dimmed)
  PROVE  /\ image' \subseteq Rows(s) /\ nextImage' \in Nat \ {0} /\ nextImage' <= Most(s) + 1
         /\ \A i \in image' : i.id < nextImage'
         /\ Pictures' /\ Smooth
  <1> USE DEF LateParts
  <1>1. /\ image \subseteq Rows(s) /\ nextImage \in Nat \ {0} /\ \A i \in image : i.id < nextImage /\ i.id \in Nat
        /\ Pictures /\ Most(s) \in Nat
    BY CatalogTyped, ShelfTyped DEF Rows
  <1>2. \A i \in N : i.id \in Nat
    BY DEF Rows
  <1>3. \A i \in image : Dim(i).id = i.id /\ Dim(i).of = i.of /\ Dim(i).url = i.url /\ ~Dim(i).primary /\ Dim(i) \in Rows(s)
    BY <1>1, DimIs
  <1>4. \A i \in image : i.id \in Ids(seen) => i.of = p /\ i.url # ScriptUrl
    BY DEF Recalled, Ids
  <1>5. \A d \in dimmed : /\ d \in Rows(s) /\ d.of = p /\ d.url # ScriptUrl /\ ~d.primary /\ d.id < nextImage /\ d.id \in Nat
                           /\ d.id \in Ids(seen) /\ \E i \in image : i.id = d.id /\ d = Dim(i)
    BY <1>1, <1>3, <1>4
  <1>6. /\ image' \subseteq Rows(s) /\ nextImage' \in Nat \ {0} /\ nextImage' <= Most(s) + 1 /\ nextImage <= nextImage'
         /\ \A i \in image' : i.id < nextImage'
    BY <1>1, <1>2, <1>5
  <1>7. Pictures'
    <2>1. \A i \in image' : sku'[i.of] \in Skus
      BY <1>1, <1>2, <1>5 DEF Pictures
    <2>2. \A i, j \in image' : i.id = j.id => i = j
      <3>1. \A i, j \in dimmed : i.id = j.id => i = j
        BY <1>1, <1>5 DEF Pictures
      <3>2. \A i, j \in kept : i.id = j.id => i = j
        BY <1>1 DEF Pictures
      <3> QED BY <1>1, <1>2, <1>5, <3>1, <3>2
    <2>3. \A i \in image' : i.url = ScriptUrl => i.primary
      BY <1>1, <1>2, <1>5 DEF Pictures
    <2>4. \A i \in image' : \E j \in image' : j.of = i.of /\ j.primary
      <3> TAKE i \in image'
      <3>1. CASE i.of = p
        BY <1>2, <3>1
      <3>2. CASE i.of # p
        BY <1>1, <1>2, <1>4, <1>5, <3>2 DEF Pictures
      <3> QED BY <3>1, <3>2
    <2> QED BY <2>1, <2>2, <2>3, <2>4 DEF Pictures
  <1>8. Smooth
    <2>1. \A i \in image' : i.id < nextImage => \E j \in image : j.id = i.id /\ j.of = i.of /\ j.url = i.url
      BY <1>1, <1>2, <1>3, <1>5
    <2>2. \A x \in Products : \/ \A i \in image' : i.of = x => i \in image
                              \/ \A i \in image' : i.of = x /\ i.primary => nextImage <= i.id
      BY <1>2, <1>5
    <2> QED BY <1>6, <2>1, <2>2 DEF Smooth
  <1> QED BY <1>6, <1>7, <1>8

(* A script that attaches pictures ends with nothing changed, or with the     *)
(* missing picture as the primary image.                                      *)
LEMMA LateKeeps ==
  ASSUME NEW s \in ShelfSettings, NEW r \in Requests, CatalogInv(s), Shelves(s)!CommitLate(r)
  PROVE  CatalogInv(s)'
  <1> DEFINE q == edits[r]
             seen == q.seen
             add == {p \in q.on : Shelves(s)!Matched(seen, p) = {}}
             new == UNION {Shelves(s)!NewImages(p, {ScriptUrl}, {ScriptUrl}) : p \in add}
             first == {CHOOSE i \in Shelves(s)!Matched(seen, p) : TRUE : p \in q.on \ add}
             changed == {i \in seen : i.primary \/ i \in first}
             kept == {i \in image : i.id \notin Ids(seen)}
             W(i) == [i EXCEPT !.primary = \E f \in first : f.id = i.id]
             written == {W(i) : i \in {j \in image : j.id \in Ids(seen)}}
  <1>1. /\ q.on \subseteq Products /\ (\A p, x \in q.on : p = x) /\ Recalled(s, seen)
        /\ \A j \in seen : /\ j.of \in q.on
                           /\ j.url = ScriptUrl => j.primary
                           /\ \E i \in seen : i.of = j.of /\ i.primary
        /\ \A i, j \in seen : i.id = j.id \/ (i.primary /\ j.primary) => i = j
    BY CatalogTyped DEF Shelves!CommitLate, JobInv, LateInv
  <1>2. /\ UNCHANGED <<sku, line, parent>> /\ Shelves(s)!Room(Shelves(s)!Cardinality(add))
        /\ \/ /\ q.on \subseteq Shelves(s)!Live /\ Ids(changed) \subseteq Ids(image)
              /\ Shelves(s)!IndexHolds(kept \cup new \cup written)
              /\ image' = kept \cup new \cup written /\ nextImage' = nextImage + Shelves(s)!Cardinality(add)
              /\ Shelves(s)!End(r, "ok")
           \/ Shelves(s)!End(r, "Error") /\ UNCHANGED <<image, nextImage>>
    BY DEF Shelves!CommitLate, Ids
  <1>3. CASE Shelves(s)!End(r, "Error") /\ UNCHANGED <<image, nextImage>>
    BY <1>2, <1>3, TurnedDown DEF ShelfAnswers
  <1>4. ASSUME q.on \subseteq Shelves(s)!Live, Ids(changed) \subseteq Ids(image),
               Shelves(s)!IndexHolds(kept \cup new \cup written),
               image' = kept \cup new \cup written, nextImage' = nextImage + Shelves(s)!Cardinality(add),
               Shelves(s)!End(r, "ok")
        PROVE  CatalogInv(s)'
    <2>1. /\ edits' = [edits EXCEPT ![r] = Shelves(s)!Idle] /\ Shelves(s)!Idle.op \in Operations
          /\ JobInv(s, r)' /\ answer' \in ShelfAnswers
      BY <1>4, EndIs DEF ShelfAnswers
    <2>2. /\ sku' = sku /\ line' = line /\ parent' = parent /\ parent' \in Tree(s) /\ nextImage \in Nat \ {0}
      BY <1>2, RequestsTyped, CatalogTyped
    <2>3. ASSUME nextImage' = nextImage, image' = image PROVE CatalogInv(s)'
      <3>1. UNCHANGED <<sku, image, nextImage, line>>
        BY <2>2, <2>3
      <3> HIDE DEF q, seen, add, new, first, changed, kept, written, W
      <3> QED BY <2>1, <2>2, <3>1, Untouched
    <2>4. CASE q.on = {}
      <3>1. seen = {} /\ add = {}
        BY <1>1, <2>4
      <3>2. new = {} /\ Ids(seen) = {}
        BY <3>1 DEF Ids
      <3>3. kept = image /\ written = {}
        BY <3>2
      <3>4. image' = image
        BY <1>4, <3>2, <3>3
      <3>5. Shelves(s)!Cardinality(add) = 0
        BY <3>1, ShelfCounts, FS_EmptySet
      <3>6. nextImage' = nextImage
        BY <1>4, <2>2, <3>5
      <3> QED BY <2>3, <3>4, <3>6
    <2>5. ASSUME NEW p \in q.on, add = {} PROVE CatalogInv(s)'
      <3>1. q.on = {p} /\ Shelves(s)!Matched(seen, p) # {} /\ new = {}
        BY <1>1, <2>5
      <3> DEFINE f == CHOOSE i \in Shelves(s)!Matched(seen, p) : TRUE
      <3>2. f \in Shelves(s)!Matched(seen, p)
        BY <3>1
      <3>3. f \in seen /\ f.of = p /\ f.url = ScriptUrl /\ f.primary
        BY <1>1, <3>2 DEF Shelves!Matched
      <3>4. first = {f}
        BY <2>5, <3>1
      <3>5. f.id \in Ids(image)
        BY <1>4, <3>3 DEF Ids
      <3>6. p \in Products /\ \A j \in seen : j.of = p
        BY <1>1, <2>5
      <3>7. \A i \in image : i.id \in Ids(seen) => [i EXCEPT !.primary = (f.id = i.id)] = i
        <4> HIDE DEF seen, f, q
        <4> QED BY <1>1, <3>3, <3>5, <3>6, LateRewrites
      <3>8. \A i : (\E x \in first : x.id = i.id) = (f.id = i.id)
        BY <3>4
      <3>9. \A i \in image : i.id \in Ids(seen) => W(i) = i
        BY <3>7, <3>8
      <3>10. kept \cup new \cup written = image
        <4> HIDE DEF new, first, seen, W
        <4> QED BY <3>1, <3>9
      <3>11. Shelves(s)!Cardinality(add) = 0
        BY <2>5, ShelfCounts, FS_EmptySet
      <3>12. nextImage' = nextImage
        <4> HIDE DEF add
        <4> QED BY <1>4, <2>2, <3>11
      <3>13. image' = image
        BY <1>4, <3>10
      <3> QED BY <2>3, <3>12, <3>13
    <2>6. ASSUME NEW p \in q.on, add # {} PROVE CatalogInv(s)'
      <3>1. q.on = {p} /\ Shelves(s)!Matched(seen, p) = {} /\ add = {p}
        BY <1>1, <2>6
      <3>2. first = {}
        BY <3>1
      <3> DEFINE N == Shelves(s)!NewImages(p, {ScriptUrl}, {ScriptUrl})
      <3>3. new = N
        BY <3>1
      <3>4. Shelves(s)!Cardinality(add) = 1
        <4>1. Shelves(s)!Cardinality({p}) = Cardinality({p}) /\ Cardinality({p}) = 1
          BY ShelfCounts, FS_Singleton
        <4> HIDE DEF add
        <4> QED BY <3>1, <4>1
      <3>5. Shelves(s)!Room(1) /\ nextImage' = nextImage + 1
        BY <1>2, <1>4, <3>4
      <3>6. p \in Products /\ sku[p] \in Skus /\ \A j \in seen : j.of = p
        BY <1>1, <1>4, <2>6, <3>1 DEF Shelves!Live
      <3>7. \A j \in seen : j.of = p /\ j.url # ScriptUrl
        BY <3>1, <3>6 DEF Shelves!Matched
      <3>8. \A i : (\E x \in first : x.id = i.id) = FALSE
        BY <3>2
      <3>9. \A i \in image : W(i) = Dim(i)
        BY <3>8 DEF Dim
      <3>10. \A d \in written : \E i \in image : i.id \in Ids(seen) /\ d = Dim(i)
        <4> HIDE DEF W
        <4> QED BY <3>9
      <3>11. kept \in SUBSET image /\ \A i \in image : i \in kept <=> i.id \notin Ids(seen)
        OBVIOUS
      <3>12. image' = kept \cup N \cup written
        BY <1>4, <3>3
      <3>13. \A i, j \in image' : i.primary /\ j.primary /\ i.of = j.of => i = j
        BY <1>4 DEF Shelves!IndexHolds
      <3> HIDE DEF kept, written, new, first, changed, add, W, seen, q
      <3>14. /\ N \subseteq Rows(s) /\ N # {} /\ (\A i, j \in N : i = j)
             /\ \A i \in N : i.of = p /\ i.url = ScriptUrl /\ i.primary /\ nextImage <= i.id /\ i.id < nextImage + 1
        BY <2>2, <3>5, <3>6, PictureIs
      <3>15. nextImage + 1 <= Most(s) + 1
        BY <3>5 DEF Shelves!Room, Most
      <3> HIDE DEF N
      <3>16. /\ image' \subseteq Rows(s) /\ nextImage' \in Nat \ {0} /\ nextImage' <= Most(s) + 1
             /\ \A i \in image' : i.id < nextImage'
             /\ Pictures' /\ Smooth
        <4>1. Recalled(s, seen) /\ sku' = sku /\ N \in SUBSET Rows(s) /\ nextImage' = nextImage + 1
          BY <1>1, <2>2, <3>5, <3>14
        <4>2. LateParts(s, p, seen, N, kept, written)
          BY <3>6, <3>7, <3>10, <3>11, <3>12, <3>13, <3>14, <3>15, <4>1 DEF LateParts
        <4> QED BY <3>6, <4>2, LateAdds
      <3>17. OneSku' /\ Linked(s)' /\ line' \subseteq Boards(s) \X Products /\ sku' \in [Products -> Skus \cup {None, Gone}]
        BY <2>2, CatalogTyped, RequestsTyped DEF OneSku, Linked
      <3> QED BY <2>1, <2>2, <3>16, <3>17, EditKeeps
    <2> QED BY <2>4, <2>5, <2>6
  <1> QED BY <1>2, <1>3, <1>4

LEMMA CatalogKept ==
  ASSUME NEW s \in ShelfSettings, CatalogInv(s), Shelves(s)!Next
  PROVE  CatalogInv(s)'
  <1>1. PICK r \in Requests :
          \/ Shelves(s)!Create(r) \/ Shelves(s)!StartUpdate(r) \/ Shelves(s)!StartDelete(r) \/ Shelves(s)!StartLines(r)
          \/ Shelves(s)!StartImport(r) \/ Shelves(s)!StartLate(r)
          \/ Shelves(s)!CommitUpdate(r) \/ Shelves(s)!CommitDelete(r) \/ Shelves(s)!CommitLines(r) \/ Shelves(s)!CommitLate(r)
          \/ edits[r].op = "import" /\ (Shelves(s)!Look(r) \/ Shelves(s)!CommitImport(r))
          \/ Shelves(s)!MoveCategory(r) \/ Shelves(s)!Stop(r)
    BY DEF Shelves!Next
  <1> QED BY <1>1, CreateKeeps, BeginUpdate, BeginDelete, BeginLines, BeginImport, BeginLate, UpdateKeeps, DeleteKeeps,
             LinesKeep, LateKeeps, LookKeeps, ImportKeeps, MoveKeeps, StopKeeps

LEMMA CatalogMeans ==
  ASSUME NEW s \in ShelfSettings, CatalogInv(s)
  PROVE  /\ Shelves(s)!TypeOK /\ Shelves(s)!OnePrimary /\ Shelves(s)!ScriptImageOnce
         /\ s = "lines" => Shelves(s)!LinesExist
  <1>1. Shelves(s)!TypeOK
    BY DEF CatalogInv
  <1>2. Shelves(s)!OnePrimary
    <2> SUFFICES ASSUME NEW p \in Products, NEW i \in image, i.of = p
                 PROVE  Shelves(s)!Cardinality({j \in Shelves(s)!ImagesOf(p) : j.primary}) = 1
      BY DEF Shelves!OnePrimary, Shelves!Live, Shelves!ImagesOf
    <2>1. PICK k \in image : k.of = p /\ k.primary
      BY CatalogTyped DEF Pictures
    <2>2. {j \in Shelves(s)!ImagesOf(p) : j.primary} = {k}
      BY <2>1, CatalogTyped DEF Pictures, Shelves!ImagesOf
    <2> QED BY <2>2, ShelfCounts, FS_Singleton
  <1>3. Shelves(s)!ScriptImageOnce
    BY CatalogTyped DEF Pictures, Shelves!ScriptImageOnce
  <1>4. Shelves(s)!LinesExist
    BY CatalogTyped DEF Shelves!LinesExist, Shelves!Live
  <1> QED BY <1>1, <1>2, <1>3, <1>4

(* An import keeps the products there are, and the images of those with some. *)
LEMMA ImportsKeepProducts ==
  ASSUME NEW s \in ShelfSettings, CatalogInv(s), Shelves(s)!Next
  PROVE  Shelves(s)!KeepsProducts
  <1> SUFFICES ASSUME NEW x \in Requests, edits[x].op = "import", edits'[x] = Shelves(s)!Idle,
                      NEW p \in Products, sku[p] \in Skus
               PROVE  sku'[p] = sku[p] /\ (Shelves(s)!ImagesOf(p) # {} => Shelves(s)!ImagesOf(p)' = Shelves(s)!ImagesOf(p))
    BY DEF Shelves!KeepsProducts, Shelves!Live
  <1>1. edits'[x] # edits[x] /\ DOMAIN edits = Requests
    BY CatalogTyped DEF Shelves!Idle
  <1>2. PICK r \in Requests :
          \/ Shelves(s)!Create(r) \/ Shelves(s)!StartUpdate(r) \/ Shelves(s)!StartDelete(r) \/ Shelves(s)!StartLines(r)
          \/ Shelves(s)!StartImport(r) \/ Shelves(s)!StartLate(r)
          \/ Shelves(s)!CommitUpdate(r) \/ Shelves(s)!CommitDelete(r) \/ Shelves(s)!CommitLines(r) \/ Shelves(s)!CommitLate(r)
          \/ edits[r].op = "import" /\ (Shelves(s)!Look(r) \/ Shelves(s)!CommitImport(r))
          \/ Shelves(s)!MoveCategory(r) \/ Shelves(s)!Stop(r)
    BY DEF Shelves!Next
  <1>3. CASE edits[r].op = "import" /\ Shelves(s)!CommitImport(r)
    <2>1. /\ sku'[p] = sku[p]
          /\ \A i \in image : {j \in image' : j.of = i.of} = {j \in image : j.of = i.of}
      BY <1>3, ImportKeeps
    <2> QED BY <2>1 DEF Shelves!ImagesOf
  <1>4. CASE UNCHANGED <<sku, image>>
    BY <1>4 DEF Shelves!ImagesOf
  <1>5. CASE Shelves(s)!Stop(r) \/ Shelves(s)!MoveCategory(r) \/ (edits[r].op = "import" /\ Shelves(s)!Look(r))
             \/ Shelves(s)!StartUpdate(r) \/ Shelves(s)!StartDelete(r) \/ Shelves(s)!StartLines(r)
             \/ Shelves(s)!StartImport(r) \/ Shelves(s)!StartLate(r) \/ Shelves(s)!CommitLines(r)
    <2>1. UNCHANGED <<sku, image>>
      BY <1>5 DEF Shelves!Stop, Shelves!MoveCategory, Shelves!Look, Shelves!StartUpdate, Shelves!StartDelete,
                  Shelves!StartLines, Shelves!StartImport, Shelves!StartLate, Shelves!CommitLines
    <2> QED BY <1>4, <2>1
  <1>6. CASE Shelves(s)!Create(r) \/ Shelves(s)!CommitUpdate(r) \/ Shelves(s)!CommitDelete(r) \/ Shelves(s)!CommitLate(r)
    <2>1. edits[r].op \in {"idle", "update", "delete", "late"} /\ \E job : edits' = [edits EXCEPT ![r] = job]
      BY <1>6 DEF Shelves!Create, Shelves!CommitUpdate, Shelves!CommitDelete, Shelves!CommitLate, Shelves!End, Shelves!Idle
    <2>2. x # r /\ edits'[x] = edits[x]
      BY <1>1, <2>1
    <2> QED BY <1>1, <2>2
  <1> QED BY <1>2, <1>3, <1>5, <1>6

(* While another part is at work, the catalog stands still.                   *)
LEMMA ShelvesElsewhere ==
  ASSUME [DeskNext]_deskVars
  PROVE  \/ desk = "images" /\ Shelves("images")!Next
         \/ desk = "lines" /\ Shelves("lines")!Next
         \/ UNCHANGED productVars
  BY DEF DeskNext, SessionStep, PeriodStep, FigureStep, ReminderStep, ProductStep, SearchStep, ImportStep, deskVars

OfficeShelves == \A s \in ShelfSettings : desk = s => CatalogInv(s)

LEMMA ShelvesKept ==
  ASSUME OfficeShelves, [DeskNext]_deskVars
  PROVE  /\ OfficeShelves'
         /\ desk = "images" => Shelves("images")!KeepsProducts
  <1>1. desk' = desk
    BY DeskStays
  <1>2. ASSUME NEW s \in ShelfSettings, desk = s, UNCHANGED productVars
        PROVE  CatalogInv(s)' /\ Shelves(s)!KeepsProducts
    <2>1. UNCHANGED <<sku, image, nextImage, line, parent, edits, answer>> /\ CatalogInv(s)
      BY <1>2 DEF productVars, OfficeShelves
    <2>2. CatalogInv(s)'
      <3>1. Shelves(s)!TypeOK'
        BY <2>1 DEF CatalogInv, Shelves!TypeOK
      <3>2. Pictures' /\ OneSku' /\ Linked(s)'
        BY <2>1 DEF CatalogInv, Pictures, OneSku, Linked
      <3>3. \A x \in Requests : JobInv(s, x)'
        <4>1. Smooth
          BY <2>1, CatalogTyped DEF Smooth
        <4> QED BY <2>1, <4>1, CatalogTyped, JobStays
      <3> QED BY <2>1, <3>1, <3>2, <3>3 DEF CatalogInv, Linked
    <2> QED BY <2>1, <2>2 DEF Shelves!KeepsProducts, Shelves!ImagesOf
  <1>3. ASSUME NEW s \in ShelfSettings, desk = s, Shelves(s)!Next
        PROVE  CatalogInv(s)' /\ Shelves(s)!KeepsProducts
    BY <1>3, CatalogKept, ImportsKeepProducts DEF OfficeShelves
  <1>4. ASSUME NEW s \in ShelfSettings, desk = s
        PROVE  CatalogInv(s)' /\ Shelves(s)!KeepsProducts
    BY <1>2, <1>3, <1>4, ShelvesElsewhere
  <1>5. "images" \in ShelfSettings
    BY DEF ShelfSettings
  <1> QED BY <1>1, <1>4, <1>5 DEF OfficeShelves

(* A product with images has exactly one primary image and the script's       *)
(* picture at most once, no line is left without its product, and an import   *)
(* keeps what exists, however requests and scripts overlap.                   *)
THEOREM CatalogueAlwaysHolds == DeskSpec => CatalogueHolds
  <1>1. DeskInit => OfficeShelves
    <2> SUFFICES ASSUME DeskInit, NEW s \in ShelfSettings, desk = s PROVE CatalogInv(s)
      BY DEF OfficeShelves
    <2>1. Shelves(s)!Init
      BY DEF DeskInit, ShelfSettings
    <2> QED BY <2>1, CatalogStart
  <1>2. OfficeShelves =>
          /\ desk = "images" => Shelves("images")!TypeOK /\ Shelves("images")!OnePrimary /\ Shelves("images")!ScriptImageOnce
          /\ desk = "lines" => Shelves("lines")!TypeOK /\ Shelves("lines")!LinesExist
    <2>1. "images" \in ShelfSettings /\ "lines" \in ShelfSettings
      BY DEF ShelfSettings
    <2> QED BY <2>1, CatalogMeans DEF OfficeShelves
  <1>3. OfficeShelves /\ [DeskNext]_deskVars =>
          OfficeShelves' /\ [desk = "images" => Shelves("images")!KeepsProducts]_deskVars
    BY ShelvesKept
  <1> QED BY <1>1, <1>2, <1>3, PTL DEF DeskSpec, CatalogueHolds
-----------------------------------------------------------------------------
(* The catalogue search.  A product list is ranked by a total order, so the   *)
(* ranking of the candidates exists, for any catalogue and any limits.        *)
LEMMA SameCounts == /\ \A S : Search!Cardinality(S) = Cardinality(S)
                    /\ \A S : Search!IsFiniteSet(S) <=> IsFiniteSet(S)
  BY DEF Search!Cardinality, Cardinality, Search!IsFiniteSet, IsFiniteSet

LEMMA SearchLimits ==
  /\ MaxTerms \in Nat \ {0} /\ MaxWidth \in Nat \ {0} /\ PageRows \in Nat \ {0} /\ MaxQuery \in Nat \ {0}
  /\ MaxWidth <= MaxTerms
  /\ Titles \subseteq Seq(Words) /\ CatalogueIds \subseteq Nat /\ IsFiniteSet(CatalogueIds)
  BY LookupAssumption, SameCounts DEF Search!SearchAssumption

LEMMA SmallerOfTwo ==
  ASSUME NEW a \in Int, NEW b \in Int
  PROVE  Search!Min({a, b}) = IF a <= b THEN a ELSE b
  <1> DEFINE m == IF a <= b THEN a ELSE b
  <1>1. m \in {a, b} /\ \A y \in {a, b} : m <= y
    OBVIOUS
  <1>2. \A x \in {a, b} : (\A y \in {a, b} : x <= y) => x = m
    OBVIOUS
  <1> QED BY <1>1, <1>2 DEF Search!Min

LEMMA HasGreatest ==
  ASSUME NEW W \in Nat, NEW S \in SUBSET (0..W), S # {}
  PROVE  \E u \in S : \A v \in S : u >= v
  <1> DEFINE T == {t \in 0..W : W - t \in S}
  <1>1. \A y \in S : y \in 0..W /\ W - y \in 0..W /\ W - (W - y) = y
    OBVIOUS
  <1>2. T \in SUBSET Nat /\ T # {} /\ \A y \in S : W - y \in T
    <2>1. \A y \in S : W - y \in T
      BY <1>1
    <2>2. PICK y \in S : TRUE
      OBVIOUS
    <2>3. T # {}
      BY <2>1, <2>2
    <2>4. T \in SUBSET Nat
      OBVIOUS
    <2> QED BY <2>1, <2>3, <2>4
  <1>3. PICK u \in T : \A v \in T : u <= v
    BY <1>2, HasLeast
  <1>4. W - u \in S /\ u \in 0..W
    OBVIOUS
  <1>5. \A y \in S : u <= W - y
    BY <1>2, <1>3
  <1>6. \A y \in S : W - u >= y
    BY <1>1, <1>4, <1>5
  <1> QED BY <1>4, <1>6

(* The phrases of a sequence of words, at most so wide.                       *)
LEMMA RunsMeans ==
  ASSUME NEW s \in Seq(Words), NEW w \in Nat \ {0}, NEW f
  PROVE  f \in Search!Runs(s, w) <=>
           \E b, e \in 1..Len(s) : b <= e /\ e - b < w /\ f = SubSeq(s, b, e)
  <1>1. Len(s) \in Nat
    OBVIOUS
  <1>2. ASSUME NEW b \in 1..Len(s)
        PROVE  b..Search!Min({b + w - 1, Len(s)}) = {e \in 1..Len(s) : b <= e /\ e - b < w}
    <2>1. Search!Min({b + w - 1, Len(s)}) = IF b + w - 1 <= Len(s) THEN b + w - 1 ELSE Len(s)
      BY <1>1, SmallerOfTwo
    <2> QED BY <2>1, <1>1
  <1>3. f \in Search!Runs(s, w) <=>
          \E b \in 1..Len(s) : \E e \in b..Search!Min({b + w - 1, Len(s)}) : f = SubSeq(s, b, e)
    <2> DEFINE From(b) == {SubSeq(s, b, e) : e \in b..Search!Min({b + w - 1, Len(s)})}
    <2>1. Search!Runs(s, w) = UNION {From(b) : b \in 1..Len(s)}
      BY Zenon DEF Search!Runs
    <2>2. f \in UNION {From(b) : b \in 1..Len(s)} <=> \E b \in 1..Len(s) : f \in From(b)
      <3> HIDE DEF From
      <3> QED BY Zenon
    <2>3. \A b \in 1..Len(s) :
             f \in From(b) <=> \E e \in b..Search!Min({b + w - 1, Len(s)}) : f = SubSeq(s, b, e)
      BY Zenon
    <2> QED BY <2>1, <2>2, <2>3, Zenon
  <1>4. \A b \in 1..Len(s) : \A e : e \in b..Search!Min({b + w - 1, Len(s)}) <=> e \in 1..Len(s) /\ b <= e /\ e - b < w
    BY <1>2
  <1> QED BY <1>3, <1>4, Zenon

LEMMA RunFacts ==
  ASSUME NEW s \in Seq(Words), NEW b \in 1..Len(s), NEW e \in 1..Len(s), b <= e
  PROVE  /\ SubSeq(s, b, e) \in Seq(Words) /\ Len(SubSeq(s, b, e)) = e - b + 1
         /\ \A i \in 1..(e - b + 1) : SubSeq(s, b, e)[i] = s[b + i - 1]
  <1>1. \A i \in b..e : s[i] \in Words
    OBVIOUS
  <1> QED BY <1>1, SubSeqProperties

SearchInv ==
  /\ Search!TypeOK
  /\ \A p, q \in CatalogueIds : catalogue[p].sku = catalogue[q].sku => p = q
  /\ Search!PastedSkusFirst /\ Search!FullNameFirst /\ Search!TotalIsComplete

(* What the search reads of the query.                                        *)
LEMMA QueryTyped ==
  ASSUME Search!TypeOK
  PROVE  /\ query \in Seq(Words) /\ Len(query) \in Nat
         /\ catalogue \in [CatalogueIds -> Search!Product]
         /\ \A p \in CatalogueIds : catalogue[p].name \in Seq(Words) /\ catalogue[p].sku \in Words /\ catalogue[p].active \in BOOLEAN
  BY SearchLimits DEF Search!TypeOK, Search!Queries, Search!Product

LEMMA TermsTyped ==
  ASSUME Search!TypeOK
  PROVE  /\ Search!Terms \in Seq(Words) /\ Len(Search!Terms) \in Nat
         /\ Len(Search!Terms) = IF Len(query) <= MaxTerms THEN Len(query) ELSE MaxTerms
         /\ \A i \in 1..Len(Search!Terms) : Search!Terms[i] = query[i]
  <1> DEFINE m == IF Len(query) <= MaxTerms THEN Len(query) ELSE MaxTerms
  <1>1. Search!Terms = SubSeq(query, 1, m) /\ m \in Nat /\ m <= Len(query)
    BY QueryTyped, SmallerOfTwo, SearchLimits DEF Search!Terms
  <1>2. \A i \in 1..m : query[i] \in Words
    BY QueryTyped, <1>1
  <1> QED BY <1>1, <1>2, SubSeqProperties

LEMMA PhraseFacts ==
  ASSUME Search!TypeOK, NEW p \in CatalogueIds, NEW f \in Search!MatchedBy(p)
  PROVE  /\ f \in Seq(Words) /\ Len(f) \in 1..MaxWidth
         /\ \E b, e \in 1..Len(Search!Terms) : b <= e /\ e - b < MaxWidth /\ f = SubSeq(Search!Terms, b, e)
         /\ \E b, e \in 1..Len(catalogue[p].name) : b <= e /\ e - b < MaxWidth /\ f = SubSeq(catalogue[p].name, b, e)
  <1>1. /\ \E b, e \in 1..Len(Search!Terms) : b <= e /\ e - b < MaxWidth /\ f = SubSeq(Search!Terms, b, e)
        /\ \E b, e \in 1..Len(catalogue[p].name) : b <= e /\ e - b < MaxWidth /\ f = SubSeq(catalogue[p].name, b, e)
    <2>1. f \in Search!Runs(Search!Terms, MaxWidth) /\ f \in Search!Runs(catalogue[p].name, MaxWidth)
      BY Zenon DEF Search!MatchedBy, Search!Phrases
    <2>2. MaxWidth \in Nat \ {0} /\ Search!Terms \in Seq(Words) /\ catalogue[p].name \in Seq(Words)
      BY QueryTyped, TermsTyped, SearchLimits
    <2>3. \A s \in Seq(Words) : f \in Search!Runs(s, MaxWidth) =>
             \E b, e \in 1..Len(s) : b <= e /\ e - b < MaxWidth /\ f = SubSeq(s, b, e)
      BY <2>2, RunsMeans
    <2> QED BY <2>1, <2>2, <2>3, Zenon
  <1>2. PICK b, e \in 1..Len(Search!Terms) : b <= e /\ e - b < MaxWidth /\ f = SubSeq(Search!Terms, b, e)
    BY <1>1
  <1>3. f \in Seq(Words) /\ Len(f) = e - b + 1
    BY <1>2, TermsTyped, RunFacts
  <1>4. Len(f) \in 1..MaxWidth
    BY <1>2, <1>3, TermsTyped, SearchLimits
  <1> QED BY <1>1, <1>3, <1>4

(* A name shares a phrase with the query when it shares a word.               *)
LEMMA MatchMeans ==
  ASSUME Search!TypeOK, NEW p \in CatalogueIds
  PROVE  Search!MatchedBy(p) # {} <=>
           \E i \in 1..Len(Search!Terms), j \in 1..Len(catalogue[p].name) : Search!Terms[i] = catalogue[p].name[j]
  <1>1. ASSUME NEW f \in Search!MatchedBy(p)
        PROVE  \E i \in 1..Len(Search!Terms), j \in 1..Len(catalogue[p].name) : Search!Terms[i] = catalogue[p].name[j]
    <2>1. PICK b, e \in 1..Len(Search!Terms) : b <= e /\ f = SubSeq(Search!Terms, b, e)
      BY PhraseFacts
    <2>2. PICK c, d \in 1..Len(catalogue[p].name) : c <= d /\ f = SubSeq(catalogue[p].name, c, d)
      BY PhraseFacts
    <2>3. f[1] = Search!Terms[b]
      <3>1. 1 \in 1..(e - b + 1) /\ b + 1 - 1 = b
        BY <2>1, TermsTyped
      <3> QED BY <2>1, <3>1, TermsTyped, RunFacts
    <2>4. f[1] = catalogue[p].name[c]
      <3>1. 1 \in 1..(d - c + 1) /\ c + 1 - 1 = c
        BY <2>2, QueryTyped
      <3> QED BY <2>2, <3>1, QueryTyped, RunFacts
    <2> QED BY <2>3, <2>4
  <1>2. ASSUME NEW i \in 1..Len(Search!Terms), NEW j \in 1..Len(catalogue[p].name),
               Search!Terms[i] = catalogue[p].name[j]
        PROVE  Search!MatchedBy(p) # {}
    <2> DEFINE t == Search!Terms  n == catalogue[p].name
    <2>1. t \in Seq(Words) /\ n \in Seq(Words) /\ Len(t) \in Nat /\ Len(n) \in Nat
      BY TermsTyped, QueryTyped
    <2> HIDE DEF t, n
    <2>2. i \in 1..Len(t) /\ j \in 1..Len(n) /\ t[i] = n[j]
      BY <1>2 DEF t, n
    <2>3. /\ SubSeq(t, i, i) \in Seq(Words) /\ Len(SubSeq(t, i, i)) = 1 /\ SubSeq(t, i, i)[1] = t[i]
          /\ SubSeq(n, j, j) \in Seq(Words) /\ Len(SubSeq(n, j, j)) = 1 /\ SubSeq(n, j, j)[1] = n[j]
      <3>1. i <= i /\ i - i + 1 = 1 /\ i + 1 - 1 = i /\ j <= j /\ j - j + 1 = 1 /\ j + 1 - 1 = j /\ 1 \in 1..1
        OBVIOUS
      <3> QED BY <2>1, <2>2, <3>1, RunFacts
    <2>4. SubSeq(t, i, i) = SubSeq(n, j, j)
      BY <2>2, <2>3, SeqEqual
    <2>5. i <= i /\ i - i < MaxWidth /\ j <= j /\ j - j < MaxWidth
      BY SearchLimits
    <2>6. SubSeq(t, i, i) \in Search!Runs(t, MaxWidth) /\ SubSeq(n, j, j) \in Search!Runs(n, MaxWidth)
      BY <2>1, <2>2, <2>5, RunsMeans, SearchLimits
    <2> QED BY <2>4, <2>6 DEF t, n, Search!MatchedBy, Search!Phrases
  <1> QED BY <1>1, <1>2

LEMMA LongestTyped ==
  ASSUME Search!TypeOK, NEW p \in CatalogueIds
  PROVE  /\ Search!Longest(p) \in 0..MaxWidth
         /\ \A f \in Search!MatchedBy(p) : Len(f) <= Search!Longest(p)
         /\ Search!Longest(p) = 0 \/ \E f \in Search!MatchedBy(p) : Search!Longest(p) = Len(f)
  <1> DEFINE S == {0} \cup {Len(f) : f \in Search!MatchedBy(p)}
  <1>1. S \in SUBSET (0..MaxWidth) /\ S # {} /\ MaxWidth \in Nat
    BY PhraseFacts, SearchLimits
  <1>2. Search!Longest(p) = CHOOSE x \in S : \A y \in S : x >= y
    BY DEF Search!Longest, Search!Max
  <1>3. Search!Longest(p) \in S /\ \A y \in S : Search!Longest(p) >= y
    <2> HIDE DEF S
    <2>1. \E x \in S : \A y \in S : x >= y
      BY <1>1, HasGreatest
    <2> QED BY <1>2, <2>1
  <1>4. \A f \in Search!MatchedBy(p) : Len(f) \in S
    OBVIOUS
  <1>5. Search!Longest(p) \in 0..MaxWidth
    <2> HIDE DEF S
    <2> QED BY <1>1, <1>3
  <1>6. \A f \in Search!MatchedBy(p) : Len(f) <= Search!Longest(p)
    <2>1. \A f \in Search!MatchedBy(p) : Len(f) \in Nat
      BY PhraseFacts, SearchLimits
    <2> HIDE DEF S
    <2> QED BY <1>3, <1>4, <1>5, <2>1
  <1> QED BY <1>3, <1>5, <1>6

(* p comes before q.                                                          *)
Ahead(p, q) == Search!Lower(Search!Rank(p), Search!Rank(q))

LEMMA AheadMeans ==
  ASSUME Search!TypeOK, NEW p \in CatalogueIds, NEW q \in CatalogueIds
  PROVE  Ahead(p, q) <=>
           IF Search!Pasted(p) THEN ~Search!Pasted(q) \/ p < q
           ELSE /\ ~Search!Pasted(q)
                /\ \/ Search!Longest(p) > Search!Longest(q)
                   \/ Search!Longest(p) = Search!Longest(q) /\ p < q
  <1>1. ASSUME NEW a1 \in Int, NEW a2 \in Int, NEW a3 \in Int, NEW b1 \in Int, NEW b2 \in Int, NEW b3 \in Int
        PROVE  Search!Lower(<<a1, a2, a3>>, <<b1, b2, b3>>) <=>
                 a1 < b1 \/ (a1 = b1 /\ (a2 < b2 \/ (a2 = b2 /\ a3 < b3)))
    <2>1. 1..3 = {1, 2, 3} /\ 1..(1 - 1) = {} /\ 1..(2 - 1) = {1} /\ 1..(3 - 1) = {1, 2}
      OBVIOUS
    <2> QED BY <2>1 DEF Search!Lower
  <1>2. p \in Int /\ q \in Int /\ Search!Longest(p) \in Int /\ Search!Longest(q) \in Int
    BY LongestTyped, SearchLimits
  <1>3. CASE Search!Pasted(p) /\ Search!Pasted(q)
    BY <1>1, <1>2, <1>3 DEF Ahead, Search!Rank
  <1>4. CASE Search!Pasted(p) /\ ~Search!Pasted(q)
    BY <1>1, <1>2, <1>4 DEF Ahead, Search!Rank
  <1>5. CASE ~Search!Pasted(p) /\ Search!Pasted(q)
    BY <1>1, <1>2, <1>5 DEF Ahead, Search!Rank
  <1>6. CASE ~Search!Pasted(p) /\ ~Search!Pasted(q)
    BY <1>1, <1>2, <1>6 DEF Ahead, Search!Rank
  <1> QED BY <1>3, <1>4, <1>5, <1>6

LEMMA AheadOrders ==
  ASSUME Search!TypeOK
  PROVE  /\ \A p, q \in CatalogueIds : p # q => Ahead(p, q) \/ Ahead(q, p)
         /\ \A p \in CatalogueIds : ~Ahead(p, p)
         /\ \A p, q, r \in CatalogueIds : Ahead(p, q) /\ Ahead(q, r) => Ahead(p, r)
  <1>1. \A p \in CatalogueIds : p \in Int /\ Search!Longest(p) \in Int
    BY LongestTyped, SearchLimits
  <1>2. \A p, q \in CatalogueIds : p # q => Ahead(p, q) \/ Ahead(q, p)
    BY <1>1, AheadMeans
  <1>3. \A p \in CatalogueIds : ~Ahead(p, p)
    BY <1>1, AheadMeans
  <1>4. ASSUME NEW p \in CatalogueIds, NEW q \in CatalogueIds, NEW r \in CatalogueIds, Ahead(p, q), Ahead(q, r)
        PROVE  Ahead(p, r)
    BY <1>1, <1>4, AheadMeans
  <1> QED BY <1>2, <1>3, <1>4

LEMMA CandidatesFinite ==
  /\ IsFiniteSet(Search!Candidates) /\ Search!Candidates \subseteq CatalogueIds
  /\ Cardinality(Search!Candidates) \in Nat
  <1>1. Search!Candidates \subseteq CatalogueIds
    BY DEF Search!Candidates
  <1> QED BY <1>1, SearchLimits, FS_Subset, FS_CardinalityType

(* A finite set with a total order can be put in a sequence.                  *)
Ranks(s, S) == s \in [1..Cardinality(S) -> S] /\ \A i, j \in DOMAIN s : i < j => Ahead(s[i], s[j])

LEMMA RankingExists ==
  ASSUME Search!TypeOK
  PROVE  \E s : Ranks(s, Search!Candidates)
  <1> DEFINE C == Search!Candidates
             n == Cardinality(C)
             Above(p) == {q \in C : Ahead(q, p)}
             place == [p \in C |-> Cardinality(Above(p)) + 1]
  <1>1. IsFiniteSet(C) /\ C \subseteq CatalogueIds /\ n \in Nat
    BY CandidatesFinite
  <1> HIDE DEF C
  <1>2. ASSUME NEW p \in C
        PROVE  IsFiniteSet(Above(p)) /\ Cardinality(Above(p)) \in 0..(n - 1) /\ p \notin Above(p)
    <2>1. Above(p) \in SUBSET C /\ p \notin Above(p)
      BY <1>1, AheadOrders
    <2>2. Above(p) \cup {p} \in SUBSET C
      BY <2>1
    <2> HIDE DEF Above
    <2>3. IsFiniteSet(Above(p)) /\ IsFiniteSet(Above(p) \cup {p}) /\ Cardinality(Above(p) \cup {p}) <= n
      BY <2>1, <2>2, <1>1, FS_Subset
    <2>4. Cardinality(Above(p) \cup {p}) = Cardinality(Above(p)) + 1 /\ Cardinality(Above(p)) \in Nat
      BY <2>1, <2>3, FS_AddElement, FS_CardinalityType
    <2> QED BY <2>1, <2>3, <2>4, <1>1
  <1>3. ASSUME NEW p \in C, NEW q \in C, Ahead(p, q)
        PROVE  Cardinality(Above(p)) < Cardinality(Above(q))
    <2>1. Above(p) \cup {p} \in SUBSET Above(q)
      BY <1>1, <1>3, AheadOrders
    <2>2. IsFiniteSet(Above(p)) /\ IsFiniteSet(Above(q)) /\ p \notin Above(p)
          /\ Cardinality(Above(p)) \in Nat /\ Cardinality(Above(q)) \in Nat
      BY <1>1, <1>2
    <2> HIDE DEF Above
    <2>3. Cardinality(Above(p) \cup {p}) = Cardinality(Above(p)) + 1 /\ Cardinality(Above(p) \cup {p}) <= Cardinality(Above(q))
      BY <2>1, <2>2, FS_AddElement, FS_Subset
    <2> QED BY <2>2, <2>3
  <1>4. /\ place \in [C -> 1..n]
        /\ \A p, q \in C : Ahead(p, q) => place[p] < place[q]
        /\ \A p, q \in C : place[p] < place[q] => Ahead(p, q)
        /\ \A p, q \in C : place[p] = place[q] => p = q
    <2>1. \A p \in C : place[p] = Cardinality(Above(p)) + 1 /\ Cardinality(Above(p)) \in 0..(n - 1)
      BY <1>2
    <2>2. \A p \in C : Cardinality(Above(p)) + 1 \in 1..n
      BY <2>1, <1>1
    <2>3. place \in [C -> 1..n]
      BY <2>2
    <2>4. \A p, q \in C : Ahead(p, q) => place[p] < place[q]
      <3> SUFFICES ASSUME NEW p \in C, NEW q \in C, Ahead(p, q) PROVE place[p] < place[q]
        OBVIOUS
      <3> HIDE DEF place, Above
      <3> QED BY <2>1, <1>3, <1>1
    <2>5. \A p, q \in C : p = q \/ Ahead(p, q) \/ Ahead(q, p)
      BY <1>1, AheadOrders
    <2> HIDE DEF place, Above
    <2>6. \A p \in C : place[p] \in Nat
      BY <2>3
    <2> QED BY <2>3, <2>4, <2>5, <2>6
  <1> HIDE DEF place
  <1>5. place \in Injection(C, 1..n)
    BY <1>4 DEF Injection, IsInjective
  <1>6. place \in Surjection(C, 1..n)
    <2>1. IsFiniteSet(1..n) /\ Cardinality(1..n) = n
      BY <1>1, FS_Interval
    <2> QED BY <1>5, <2>1, FS_Injection
  <1> DEFINE s == [i \in 1..n |-> CHOOSE p \in C : place[p] = i]
  <1>7. \A i \in 1..n : s[i] \in C /\ place[s[i]] = i
    BY <1>6 DEF Surjection
  <1>8. s \in [1..n -> C]
    BY <1>7
  <1>9. \A i, j \in 1..n : i < j => Ahead(s[i], s[j])
    <2> HIDE DEF s
    <2> QED BY <1>4, <1>7
  <1>10. DOMAIN s = 1..n
    OBVIOUS
  <1> HIDE DEF s
  <1> QED BY <1>8, <1>9, <1>10 DEF Ranks, C

(* The ranking: the candidates, each once, in their order.                    *)
LEMMA RankedFacts ==
  ASSUME Search!TypeOK
  PROVE  /\ Search!Ranked \in Seq(Search!Candidates)
         /\ Len(Search!Ranked) = Cardinality(Search!Candidates)
         /\ \A i, j \in 1..Len(Search!Ranked) : i < j => Ahead(Search!Ranked[i], Search!Ranked[j])
         /\ \A p \in Search!Candidates : \E i \in 1..Len(Search!Ranked) : Search!Ranked[i] = p
  <1> DEFINE C == Search!Candidates
             n == Cardinality(C)
             s == Search!Ranked
  <1>1. IsFiniteSet(C) /\ C \subseteq CatalogueIds /\ n \in Nat
    BY CandidatesFinite
  <1>2. s = CHOOSE f \in [1..n -> C] : \A i, j \in DOMAIN f : i < j => Ahead(f[i], f[j])
    BY SameCounts DEF Search!Ranked, Search!Sorted, Ahead
  <1>3. Ranks(s, C)
    <2>1. PICK f : Ranks(f, C)
      BY RankingExists
    <2> HIDE DEF s, C
    <2> QED BY <1>2, <2>1 DEF Ranks
  <1> HIDE DEF s, C
  <1>4. s \in [1..n -> C] /\ DOMAIN s = 1..n /\ \A i, j \in 1..n : i < j => Ahead(s[i], s[j])
    BY <1>3 DEF Ranks
  <1>5. s \in Seq(C) /\ Len(s) = n
    BY <1>1, <1>4
  <1>6. \A i, j \in 1..n : s[i] = s[j] => i = j
    <2> SUFFICES ASSUME NEW i \in 1..n, NEW j \in 1..n, s[i] = s[j] PROVE ~(i < j)
      BY <1>1
    <2>1. s[i] \in CatalogueIds
      BY <1>1, <1>4
    <2> QED BY <1>4, <2>1, AheadOrders
  <1>7. s \in Injection(1..n, C)
    BY <1>4, <1>6 DEF Injection, IsInjective
  <1>8. IsFiniteSet(1..n) /\ Cardinality(1..n) = n
    BY <1>1, FS_Interval
  <1>9. s \in Surjection(1..n, C)
    BY <1>1, <1>7, <1>8, FS_Injection
  <1>10. \A p \in C : \E i \in 1..n : s[i] = p
    BY <1>9 DEF Surjection
  <1> QED BY <1>4, <1>5, <1>10 DEF s, C

(* No more products can be pasted than the search reads words.                *)
LEMMA PastedFew ==
  ASSUME SearchInv, NEW i \in 1..Len(Search!Ranked), Search!Pasted(Search!Ranked[i])
  PROVE  i <= MaxTerms
  <1> DEFINE s == Search!Ranked
             t == Search!Terms
             m == Len(Search!Terms)
  <1>1. /\ s \in Seq(Search!Candidates) /\ Search!Candidates \subseteq CatalogueIds
        /\ \A j, k \in 1..Len(s) : j < k => Ahead(s[j], s[k])
        /\ Len(s) \in Nat
    BY RankedFacts, CandidatesFinite DEF SearchInv
  <1>2. m \in Nat /\ m <= MaxTerms /\ t \in Seq(Words)
    BY TermsTyped, SearchLimits, QueryTyped DEF SearchInv
  <1>0. i \in 1..Len(s) /\ i \in Nat
    BY <1>1
  <1> HIDE DEF s, t
  <1>3. \A j \in 1..Len(s) : s[j] \in CatalogueIds
    BY <1>1
  <1>4. \A j \in 1..i : Search!Pasted(s[j])
    <2> SUFFICES ASSUME NEW j \in 1..i, j < i PROVE Search!Pasted(s[j])
      BY <1>1 DEF s
    <2>1. Ahead(s[j], s[i]) /\ Search!Pasted(s[i]) /\ s[j] \in CatalogueIds /\ s[i] \in CatalogueIds
      BY <1>1, <1>3 DEF s
    <2>2. Search!TypeOK
      BY DEF SearchInv
    <2> QED BY <2>1, <2>2, AheadMeans
  <1>5. \A j \in 1..i : \E k \in 1..m : t[k] = catalogue[s[j]].sku
    <2> SUFFICES ASSUME NEW j \in 1..i PROVE \E k \in 1..m : t[k] = catalogue[s[j]].sku
      OBVIOUS
    <2>1. catalogue[s[j]].sku \in Search!Range(Search!Terms)
      BY <1>4 DEF Search!Pasted
    <2> QED BY <2>1, <1>2 DEF Search!Range, t
  <1>6. \A j, k \in 1..i : j # k => s[j] # s[k]
    <2>1. Search!TypeOK
      BY DEF SearchInv
    <2> SUFFICES ASSUME NEW j \in 1..i, NEW k \in 1..i, j < k PROVE s[j] # s[k]
      BY <1>1
    <2>2. Ahead(s[j], s[k]) /\ s[j] \in CatalogueIds
      BY <1>0, <1>1, <1>3
    <2> QED BY <2>1, <2>2, AheadOrders
  <1> DEFINE f == [j \in 1..i |-> CHOOSE k \in 1..m : t[k] = catalogue[s[j]].sku]
  <1>7. \A j \in 1..i : f[j] \in 1..m /\ t[f[j]] = catalogue[s[j]].sku
    BY <1>5
  <1>8. f \in [1..i -> 1..m]
    BY <1>7
  <1> HIDE DEF f
  <1>9. \A j, k \in 1..i : f[j] = f[k] => j = k
    <2> SUFFICES ASSUME NEW j \in 1..i, NEW k \in 1..i, f[j] = f[k] PROVE j = k
      OBVIOUS
    <2>1. catalogue[s[j]].sku = catalogue[s[k]].sku
      BY <1>7
    <2>2. s[j] \in CatalogueIds /\ s[k] \in CatalogueIds
      BY <1>0, <1>1, <1>3
    <2>3. s[j] = s[k]
      BY <2>1, <2>2 DEF SearchInv
    <2> QED BY <2>3, <1>6
  <1>10. f \in Injection(1..i, 1..m)
    BY <1>8, <1>9 DEF Injection, IsInjective
  <1>11. i \in Nat /\ IsFiniteSet(1..m) /\ Cardinality(1..m) = m /\ Cardinality(1..i) = i
    <2> HIDE DEF m
    <2>0. m \in Int /\ 1 \in Int
      BY <1>2
    <2>1. IsFiniteSet(1..m) /\ Cardinality(1..m) = IF 1 > m THEN 0 ELSE m - 1 + 1
      BY <2>0, FS_Interval
    <2>2. Cardinality(1..i) = IF 1 > i THEN 0 ELSE i - 1 + 1
      BY <1>0, FS_Interval
    <2> QED BY <1>0, <1>2, <2>1, <2>2
  <1>12. Cardinality(1..i) <= Cardinality(1..m)
    BY <1>10, <1>11, FS_Injection
  <1> QED BY <1>2, <1>11, <1>12, SearchLimits

(* The first m entries of a sequence, entry by entry.                         *)
LEMMA FirstEntries ==
  ASSUME NEW S, NEW q, NEW m \in Nat, \A i \in 1..m : q[i] \in S
  PROVE  /\ SubSeq(q, 1, m) \in Seq(S)
         /\ Len(SubSeq(q, 1, m)) = m
         /\ \A i \in 1..m : SubSeq(q, 1, m)[i] = q[i]
  <1>1. /\ SubSeq(q, 1, m) \in Seq(S)
        /\ Len(SubSeq(q, 1, m)) = IF 1 <= m THEN m - 1 + 1 ELSE 0
        /\ \A i \in 1..(m - 1 + 1) : SubSeq(q, 1, m)[i] = q[1 + i - 1]
    BY ONLY SubSeqProperties, m \in Nat, 1 \in Int, \A i \in 1..m : q[i] \in S
  <1>2. (IF 1 <= m THEN m - 1 + 1 ELSE 0) = m /\ m - 1 + 1 = m /\ \A i \in 1..m : 1 + i - 1 = i
    BY ONLY m \in Nat
  <1> QED BY ONLY <1>1, <1>2

(* The answer: the first rows of the ranking.                                 *)
LEMMA RowsFacts ==
  ASSUME SearchInv, Search!Search
  PROVE  /\ found'.total = Len(Search!Ranked) /\ found' # <<>>
         /\ catalogue' = catalogue /\ query' = query
         /\ Len(found'.rows) \in Nat /\ Len(found'.rows) <= Len(Search!Ranked)
         /\ Len(found'.rows) = Len(Search!Ranked) \/ Len(found'.rows) = PageRows
         /\ DOMAIN found'.rows = 1..Len(found'.rows)
         /\ \A i \in 1..Len(found'.rows) : found'.rows[i] = Search!Ranked[i]
  <1> DEFINE s == Search!Ranked
             m == IF Len(s) <= PageRows THEN Len(s) ELSE PageRows
  <1>1. s \in Seq(Search!Candidates) /\ Len(s) \in Nat
    BY RankedFacts, CandidatesFinite DEF SearchInv
  <1>2. Search!Min({Len(s), PageRows}) = m /\ m \in Nat /\ m <= Len(s) /\ (m = Len(s) \/ m = PageRows)
    BY <1>1, SearchLimits, SmallerOfTwo
  <1>3. found' = [rows |-> SubSeq(s, 1, m), total |-> Len(s)] /\ catalogue' = catalogue /\ query' = query
    BY <1>2 DEF Search!Search
  <1> HIDE DEF s, m
  <1>4. \A i \in 1..m : s[i] \in Search!Candidates
    BY <1>1, <1>2
  <1>5. /\ SubSeq(s, 1, m) \in Seq(Search!Candidates)
        /\ Len(SubSeq(s, 1, m)) = m
        /\ \A i \in 1..m : SubSeq(s, 1, m)[i] = s[i]
    BY ONLY <1>2, <1>4, FirstEntries
  <1>6. found' # <<>>
    BY <1>3
  <1>7. found'.rows = SubSeq(s, 1, m) /\ found'.total = Len(s)
    BY <1>3
  <1> QED BY <1>2, <1>3, <1>5, <1>6, <1>7 DEF s

LEMMA SearchTypeKept ==
  ASSUME SearchInv, Search!Search
  PROVE  Search!TypeOK'
  <1>1. Search!Ranked \in Seq(Search!Candidates) /\ Search!Candidates \subseteq CatalogueIds
        /\ Len(Search!Ranked) = Cardinality(Search!Candidates)
    BY RankedFacts, CandidatesFinite DEF SearchInv
  <1>2. /\ found'.total = Len(Search!Ranked) /\ catalogue' = catalogue /\ query' = query
        /\ Len(found'.rows) \in Nat /\ Len(found'.rows) <= Len(Search!Ranked)
        /\ DOMAIN found'.rows = 1..Len(found'.rows)
        /\ \A i \in 1..Len(found'.rows) : found'.rows[i] = Search!Ranked[i]
    BY RowsFacts
  <1>3. Cardinality(Search!Candidates) \in 0..Search!Cardinality(CatalogueIds)
    <2>1. Cardinality(Search!Candidates) <= Cardinality(CatalogueIds) /\ Cardinality(CatalogueIds) \in Nat
      BY CandidatesFinite, SearchLimits, FS_Subset, FS_CardinalityType
    <2> QED BY <2>1, CandidatesFinite, SameCounts
  <1>4. Search!Range(found'.rows) \subseteq CatalogueIds
    <2> SUFFICES ASSUME NEW i \in 1..Len(found'.rows) PROVE found'.rows[i] \in CatalogueIds
      BY <1>2 DEF Search!Range
    <2>1. i \in 1..Len(Search!Ranked)
      BY <1>1, <1>2, CandidatesFinite
    <2> QED BY <2>1, <1>1, <1>2
  <1>5. catalogue \in [CatalogueIds -> Search!Product] /\ query \in Search!Queries
    BY DEF SearchInv, Search!TypeOK
  <1> QED BY <1>1, <1>2, <1>3, <1>4, <1>5 DEF Search!TypeOK

LEMMA RankedInside ==
  ASSUME SearchInv, Search!Search, NEW i \in 1..Len(found'.rows)
  PROVE  i \in 1..Len(Search!Ranked) /\ found'.rows[i] = Search!Ranked[i] /\ Search!Ranked[i] \in Search!Candidates
         /\ Search!Ranked[i] \in CatalogueIds
  <1>1. Search!Ranked \in Seq(Search!Candidates) /\ Search!Candidates \subseteq CatalogueIds
    BY RankedFacts, CandidatesFinite DEF SearchInv
  <1>2. i \in 1..Len(Search!Ranked) /\ found'.rows[i] = Search!Ranked[i]
    BY <1>1, RowsFacts
  <1> QED BY <1>1, <1>2

LEMMA PastedLead ==
  ASSUME SearchInv, Search!Search
  PROVE  Search!PastedSkusFirst'
  <1> SUFFICES ASSUME PageRows >= MaxTerms, NEW p \in CatalogueIds, catalogue[p].active,
                      NEW k \in 1..Len(query), k <= MaxTerms, query[k] = catalogue[p].sku
               PROVE  /\ found' # <<>> /\ p \in Search!Range(found'.rows)
                      /\ \A q \in Search!Range(found'.rows) : catalogue[q].sku \notin Search!Range(query) =>
                           \E i, j \in 1..Len(found'.rows) : found'.rows[i] = p /\ found'.rows[j] = q /\ i < j
    BY RowsFacts DEF Search!PastedSkusFirst, Search!Shown, Search!Before
  <1>1. Search!TypeOK
    BY DEF SearchInv
  <1>2. k \in 1..Len(Search!Terms) /\ Search!Terms[k] = catalogue[p].sku /\ DOMAIN Search!Terms = 1..Len(Search!Terms)
    BY <1>1, TermsTyped, QueryTyped, SearchLimits
  <1>3. Search!Pasted(p)
    BY <1>2 DEF Search!Pasted, Search!Range
  <1>4. p \in Search!Candidates
    BY <1>3 DEF Search!Candidates
  <1>5. PICK i \in 1..Len(Search!Ranked) : Search!Ranked[i] = p
    BY <1>1, <1>4, RankedFacts
  <1>6. i <= MaxTerms
    BY <1>3, <1>5, PastedFew
  <1>7. i \in 1..Len(found'.rows) /\ found'.rows[i] = p
    BY <1>5, <1>6, RowsFacts, SearchLimits, RankedFacts, <1>1, CandidatesFinite
  <1>8. p \in Search!Range(found'.rows)
    BY <1>7, RowsFacts DEF Search!Range
  <1>9. ASSUME NEW q \in Search!Range(found'.rows), catalogue[q].sku \notin Search!Range(query)
        PROVE  \E a, b \in 1..Len(found'.rows) : found'.rows[a] = p /\ found'.rows[b] = q /\ a < b
    <2>1. PICK j \in 1..Len(found'.rows) : found'.rows[j] = q
      BY RowsFacts DEF Search!Range
    <2>2. j \in 1..Len(Search!Ranked) /\ Search!Ranked[j] = q /\ q \in CatalogueIds
      BY <2>1, RankedInside
    <2>3. ~Search!Pasted(q)
      <3>1. \A a \in 1..Len(Search!Terms) : a \in DOMAIN query /\ Search!Terms[a] = query[a]
        BY <1>1, TermsTyped, QueryTyped, SearchLimits
      <3>2. Search!Range(Search!Terms) \subseteq Search!Range(query)
        BY <3>1, <1>2 DEF Search!Range
      <3> QED BY <3>2, <1>9 DEF Search!Pasted
    <2>4. p # q
      BY <1>3, <2>3
    <2>5. ~Ahead(q, p)
      BY <1>1, <1>3, <2>2, <2>3, AheadMeans
    <2>6. ~(j < i)
      BY <1>1, <1>5, <2>2, <2>5, RankedFacts
    <2>7. i < j
      BY <1>5, <2>2, <2>4, <2>6, RankedFacts, <1>1, CandidatesFinite
    <2> QED BY <1>7, <2>1, <2>7
  <1> QED BY <1>8, <1>9, RowsFacts

(* A product that matches the whole of the query is ranked by all its words.  *)
LEMMA WholeNamesLead ==
  ASSUME SearchInv, Search!Search
  PROVE  Search!FullNameFirst'
  <1> SUFFICES ASSUME NEW p \in CatalogueIds, NEW q \in CatalogueIds,
                      p \in Search!Range(found'.rows), q \in Search!Range(found'.rows),
                      query = catalogue[p].name, catalogue[q].sku \notin Search!Range(query),
                      query \notin Search!Runs(catalogue[q].name, Len(query)), Len(query) <= MaxWidth
               PROVE  \E i, j \in 1..Len(found'.rows) : found'.rows[i] = p /\ found'.rows[j] = q /\ i < j
    BY RowsFacts DEF Search!FullNameFirst, Search!Shown, Search!Before
  <1>1. Search!TypeOK
    BY DEF SearchInv
  <1> DEFINE n == Len(query)
  <1>2. n \in Nat /\ n >= 1 /\ query \in Seq(Words)
    <2>1. PICK k \in 1..MaxQuery : query \in [1..k -> Words]
      BY <1>1 DEF Search!TypeOK, Search!Queries
    <2> QED BY <2>1, SearchLimits
  <1>3. Len(Search!Terms) = n /\ \A i \in 1..n : Search!Terms[i] = query[i]
    BY <1>1, <1>2, TermsTyped, QueryTyped, SearchLimits
  <1>4. Search!Terms = query
    BY <1>1, <1>2, <1>3, TermsTyped, SeqEqual
  <1>5. SubSeq(query, 1, n) = query
    BY <1>2, SubSeqFull
  <1>6. query \in Search!MatchedBy(p)
    <2>1. 1 \in 1..n /\ n \in 1..n /\ 1 <= n /\ n - 1 < MaxWidth
      BY <1>2, SearchLimits
    <2>2. query \in Search!Runs(query, MaxWidth)
      BY <1>2, <1>5, <2>1, RunsMeans, SearchLimits
    <2> QED BY <1>4, <2>2 DEF Search!MatchedBy, Search!Phrases
  <1>7. Search!Longest(p) >= n
    BY <1>1, <1>6, LongestTyped, SearchLimits, <1>2
  <1>8. Search!Longest(q) < n
    <2>1. ASSUME NEW f \in Search!MatchedBy(q) PROVE Len(f) < n
      <3>1. PICK b, e \in 1..Len(Search!Terms) : b <= e /\ f = SubSeq(Search!Terms, b, e)
        <4>1. Search!TypeOK
          BY <1>1
        <4>2. \E b, e \in 1..Len(Search!Terms) : b <= e /\ e - b < MaxWidth /\ f = SubSeq(Search!Terms, b, e)
          BY ONLY <4>1, q \in CatalogueIds, f \in Search!MatchedBy(q), PhraseFacts, Zenon
        <4> QED BY ONLY <4>2
      <3>2. b \in 1..n /\ e \in 1..n /\ f = SubSeq(query, b, e)
        BY <3>1, <1>3, <1>4
      <3>3. Len(f) = e - b + 1
        BY <3>1, <3>2, <1>2, RunFacts
      <3>4. CASE b = 1 /\ e = n
        <4>1. f = query
          BY <3>2, <3>4, <1>5
        <4>2. PICK c, d \in 1..Len(catalogue[q].name) : c <= d /\ f = SubSeq(catalogue[q].name, c, d)
          <5>1. Search!TypeOK
            BY <1>1
          <5>2. \E c, d \in 1..Len(catalogue[q].name) :
                  c <= d /\ d - c < MaxWidth /\ f = SubSeq(catalogue[q].name, c, d)
            BY ONLY <5>1, q \in CatalogueIds, f \in Search!MatchedBy(q), PhraseFacts, Zenon
          <5> QED BY ONLY <5>2
        <4>3. catalogue[q].name \in Seq(Words) /\ Len(catalogue[q].name) \in Nat
          BY <1>1, QueryTyped
        <4>4. d - c + 1 = n
          BY <4>1, <4>2, <4>3, RunFacts
        <4>5. d - c < n
          BY <4>2, <4>3, <4>4
        <4>6. query \in Search!Runs(catalogue[q].name, n)
          <5>1. n \in Nat \ {0}
            BY <1>2
          <5> HIDE DEF n
          <5>2. \E g, h \in 1..Len(catalogue[q].name) :
                  g <= h /\ h - g < n /\ f = SubSeq(catalogue[q].name, g, h)
            BY <4>2, <4>5
          <5>3. f \in Search!Runs(catalogue[q].name, n)
            BY ONLY <4>3, <5>1, <5>2, RunsMeans
          <5> QED BY <4>1, <5>3
        <4> QED BY <4>6
      <3>5. CASE b # 1 \/ e # n
        BY <3>1, <3>2, <3>3, <3>5, <1>2
      <3> QED BY <3>4, <3>5
    <2> QED BY <1>1, <1>2, <2>1, LongestTyped
  <1>9. ~Search!Pasted(q)
    BY <1>4 DEF Search!Pasted
  <1>10. p # q /\ ~Ahead(q, p)
    <2>1. Search!Longest(p) \in Nat /\ Search!Longest(q) \in Nat
      BY <1>1, LongestTyped, SearchLimits
    <2> QED BY <2>1, <1>1, <1>2, <1>7, <1>8, <1>9, AheadMeans
  <1>11. PICK i \in 1..Len(found'.rows) : found'.rows[i] = p
    BY RowsFacts DEF Search!Range
  <1>12. PICK j \in 1..Len(found'.rows) : found'.rows[j] = q
    BY RowsFacts DEF Search!Range
  <1>13. i \in 1..Len(Search!Ranked) /\ Search!Ranked[i] = p /\ j \in 1..Len(Search!Ranked) /\ Search!Ranked[j] = q
    BY <1>11, <1>12, RankedInside
  <1>14. ~(j < i)
    BY <1>1, <1>10, <1>13, RankedFacts
  <1>15. i \in Nat /\ j \in Nat /\ i # j
    BY <1>10, <1>13
  <1>16. i < j
    BY <1>14, <1>15
  <1> QED BY <1>11, <1>12, <1>16

(* The candidates are the active products that share a word.                  *)
LEMMA NoneLost ==
  ASSUME SearchInv, Search!Search
  PROVE  Search!TotalIsComplete'
  <1> DEFINE W(p) == \E i \in 1..Len(query) : i <= MaxTerms /\
                        query[i] \in {catalogue[p].sku} \cup Search!Range(catalogue[p].name)
  <1>1. Search!TypeOK
    BY DEF SearchInv
  <1>2. /\ Len(Search!Terms) \in Nat /\ DOMAIN Search!Terms = 1..Len(Search!Terms)
        /\ \A i : i \in 1..Len(Search!Terms) <=> i \in 1..Len(query) /\ i <= MaxTerms
        /\ \A i \in 1..Len(Search!Terms) : Search!Terms[i] = query[i]
    BY <1>1, TermsTyped, QueryTyped, SearchLimits
  <1>3. ASSUME NEW p \in CatalogueIds
        PROVE  W(p) <=> Search!Pasted(p) \/ Search!MatchedBy(p) # {}
    <2>1. DOMAIN catalogue[p].name = 1..Len(catalogue[p].name)
      BY <1>1, QueryTyped
    <2>2. Search!Pasted(p) <=> \E i \in 1..Len(Search!Terms) : Search!Terms[i] = catalogue[p].sku
      BY <1>2 DEF Search!Pasted, Search!Range
    <2>3. Search!MatchedBy(p) # {} <=>
            \E i \in 1..Len(Search!Terms) : Search!Terms[i] \in Search!Range(catalogue[p].name)
      BY <1>1, <2>1, MatchMeans DEF Search!Range
    <2>4. W(p) <=> \E i \in 1..Len(Search!Terms) :
                     Search!Terms[i] = catalogue[p].sku \/ Search!Terms[i] \in Search!Range(catalogue[p].name)
      BY <1>2
    <2> QED BY <2>2, <2>3, <2>4
  <1>4. Search!Candidates = {p \in CatalogueIds : catalogue[p].active /\ W(p)}
    <2> HIDE DEF W
    <2> QED BY <1>3 DEF Search!Candidates
  <1>5. found'.total = Search!Cardinality(Search!Candidates)
    BY <1>1, RowsFacts, RankedFacts, SameCounts
  <1>6. catalogue' = catalogue /\ query' = query
    BY RowsFacts
  <1>7. found'.total = Search!Cardinality({p \in CatalogueIds : catalogue[p].active /\ W(p)})
    BY <1>4, <1>5
  <1> QED BY <1>6, <1>7 DEF Search!TotalIsComplete

LEMMA SearchStarts == ASSUME Search!Init PROVE SearchInv
  <1>1. Search!TypeOK /\ found = <<>>
    BY DEF Search!Init, Search!TypeOK
  <1>2. Search!PastedSkusFirst /\ Search!FullNameFirst /\ Search!TotalIsComplete
    BY <1>1 DEF Search!PastedSkusFirst, Search!FullNameFirst, Search!TotalIsComplete, Search!Shown
  <1>3. \A p, q \in CatalogueIds : catalogue[p].sku = catalogue[q].sku => p = q
    BY DEF Search!Init
  <1> QED BY <1>1, <1>2, <1>3 DEF SearchInv

LEMMA SearchKept == ASSUME SearchInv, Search!Next \/ UNCHANGED searchVars PROVE SearchInv'
  <1>1. CASE Search!Search
    <2>1. catalogue' = catalogue
      BY <1>1 DEF Search!Search
    <2> QED BY <1>1, <2>1, SearchTypeKept, PastedLead, WholeNamesLead, NoneLost DEF SearchInv
  <1>2. CASE Search!NextQuery
    <2>1. found' = <<>> /\ query' \in Search!Queries /\ catalogue' = catalogue
      BY <1>2 DEF Search!NextQuery
    <2>2. Search!TypeOK'
      BY <2>1 DEF SearchInv, Search!TypeOK
    <2>3. Search!PastedSkusFirst' /\ Search!FullNameFirst' /\ Search!TotalIsComplete'
      BY <2>1 DEF Search!PastedSkusFirst, Search!FullNameFirst, Search!TotalIsComplete, Search!Shown
    <2> QED BY <2>1, <2>2, <2>3 DEF SearchInv
  <1>3. CASE UNCHANGED searchVars
    <2>1. found' = found /\ query' = query /\ catalogue' = catalogue
      BY <1>3 DEF searchVars
    <2> QED BY <2>1 DEF SearchInv, Search!TypeOK, Search!PastedSkusFirst, Search!FullNameFirst, Search!TotalIsComplete,
                        Search!Shown, Search!Before
  <1> QED BY <1>1, <1>2, <1>3 DEF Search!Next

(* Every answer of the search shows what was pasted, then the whole names,    *)
(* and counts every match, for any catalogue, query and limits.               *)
THEOREM SearchAlwaysAnswers == DeskSpec => []SearchAnswers
  <1> DEFINE Inv == desk = "search" => SearchInv
  <1>1. DeskInit => Inv
    BY SearchStarts DEF DeskInit
  <1>2. Inv /\ [DeskNext]_deskVars => Inv'
    <2> SUFFICES ASSUME Inv, [DeskNext]_deskVars PROVE Inv'
      OBVIOUS
    <2>1. desk' = desk
      BY DeskStays
    <2>2. Search!Next \/ UNCHANGED searchVars
      BY DEF DeskNext, SessionStep, PeriodStep, FigureStep, ReminderStep, ProductStep, SearchStep, ImportStep, deskVars
    <2> QED BY <2>1, <2>2, SearchKept
  <1>3. Inv => SearchAnswers
    BY DEF SearchInv, SearchAnswers
  <1> QED BY <1>1, <1>2, <1>3, PTL DEF DeskSpec
=============================================================================
