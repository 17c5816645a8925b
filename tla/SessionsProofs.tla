--------------------------- MODULE SessionsProofs ---------------------------
(***************************************************************************)
(* Proofs about Sessions, for every number of accounts, requests and       *)
(* passwords, every TTL and every bound on the clock.  IInv (in            *)
(* SessionsProperties) is inductive: one lemma per action shows that it    *)
(* preserves the nine parts of IInv, in their order.                       *)
(***************************************************************************)
EXTENDS SessionsProperties, TLAPS

-----------------------------------------------------------------------------
(* Ending a transaction keeps the types *)

\* Releasing locks leaves each lock with a request or nobody.
LEMMA ReleaseLocksType ==
  ASSUME TypeOK, NEW r \in Req, ReleaseLocks(r)
  PROVE  /\ userLock' \in [Users -> Req \cup {None}]
         /\ tokenLock' \in [Req -> Req \cup {None}]
BY DEF TypeOK, ReleaseLocks


\* A rollback leaves the committed rows alone and answers the request.
LEMMA RollbackType ==
  ASSUME TypeOK, NEW r \in Req, NEW code \in Answers, Rollback(r, code)
  PROVE  /\ userLock' \in [Users -> Req \cup {None}]
         /\ tokenLock' \in [Req -> Req \cup {None}]
         /\ pc' \in [Req -> Places]
         /\ answer' \in [Req -> Answers \cup {None}]
         /\ UNCHANGED <<users, tokens>>
BY ReleaseLocksType DEF TypeOK, Rollback, Reply, Goto, Places


-----------------------------------------------------------------------------
(* Arrivals *)

\* login captures the user and verifies the password.
LEMMA LoginSnapshotStep ==
  ASSUME IInv, NEW r \in Req, NEW u \in Users, NEW p \in Passwords,
         LoginSnapshot(r, u, p)
  PROVE  IInv'
<1> USE NoneAssumption DEF IInv, TypeOK, Goto, data, locks, LoginSnapshot, Arrive, Reply
<1>1. TypeOK'
  BY DEF Requests, Places, Answers, AllOps, Hashes
<1>2. PlacesOK'
  BY DEF PlacesOK, Running, AllOps
<1>3. OwnerLocked'
  BY DEF OwnerLocked, PlacesOK, Running
<1>4. IdentityOK'
  BY DEF IdentityOK, PlacesOK, Running, Exists, Rooted, RootedRow, Rows
<1>5. Rooted'
  BY DEF Rooted, RootedRow, Exists, Rows
<1>6. TargetsOK'
  BY DEF TargetsOK, Running, Live, Exists, Matches, PlacesOK, AllOps
<1>7. SeenIsCurrent'
  BY DEF SeenIsCurrent, Running, PlacesOK, OwnerLocked
<1>8. OneLivePerFamily'
  BY DEF OneLivePerFamily, Live, Exists
<1>9. LiveSessionsMatchPassword'
  BY DEF LiveSessionsMatchPassword, Live, Exists, Rooted, RootedRow, Rows
<1> QED BY <1>1, <1>2, <1>3, <1>4, <1>5, <1>6, <1>7, <1>8, <1>9

\* login of an unknown e-mail.
LEMMA LoginUnknownStep ==
  ASSUME IInv, NEW r \in Req, LoginUnknown(r)
  PROVE  IInv'
<1> USE NoneAssumption DEF IInv, TypeOK, Goto, data, locks, LoginUnknown, Arrive, Reply
<1>1. TypeOK'
  BY DEF Requests, Places, Answers, AllOps, Hashes
<1>2. PlacesOK'
  BY DEF PlacesOK, Running, AllOps
<1>3. OwnerLocked'
  BY DEF OwnerLocked, PlacesOK, Running
<1>4. IdentityOK'
  BY DEF IdentityOK, PlacesOK, Running, Exists, Rooted, RootedRow, Rows
<1>5. Rooted'
  BY DEF Rooted, RootedRow, Exists, Rows
<1>6. TargetsOK'
  BY DEF TargetsOK, Running, Live, Exists, Matches, PlacesOK, AllOps
<1>7. SeenIsCurrent'
  BY DEF SeenIsCurrent, Running, PlacesOK, OwnerLocked
<1>8. OneLivePerFamily'
  BY DEF OneLivePerFamily, Live, Exists
<1>9. LiveSessionsMatchPassword'
  BY DEF LiveSessionsMatchPassword, Live, Exists, Rooted, RootedRow, Rows
<1> QED BY <1>1, <1>2, <1>3, <1>4, <1>5, <1>6, <1>7, <1>8, <1>9

\* refresh and logout read the identity behind the token.
LEMMA PresentTokenStep ==
  ASSUME IInv, NEW r \in Req, NEW t \in Req, NEW op \in {"REFRESH", "LOGOUT"},
         PresentToken(r, op, t)
  PROVE  IInv'
<1> USE NoneAssumption DEF IInv, TypeOK, Goto, data, locks
<1> DEFINE asked(u, f) == [op |-> op, user |-> u, family |-> f, token |-> t,
                           seen |-> None, new |-> None]
<1>a. /\ pc[r] = "idle"
      /\ UNCHANGED <<clock, users, tokens, userLock, tokenLock, now, targets>>
  BY DEF PresentToken, Arrive
<1>b. \/ /\ Exists(t)
         /\ req' = [req EXCEPT ![r] = asked(tokens[t].user, tokens[t].family)]
         /\ pc' = [pc EXCEPT ![r] = "lock_owner"] /\ answer' = answer
      \/ /\ req' = [req EXCEPT ![r] = asked(None, None)]
         /\ pc' = [pc EXCEPT ![r] = "done"]
         /\ answer' = [answer EXCEPT ![r] = "INVALID_REFRESH"]
  BY DEF PresentToken, Arrive, Reply
<1>c. Exists(t) => tokens[t].user \in Users /\ tokens[t].family \in Req
  BY DEF Exists, Rows
<1>1. TypeOK'
  <2>1. asked(None, None) \in Requests
    BY DEF Requests, AllOps
  <2>2. Exists(t) => asked(tokens[t].user, tokens[t].family) \in Requests
    BY <1>c DEF Requests, AllOps
  <2> HIDE DEF asked
  <2>3. req' \in [Req -> Requests]
    BY <1>b, <2>1, <2>2
  <2> QED BY <1>a, <1>b, <2>3 DEF Places, Answers
<1>2. PlacesOK'
  BY <1>b, <1>c DEF PlacesOK, Running, AllOps
<1>3. OwnerLocked'
  BY <1>a, <1>b DEF OwnerLocked, PlacesOK, Running
<1>4. IdentityOK'
  <2>1. ASSUME NEW s \in Req, s # r
        PROVE  pc'[s] = pc[s] /\ req'[s] = req[s]
    BY <1>b, <2>1
  <2>2. Running(r)' => /\ Exists(t) /\ req'[r].token = t
                       /\ req'[r].user = tokens[t].user
                       /\ req'[r].family = tokens[t].family
    BY <1>b DEF Running
  <2> HIDE DEF asked
  <2> QED BY <1>a, <2>1, <2>2 DEF IdentityOK, Running, Exists
<1>5. Rooted'
  BY <1>a, <1>b DEF Rooted, RootedRow, Exists, Rows
<1>6. TargetsOK'
  BY <1>a, <1>b DEF TargetsOK, Running, Live, Exists, Matches, PlacesOK
<1>7. SeenIsCurrent'
  BY <1>a, <1>b DEF SeenIsCurrent, Running, PlacesOK, OwnerLocked
<1>8. OneLivePerFamily'
  BY <1>a DEF OneLivePerFamily, Live, Exists
<1>9. LiveSessionsMatchPassword'
  <2>1. ASSUME NEW s \in Req, Live(s)
        PROVE  tokens[s].family \in Req /\ tokens[s].family # r
    BY <1>a, <2>1 DEF Live, Exists, Rooted, RootedRow, Rows
  <2>2. \A s \in Req : s # r => req'[s] = req[s]
    BY <1>b
  <2> QED BY <1>a, <2>1, <2>2 DEF LiveSessionsMatchPassword, Live, Exists
<1> QED BY <1>1, <1>2, <1>3, <1>4, <1>5, <1>6, <1>7, <1>8, <1>9

\* A bearer request that get_current_user refuses.
LEMMA UnauthenticatedStep ==
  ASSUME IInv, NEW r \in Req, NEW a \in Req,
         NEW op \in {"LOGOUT_ALL", "CHANGE_PASSWORD"}, Unauthenticated(r, op, a)
  PROVE  IInv'
<1> USE NoneAssumption DEF IInv, TypeOK, Goto, data, locks, Unauthenticated, Arrive, Reply
<1>1. TypeOK'
  BY DEF Requests, Places, Answers, AllOps, Hashes
<1>2. PlacesOK'
  BY DEF PlacesOK, Running, AllOps
<1>3. OwnerLocked'
  BY DEF OwnerLocked, PlacesOK, Running
<1>4. IdentityOK'
  BY DEF IdentityOK, PlacesOK, Running, Exists, Rooted, RootedRow, Rows
<1>5. Rooted'
  BY DEF Rooted, RootedRow, Exists, Rows
<1>6. TargetsOK'
  BY DEF TargetsOK, Running, Live, Exists, Matches, PlacesOK, AllOps
<1>7. SeenIsCurrent'
  BY DEF SeenIsCurrent, Running, PlacesOK, OwnerLocked
<1>8. OneLivePerFamily'
  BY DEF OneLivePerFamily, Live, Exists
<1>9. LiveSessionsMatchPassword'
  BY DEF LiveSessionsMatchPassword, Live, Exists, Rooted, RootedRow, Rows
<1> QED BY <1>1, <1>2, <1>3, <1>4, <1>5, <1>6, <1>7, <1>8, <1>9

\* logout-all past get_current_user: the access token has a row, so a user.
LEMMA LogoutAllStartStep ==
  ASSUME IInv, NEW r \in Req, NEW a \in Req, LogoutAllStart(r, a)
  PROVE  IInv'
<1> USE NoneAssumption DEF IInv, TypeOK, Goto, data, locks, LogoutAllStart, Arrive, Authenticates, AccessValid, Exists, Rows, Rooted, RootedRow
<1>1. TypeOK'
  BY DEF Requests, Places, Answers, AllOps, Hashes
<1>2. PlacesOK'
  BY DEF PlacesOK, Running, AllOps
<1>3. OwnerLocked'
  BY DEF OwnerLocked, PlacesOK, Running
<1>4. IdentityOK'
  BY DEF IdentityOK, PlacesOK, Running, Exists, Rooted, RootedRow, Rows
<1>5. Rooted'
  BY DEF Rooted, RootedRow, Exists, Rows
<1>6. TargetsOK'
  BY DEF TargetsOK, Running, Live, Exists, Matches, PlacesOK, AllOps
<1>7. SeenIsCurrent'
  BY DEF SeenIsCurrent, Running, PlacesOK, OwnerLocked
<1>8. OneLivePerFamily'
  BY DEF OneLivePerFamily, Live, Exists
<1>9. LiveSessionsMatchPassword'
  BY DEF LiveSessionsMatchPassword, Live, Exists, Rooted, RootedRow, Rows
<1> QED BY <1>1, <1>2, <1>3, <1>4, <1>5, <1>6, <1>7, <1>8, <1>9

\* change_password past get_current_user.
LEMMA ChangePasswordStartStep ==
  ASSUME IInv, NEW r \in Req, NEW a \in Req, NEW p \in Passwords, NEW q \in Passwords,
         ChangePasswordStart(r, a, p, q)
  PROVE  IInv'
<1> USE NoneAssumption DEF IInv, TypeOK, Goto, data, locks, ChangePasswordStart, Arrive, Reply, Authenticates, AccessValid, Exists, Rows, Rooted, RootedRow
<1>1. TypeOK'
  <2>1. tokens[a].user \in Users /\ users[tokens[a].user].hash \in Hashes
    OBVIOUS
  <2>2. req' \in [Req -> Requests]
    BY <2>1 DEF Requests, AllOps, Hashes
  <2>3. pc' \in [Req -> Places] /\ answer' \in [Req -> Answers \cup {None}]
    <3>1. CASE p # users[tokens[a].user].hash.plain
      BY <3>1 DEF Places, Answers
    <3>2. CASE p = users[tokens[a].user].hash.plain /\ q = users[tokens[a].user].hash.plain
      BY <3>2 DEF Places, Answers
    <3>3. CASE p = users[tokens[a].user].hash.plain /\ q # users[tokens[a].user].hash.plain
      BY <3>3 DEF Places, Answers
    <3> QED BY <3>1, <3>2, <3>3
  <2> QED BY <2>2, <2>3
<1>2. PlacesOK'
  <2>1. tokens[a].user \in Users /\ users[tokens[a].user].hash \in Hashes
    OBVIOUS
  <2>2. [plain |-> q, salt |-> r] \in Hashes
    BY DEF Hashes
  <2>3. pc'[r] \in {"done", "lock_user"} /\ \A s \in Req \ {r} : pc'[s] = pc[s]
    OBVIOUS
  <2>4. req'[r].user \in Users /\ req'[r].seen \in Hashes /\ req'[r].new \in Hashes
        /\ req'[r].op = "CHANGE_PASSWORD"
    BY <2>1, <2>2
  <2>5. \A s \in Req \ {r} : req'[s] = req[s]
    OBVIOUS
  <2> QED BY ONLY <2>3, <2>4, <2>5, PlacesOK DEF PlacesOK, Running, AllOps
<1>3. OwnerLocked'
  BY DEF OwnerLocked, PlacesOK, Running
<1>4. IdentityOK'
  BY DEF IdentityOK, PlacesOK, Running, Exists, Rooted, RootedRow, Rows
<1>5. Rooted'
  BY DEF Rooted, RootedRow, Exists, Rows
<1>6. TargetsOK'
  BY DEF TargetsOK, Running, Live, Exists, Matches, PlacesOK, AllOps
<1>7. SeenIsCurrent'
  BY DEF SeenIsCurrent, Running, PlacesOK, OwnerLocked
<1>8. OneLivePerFamily'
  BY DEF OneLivePerFamily, Live, Exists
<1>9. LiveSessionsMatchPassword'
  BY DEF LiveSessionsMatchPassword, Live, Exists, Rooted, RootedRow, Rows
<1> QED BY <1>1, <1>2, <1>3, <1>4, <1>5, <1>6, <1>7, <1>8, <1>9

-----------------------------------------------------------------------------
(* Under locks *)

\* The locking read of login, logout-all and change_password.
LEMMA LockUserStep ==
  ASSUME IInv, NEW r \in Req, LockUser(r)
  PROVE  IInv'
<1> USE NoneAssumption DEF IInv, TypeOK, Goto, data, locks, LockUser, Recheck, Rollback, ReleaseLocks, Reply
<1>1. TypeOK'
    <2>1. CASE Recheck(r)
      BY ONLY IInv, LockUser(r), <2>1 DEF IInv, LockUser, TypeOK, Goto, data, Places
    <2>2. CASE ~Recheck(r)
      <3>1. PICK code \in Answers : Rollback(r, code)
        BY <2>2 DEF LockUser, Answers
      <3> QED BY <3>1, RollbackType DEF LockUser, TypeOK
    <2> QED BY <2>1, <2>2
<1>2. PlacesOK'
  BY DEF PlacesOK, Running, AllOps
<1>3. OwnerLocked'
  BY DEF OwnerLocked, PlacesOK, Running
<1>4. IdentityOK'
  BY DEF IdentityOK, PlacesOK, Running, Exists, Rooted, RootedRow, Rows
<1>5. Rooted'
  BY DEF Rooted, RootedRow, Exists, Rows
<1>6. TargetsOK'
  BY DEF TargetsOK, Running, Live, Exists, Matches, PlacesOK, AllOps
<1>7. SeenIsCurrent'
  BY DEF SeenIsCurrent, Running, PlacesOK, OwnerLocked
<1>8. OneLivePerFamily'
  BY DEF OneLivePerFamily, Live, Exists
<1>9. LiveSessionsMatchPassword'
  BY DEF LiveSessionsMatchPassword, Live, Exists, Rooted, RootedRow, Rows
<1> QED BY <1>1, <1>2, <1>3, <1>4, <1>5, <1>6, <1>7, <1>8, <1>9

\* login inserts its token row.
LEMMA IssueTokensStep ==
  ASSUME IInv, NEW r \in Req, IssueTokens(r)
  PROVE  IInv'
<1> USE NoneAssumption DEF IInv, TypeOK, Goto, data, locks, IssueTokens
<1>1. TypeOK'
  BY DEF Requests, Places, Answers, AllOps, Hashes
<1>2. PlacesOK'
  BY DEF PlacesOK, Running, AllOps
<1>3. OwnerLocked'
  BY DEF OwnerLocked, PlacesOK, Running
<1>4. IdentityOK'
  BY DEF IdentityOK, PlacesOK, Running, Exists, Rooted, RootedRow, Rows
<1>5. Rooted'
  BY DEF Rooted, RootedRow, Exists, Rows
<1>6. TargetsOK'
  BY DEF TargetsOK, Running, Live, Exists, Matches, PlacesOK, AllOps
<1>7. SeenIsCurrent'
  BY DEF SeenIsCurrent, Running, PlacesOK, OwnerLocked
<1>8. OneLivePerFamily'
  BY DEF OneLivePerFamily, Live, Exists
<1>9. LiveSessionsMatchPassword'
  BY DEF LiveSessionsMatchPassword, Live, Exists, Rooted, RootedRow, Rows
<1> QED BY <1>1, <1>2, <1>3, <1>4, <1>5, <1>6, <1>7, <1>8, <1>9

\* refresh and logout lock the owner.
LEMMA LockOwnerStep ==
  ASSUME IInv, NEW r \in Req, LockOwner(r)
  PROVE  IInv'
<1> USE NoneAssumption DEF IInv, TypeOK, Goto, data, locks, LockOwner
<1>1. TypeOK'
  BY DEF Requests, Places, Answers, AllOps, Hashes
<1>2. PlacesOK'
  BY DEF PlacesOK, Running, AllOps
<1>3. OwnerLocked'
  BY DEF OwnerLocked, PlacesOK, Running
<1>4. IdentityOK'
  BY DEF IdentityOK, PlacesOK, Running, Exists, Rooted, RootedRow, Rows
<1>5. Rooted'
  BY DEF Rooted, RootedRow, Exists, Rows
<1>6. TargetsOK'
  BY DEF TargetsOK, Running, Live, Exists, Matches, PlacesOK, AllOps
<1>7. SeenIsCurrent'
  BY DEF SeenIsCurrent, Running, PlacesOK, OwnerLocked
<1>8. OneLivePerFamily'
  BY DEF OneLivePerFamily, Live, Exists
<1>9. LiveSessionsMatchPassword'
  BY DEF LiveSessionsMatchPassword, Live, Exists, Rooted, RootedRow, Rows
<1> QED BY <1>1, <1>2, <1>3, <1>4, <1>5, <1>6, <1>7, <1>8, <1>9

\* refresh and logout lock the token.
LEMMA LockTokenStep ==
  ASSUME IInv, NEW r \in Req, LockToken(r)
  PROVE  IInv'
<1> USE NoneAssumption DEF IInv, TypeOK, Goto, data, locks, LockToken, Rollback, ReleaseLocks, Reply
<1>1. TypeOK'
    <2>1. CASE Rollback(r, "INVALID_REFRESH")
      BY <2>1, RollbackType DEF LockToken, TypeOK, Answers
    <2>2. CASE ~Rollback(r, "INVALID_REFRESH")
      BY <2>2 DEF LockToken, TypeOK, Goto, data, Places
    <2> QED BY <2>1, <2>2
<1>2. PlacesOK'
  BY DEF PlacesOK, Running, AllOps
<1>3. OwnerLocked'
  BY DEF OwnerLocked, PlacesOK, Running
<1>4. IdentityOK'
  BY DEF IdentityOK, PlacesOK, Running, Exists, Rooted, RootedRow, Rows
<1>5. Rooted'
  BY DEF Rooted, RootedRow, Exists, Rows
<1>6. TargetsOK'
  BY DEF TargetsOK, Running, Live, Exists, Matches, PlacesOK, AllOps
<1>7. SeenIsCurrent'
  BY DEF SeenIsCurrent, Running, PlacesOK, OwnerLocked
<1>8. OneLivePerFamily'
  BY DEF OneLivePerFamily, Live, Exists
<1>9. LiveSessionsMatchPassword'
  BY DEF LiveSessionsMatchPassword, Live, Exists, Rooted, RootedRow, Rows
<1> QED BY <1>1, <1>2, <1>3, <1>4, <1>5, <1>6, <1>7, <1>8, <1>9

\* refresh: reuse, refusal or rotation.
LEMMA RefreshDecideStep ==
  ASSUME IInv, NEW r \in Req, RefreshDecide(r)
  PROVE  IInv'
<1> USE NoneAssumption DEF IInv, TypeOK, Goto, data, locks, RefreshDecide, Reused, Rollback, ReleaseLocks, Reply
<1>1. TypeOK'
  <2>t. now' \in [Req -> Times] /\ UNCHANGED <<clock, req>>
    BY DEF RefreshDecide, TypeOK
  <2>u. targets' \in [Req -> SUBSET Req]
    <3>1. req[r].token \in Req
      BY DEF PlacesOK, IdentityOK, Running, RefreshDecide, AllOps, TypeOK
    <3> QED BY <3>1 DEF RefreshDecide, TypeOK
  <2>1. CASE Rollback(r, "INVALID_REFRESH")
    BY <2>t, <2>u, <2>1, RollbackType DEF TypeOK, Answers
  <2>2. CASE ~Rollback(r, "INVALID_REFRESH")
    BY <2>t, <2>u, <2>2 DEF RefreshDecide, TypeOK, Goto, data, locks, Places
  <2> QED BY <2>1, <2>2
<1>2. PlacesOK'
  BY DEF PlacesOK, Running, AllOps
<1>3. OwnerLocked'
  BY DEF OwnerLocked, PlacesOK, Running
<1>4. IdentityOK'
  BY DEF IdentityOK, PlacesOK, Running, Exists, Rooted, RootedRow, Rows
<1>5. Rooted'
  BY DEF Rooted, RootedRow, Exists, Rows
<1>6. TargetsOK'
  <2>1. /\ pc[r] = "decide" /\ req[r].op = "REFRESH" /\ targets[r] = {}
        /\ UNCHANGED <<users, tokens, req>>
    BY DEF RefreshDecide, data, Rollback, PlacesOK, Running, TargetsOK, AllOps
  <2>2. LET t == req[r].token IN
        t \in Req /\ Exists(t) /\ tokens[t].user = req[r].user
    BY <2>1 DEF IdentityOK, Running
  <2>3. \A s \in Req \ {r} : pc'[s] = pc[s] /\ targets'[s] = targets[s]
    BY DEF RefreshDecide, TypeOK, Goto, Rollback, Reply
  <2>4. \/ pc'[r] = "revoke" /\ targets'[r] = {}
        \/ pc'[r] = "done" /\ targets'[r] = {}
        \/ /\ pc'[r] = "inserted" /\ targets'[r] = {req[r].token}
           /\ Live(req[r].token)
    BY <2>1, <2>2 DEF RefreshDecide, TypeOK, Goto, Rollback, Reply, Reused, Live
  <2>5. ASSUME NEW s \in Req, s # r
        PROVE  targets'[s] = targets[s] /\ pc'[s] = pc[s]
    BY <2>3, <2>5
  <2> QED BY <2>1, <2>2, <2>4, <2>5
          DEF TargetsOK, Running, Live, Exists, Matches
<1>7. SeenIsCurrent'
  BY DEF SeenIsCurrent, Running, PlacesOK, OwnerLocked
<1>8. OneLivePerFamily'
  BY DEF OneLivePerFamily, Live, Exists
<1>9. LiveSessionsMatchPassword'
  BY DEF LiveSessionsMatchPassword, Live, Exists, Rooted, RootedRow, Rows
<1> QED BY <1>1, <1>2, <1>3, <1>4, <1>5, <1>6, <1>7, <1>8, <1>9

\* An UPDATE takes its snapshot.
LEMMA BeginUpdateStep ==
  ASSUME IInv, NEW r \in Req, BeginUpdate(r)
  PROVE  IInv'
<1> USE NoneAssumption DEF IInv, TypeOK, Goto, data, locks, BeginUpdate
<1>1. TypeOK'
  BY DEF Requests, Places, Answers, AllOps, Hashes
<1>2. PlacesOK'
  BY DEF PlacesOK, Running, AllOps
<1>3. OwnerLocked'
  BY DEF OwnerLocked, PlacesOK, Running
<1>4. IdentityOK'
  BY DEF IdentityOK, PlacesOK, Running, Exists, Rooted, RootedRow, Rows
<1>5. Rooted'
  BY DEF Rooted, RootedRow, Exists, Rows
<1>6. TargetsOK'
  <2>1. /\ pc[r] = "revoke" /\ pc' = [pc EXCEPT ![r] = "update"]
        /\ targets' = [targets EXCEPT ![r] = {t \in Req : Matches(r, t)}]
        /\ UNCHANGED <<users, tokens, req>>
    BY DEF BeginUpdate, Goto, data
  <2>2. \A t \in Req : Matches(r, t) => Exists(t) /\ tokens[t].user = req[r].user
    BY <2>1 DEF Matches, Live, Exists, IdentityOK, Rooted, RootedRow, Running
  <2>3. req[r].op # "LOGIN"
    BY <2>1 DEF PlacesOK, Running
  <2> QED BY <2>1, <2>2, <2>3 DEF TargetsOK, TypeOK, Running, Live, Exists, Matches
<1>7. SeenIsCurrent'
  BY DEF SeenIsCurrent, Running, PlacesOK, OwnerLocked
<1>8. OneLivePerFamily'
  BY DEF OneLivePerFamily, Live, Exists
<1>9. LiveSessionsMatchPassword'
  BY DEF LiveSessionsMatchPassword, Live, Exists, Rooted, RootedRow, Rows
<1> QED BY <1>1, <1>2, <1>3, <1>4, <1>5, <1>6, <1>7, <1>8, <1>9

\* An UPDATE gets its row locks.
LEMMA ApplyUpdateStep ==
  ASSUME IInv, NEW r \in Req, ApplyUpdate(r)
  PROVE  IInv'
<1> USE NoneAssumption DEF IInv, TypeOK, Goto, data, locks, ApplyUpdate
<1>1. TypeOK'
  BY DEF Requests, Places, Answers, AllOps, Hashes
<1>2. PlacesOK'
  BY DEF PlacesOK, Running, AllOps
<1>3. OwnerLocked'
  BY DEF OwnerLocked, PlacesOK, Running
<1>4. IdentityOK'
  BY DEF IdentityOK, PlacesOK, Running, Exists, Rooted, RootedRow, Rows
<1>5. Rooted'
  BY DEF Rooted, RootedRow, Exists, Rows
<1>6. TargetsOK'
  BY DEF TargetsOK, Running, Live, Exists, Matches, PlacesOK, AllOps
<1>7. SeenIsCurrent'
  BY DEF SeenIsCurrent, Running, PlacesOK, OwnerLocked
<1>8. OneLivePerFamily'
  BY DEF OneLivePerFamily, Live, Exists
<1>9. LiveSessionsMatchPassword'
  BY DEF LiveSessionsMatchPassword, Live, Exists, Rooted, RootedRow, Rows
<1> QED BY <1>1, <1>2, <1>3, <1>4, <1>5, <1>6, <1>7, <1>8, <1>9

\* Who commits: a running request that holds its user's row, alone past that
\* lock; the row it may write is new, those it revokes are its user's.
LEMMA CommitContext ==
  ASSUME IInv, NEW r \in Req, Commit(r)
  PROVE  /\ TypeOK /\ Running(r) /\ req[r].user \in Users /\ userLock[req[r].user] = r
         /\ pc[r] \in {"inserted", "updated"}
         /\ pc[r] = "inserted" => req[r].op \in {"LOGIN", "REFRESH"}
         /\ pc[r] = "updated" =>
              req[r].op \in {"REFRESH", "LOGOUT", "LOGOUT_ALL", "CHANGE_PASSWORD"}
         /\ \A s \in Req : s # r /\ Running(s) /\ pc[s] \notin {"lock_user", "lock_owner"}
                           => req[s].user # req[r].user
         /\ ~Exists(r) /\ \A t \in Req : Exists(t) => tokens[t].family # r
         /\ \A t \in targets[r] : t \in Req /\ Exists(t) /\ tokens[t].user = req[r].user
                                  /\ tokens[t] \in Rows /\ t # r
<1>1. /\ TypeOK /\ Running(r) /\ req[r].user \in Users /\ userLock[req[r].user] = r
      /\ pc[r] \in {"inserted", "updated"}
      /\ pc[r] = "inserted" => req[r].op \in {"LOGIN", "REFRESH"}
      /\ pc[r] = "updated" =>
           req[r].op \in {"REFRESH", "LOGOUT", "LOGOUT_ALL", "CHANGE_PASSWORD"}
  BY DEF IInv, Commit, PlacesOK, OwnerLocked, Running, AllOps
<1>2. \A s \in Req : s # r /\ Running(s) /\ pc[s] \notin {"lock_user", "lock_owner"}
                     => req[s].user # req[r].user
  BY <1>1 DEF IInv, OwnerLocked
<1>3. ~Exists(r) /\ \A t \in Req : Exists(t) => tokens[t].family # r
  BY <1>1 DEF IInv, Rooted, RootedRow, Running, TypeOK, Rows
<1>4. \A t \in targets[r] : t \in Req /\ Exists(t) /\ tokens[t].user = req[r].user
                            /\ tokens[t] \in Rows /\ t # r
  BY <1>1, <1>3 DEF IInv, TargetsOK, TypeOK, Exists
<1> QED BY <1>1, <1>2, <1>3, <1>4

\* What a commit leaves of a request's and the locks' state.
LEMMA CommitLocals ==
  ASSUME IInv, NEW r \in Req, Commit(r)
  PROVE  /\ UNCHANGED <<clock, req, now, targets>>
         /\ pc' = [pc EXCEPT ![r] = "done"]
         /\ answer' = [answer EXCEPT ![r] = Verdict(r)]
         /\ \A v \in Users : userLock'[v] = IF userLock[v] = r THEN None ELSE userLock[v]
         /\ \A t \in Req : tokenLock'[t] = IF tokenLock[t] = r THEN None ELSE tokenLock[t]
BY DEF Commit, Reply, Goto, ReleaseLocks

\* A revoked row keeps its user, family and expiry.
LEMMA RevokedRowKeeps ==
  ASSUME TypeOK, NEW r \in Req, NEW t \in Req, Exists(t)
  PROVE  /\ RevokedRow(r, t) \in Rows
         /\ RevokedRow(r, t).user = tokens[t].user
         /\ RevokedRow(r, t).family = tokens[t].family
         /\ RevokedRow(r, t).expires = tokens[t].expires
         /\ RevokedRow(r, t).revoked # None
         /\ RevokedRow(r, t).next = IF Issues(r) THEN r ELSE tokens[t].next
<1>1. now[r] \in Times /\ now[r] # None /\ tokens[t] \in Rows
  BY NoneAssumption DEF TypeOK, Exists
<1> DEFINE Row(v) == [tokens[t] EXCEPT !.revoked = now[r], !.next = v]
<1>2. ASSUME NEW v \in Req \cup {None}
      PROVE  /\ Row(v) \in Rows /\ Row(v).revoked = now[r] /\ Row(v).next = v
             /\ Row(v).user = tokens[t].user /\ Row(v).family = tokens[t].family
             /\ Row(v).expires = tokens[t].expires
  BY <1>1 DEF Rows
<1>3. tokens[t].next \in Req \cup {None}
  BY <1>1 DEF Rows
<1>4. PICK v \in Req \cup {None} :
        /\ RevokedRow(r, t) = Row(v)
        /\ v = IF Issues(r) THEN r ELSE tokens[t].next
  BY <1>3 DEF RevokedRow
<1> HIDE DEF Row
<1> QED BY <1>1, <1>2, <1>4

\* A new row is live, its user's, and in the family the operation says.
LEMMA NewRowIs ==
  ASSUME IInv, NEW r \in Req, Commit(r), Issues(r)
  PROVE  /\ NewRow(r) \in Rows /\ NewRow(r).user = req[r].user
         /\ NewRow(r).revoked = None /\ NewRow(r).next = None
         /\ NewRow(r).expires = now[r] + RefreshTTL
         /\ req[r].op = "LOGIN" => NewRow(r).family = r
         /\ req[r].op = "REFRESH" => NewRow(r).family = req[r].family
<1>a. /\ TypeOK /\ Running(r) /\ req[r].user \in Users /\ req[r].op \in {"LOGIN", "REFRESH"}
  BY CommitContext DEF Issues
<1>1. req[r].op = "REFRESH" => req[r].family \in Req
  BY <1>a DEF IInv, IdentityOK, Exists, TypeOK, Rows
<1>2. now[r] + RefreshTTL \in Nat
  BY <1>a, ConstantsAssumption DEF TypeOK, Times
<1> QED BY <1>a, <1>1, <1>2 DEF NewRow, Issues, Rows

\* What a commit leaves of the rows of refresh_tokens: they only come, and keep
\* their user, family and expiry; those of other users stay as they are.
LEMMA CommitRows ==
  ASSUME IInv, NEW r \in Req, Commit(r)
  PROVE  /\ \A t \in Req : t # r /\ t \notin targets[r] => tokens'[t] = tokens[t]
         /\ \A t \in targets[r] : tokens'[t] = RevokedRow(r, t)
         /\ tokens'[r] = IF Issues(r) THEN NewRow(r) ELSE None
         /\ \A t \in Req : /\ Exists(t) => /\ Exists(t)'
                                           /\ tokens'[t].user = tokens[t].user
                                           /\ tokens'[t].family = tokens[t].family
                                           /\ tokens'[t].expires = tokens[t].expires
                           /\ Exists(t)' /\ t # r => Exists(t)
                           /\ Live(t)' /\ t # r => Live(t) /\ t \notin targets[r]
         /\ Exists(r)' <=> Issues(r)
         /\ \A t \in Req : Exists(t) /\ tokens[t].user # req[r].user
                           => tokens'[t] = tokens[t]
<1>1. /\ TypeOK /\ ~Exists(r)
      /\ \A t \in targets[r] : t \in Req /\ Exists(t) /\ tokens[t].user = req[r].user
                               /\ tokens[t] \in Rows /\ t # r
  BY CommitContext
<1>2. \A t \in Req : /\ t # r /\ t \notin targets[r] => tokens'[t] = tokens[t]
                     /\ t \in targets[r] => tokens'[t] = RevokedRow(r, t)
                     /\ t = r => tokens'[t] = IF Issues(r) THEN NewRow(r) ELSE None
  BY <1>1 DEF Commit, Exists
<1>3. \A t \in targets[r] : /\ RevokedRow(r, t) \in Rows
                            /\ RevokedRow(r, t).user = tokens[t].user
                            /\ RevokedRow(r, t).family = tokens[t].family
                            /\ RevokedRow(r, t).expires = tokens[t].expires
                            /\ RevokedRow(r, t).revoked # None
  BY <1>1, RevokedRowKeeps
<1>4. Issues(r) => NewRow(r) \in Rows
  BY NewRowIs
<1>5. \A t \in Req : /\ Exists(t) => /\ Exists(t)'
                                     /\ tokens'[t].user = tokens[t].user
                                     /\ tokens'[t].family = tokens[t].family
                                     /\ tokens'[t].expires = tokens[t].expires
                     /\ Exists(t)' /\ t # r => Exists(t)
                     /\ Live(t)' /\ t # r => Live(t) /\ t \notin targets[r]
  BY <1>1, <1>2, <1>3, NoneAssumption DEF Exists, Live
<1>6. Exists(r)' <=> Issues(r)
  BY <1>2, <1>4, NoneAssumption DEF Exists
<1>7. \A t \in Req : Exists(t) /\ tokens[t].user # req[r].user => tokens'[t] = tokens[t]
  BY <1>1, <1>2
<1>8. \A t \in targets[r] : t \in Req
  BY <1>1
<1> QED BY <1>2, <1>5, <1>6, <1>7, <1>8

\* What a commit leaves of the accounts: a password change's new hash.
LEMMA CommitUsers ==
  ASSUME IInv, NEW r \in Req, Commit(r)
  PROVE  /\ \A v \in Users :
              /\ users'[v].active = users[v].active
              /\ v # req[r].user => users'[v].hash = users[v].hash
              /\ req[r].op # "CHANGE_PASSWORD" => users'[v].hash = users[v].hash
         /\ req[r].op = "CHANGE_PASSWORD" => users'[req[r].user].hash = req[r].new
<1>1. TypeOK /\ req[r].user \in Users
  BY CommitContext
<1> QED BY <1>1 DEF Commit, TypeOK

\* COMMIT, the one step that changes rows of refresh_tokens.
LEMMA CommitStep ==
  ASSUME IInv, NEW r \in Req, Commit(r)
  PROVE  IInv'
<1> DEFINE u == req[r].user
<1>a. /\ TypeOK /\ Running(r) /\ u \in Users /\ userLock[u] = r
      /\ pc[r] \in {"inserted", "updated"}
      /\ pc[r] = "inserted" => req[r].op \in {"LOGIN", "REFRESH"}
      /\ pc[r] = "updated" =>
           req[r].op \in {"REFRESH", "LOGOUT", "LOGOUT_ALL", "CHANGE_PASSWORD"}
  BY CommitContext
<1>b. /\ UNCHANGED <<clock, req, now, targets>>
      /\ pc' = [pc EXCEPT ![r] = "done"]
      /\ answer' = [answer EXCEPT ![r] = Verdict(r)]
      /\ \A v \in Users : userLock'[v] = IF userLock[v] = r THEN None ELSE userLock[v]
  BY CommitLocals
<1>c. \A s \in Req : s # r /\ Running(s) /\ pc[s] \notin {"lock_user", "lock_owner"}
                     => req[s].user # u
  BY CommitContext
<1>d. ~Exists(r) /\ \A t \in Req : Exists(t) => tokens[t].family # r
  BY CommitContext
<1>e. \A t \in targets[r] : t \in Req /\ Exists(t) /\ tokens[t].user = u
                            /\ tokens[t] \in Rows /\ t # r
  BY CommitContext
<1>f. \A t \in Req : /\ t # r /\ t \notin targets[r] => tokens'[t] = tokens[t]
                     /\ t \in targets[r] => tokens'[t] = RevokedRow(r, t)
                     /\ t = r => tokens'[t] = IF Issues(r) THEN NewRow(r) ELSE None
  BY CommitRows
<1>g. \A t \in targets[r] : RevokedRow(r, t) \in Rows
  BY <1>a, <1>e, RevokedRowKeeps
<1>h. Issues(r) => /\ NewRow(r) \in Rows /\ NewRow(r).user = u
                   /\ NewRow(r).revoked = None
                   /\ req[r].op = "LOGIN" => NewRow(r).family = r
                   /\ req[r].op = "REFRESH" => NewRow(r).family = req[r].family
  BY NewRowIs
<1>i. \A t \in Req : /\ Exists(t) => /\ Exists(t)'
                                     /\ tokens'[t].user = tokens[t].user
                                     /\ tokens'[t].family = tokens[t].family
                     /\ Exists(t)' /\ t # r => Exists(t)
                     /\ Exists(r)' <=> Issues(r)
                     /\ Live(t)' /\ t # r => Live(t) /\ t \notin targets[r]
  BY CommitRows
<1>j. \A t \in Req : Exists(t) /\ tokens[t].user # u => tokens'[t] = tokens[t]
  BY CommitRows
<1>k. \A v \in Users : /\ users'[v].active = users[v].active
                       /\ v # u => users'[v].hash = users[v].hash
                       /\ req[r].op # "CHANGE_PASSWORD" => users'[v].hash = users[v].hash
                       /\ req[r].op = "CHANGE_PASSWORD" => users'[u].hash = req[r].new
  BY CommitUsers
<1>1. TypeOK'
  <2>1. tokens' \in [Req -> Rows \cup {None}]
    BY <1>a, <1>f, <1>g, <1>h DEF Commit, TypeOK
  <2>2. users' \in [Users -> [hash : Hashes, active : BOOLEAN]]
    <3>1. req[r].op = "CHANGE_PASSWORD" => req[r].new \in Hashes
      BY <1>a DEF IInv, PlacesOK
    <3> QED BY <1>a, <3>1 DEF Commit, TypeOK
  <2>3. Verdict(r) \in Answers
    BY <1>a DEF Verdict, Issues, Answers
  <2> QED BY <1>a, <1>b, <2>1, <2>2, <2>3, ReleaseLocksType DEF TypeOK, Commit, Places
<1>2. PlacesOK'
  BY <1>a, <1>b DEF IInv, PlacesOK, Running, TypeOK
<1>3. OwnerLocked'
  BY <1>a, <1>b DEF IInv, OwnerLocked, PlacesOK, Running, TypeOK
<1>4. IdentityOK'
  BY <1>a, <1>b, <1>i DEF IInv, IdentityOK, Running, TypeOK
<1>5. Rooted'
  <2>1. ASSUME NEW t \in Req, answer'[t] = "TOKENS"
        PROVE  Exists(t)'
    <3>1. CASE t = r
      BY <1>a, <1>b, <1>i, <2>1, <3>1 DEF Verdict, Issues, TypeOK
    <3>2. CASE t # r
      BY <1>a, <1>b, <1>i, <2>1, <3>2 DEF IInv, Rooted, TypeOK
    <3> QED BY <3>1, <3>2
  <2>2. ASSUME NEW t \in Req, Exists(t)
        PROVE  RootedRow(t)'
    <3>1. tokens[t].family \in Req
      BY <1>a, <2>2 DEF TypeOK, Rows, Exists
    <3>2. RootedRow(t)
      BY <2>2 DEF IInv, Rooted
    <3> QED BY <1>a, <1>b, <1>i, <2>2, <3>1, <3>2 DEF RootedRow, TypeOK
  <2>3. ASSUME Issues(r)
        PROVE  RootedRow(r)'
    <3>a. tokens'[r] = NewRow(r) /\ Exists(r)' /\ pc'[r] = "done"
      BY <1>a, <1>b, <1>f, <1>i, <2>3 DEF TypeOK
    <3>1. CASE req[r].op = "LOGIN"
      <4>1. req[r].seen \in Hashes
        BY <1>a, <3>1 DEF IInv, PlacesOK
      <4> QED BY <1>b, <1>h, <2>3, <3>a, <3>1, <4>1 DEF RootedRow
    <3>2. CASE req[r].op = "REFRESH"
      <4>1. PICK t \in Req : Exists(t) /\ tokens[t].family = req[r].family
                             /\ tokens[t].user = u
        BY <1>a, <3>2 DEF IInv, IdentityOK
      <4>2. req[r].family \in Req
        BY <1>a, <4>1 DEF TypeOK, Rows, Exists
      <4>3. RootedRow(t)'
        BY <2>2, <4>1
      <4> QED BY <1>b, <1>h, <1>i, <2>3, <3>a, <3>2, <4>1, <4>2, <4>3 DEF RootedRow
    <3> QED BY <1>a, <2>3, <3>1, <3>2 DEF Issues
  <2> QED BY <1>i, <2>1, <2>2, <2>3 DEF Rooted
<1>6. TargetsOK'
  <2>1. ASSUME NEW s \in Req, s # r, Running(s)
        PROVE  Running(s)' /\ pc'[s] = pc[s]
    BY <1>a, <1>b, <2>1 DEF Running, TypeOK
  <2>2. ASSUME NEW s \in Req, NEW t \in targets'[s], Running(s)'
        PROVE  Exists(t)' /\ tokens'[t].user = req'[s].user
    BY <1>a, <1>b, <1>i, <2>2 DEF IInv, TargetsOK, Running, TypeOK
  <2>3. ASSUME NEW s \in Req, pc'[s] \in {"update", "updated"}, NEW t \in Req,
               Matches(s, t)'
        PROVE  t \in targets'[s]
    <3>1. s # r /\ pc[s] \in {"update", "updated"} /\ req[s].user # u
      BY <1>a, <1>b, <1>c, <2>3 DEF Running, TypeOK
    <3>2. t # r
      <4>1. SUFFICES ASSUME t = r PROVE FALSE
        OBVIOUS
      <4>2. Issues(r)
        BY <1>i, <2>3, <4>1 DEF Matches, Live
      <4>3. tokens'[r].user # req[s].user
        BY <1>f, <1>h, <3>1, <4>2
      <4>4. req[s].op \in {"REFRESH", "LOGOUT"} /\ tokens'[r].family = req[s].family
        BY <1>b, <2>3, <4>1, <4>3 DEF Matches
      <4>5. /\ req[s].token \in Req /\ Exists(req[s].token)
            /\ tokens[req[s].token].family = req[s].family
            /\ tokens[req[s].token].user = req[s].user
        BY <3>1, <4>4 DEF IInv, IdentityOK, Running
      <4>6. req[r].op = "REFRESH" /\ req[s].family = req[r].family
        BY <1>a, <1>d, <1>f, <1>h, <4>2, <4>4, <4>5 DEF Issues
      <4>7. /\ req[r].token \in Req /\ Exists(req[r].token)
            /\ tokens[req[r].token].family = req[r].family
            /\ tokens[req[r].token].user = u
        BY <1>a, <4>6 DEF IInv, IdentityOK
      <4> QED BY <3>1, <4>5, <4>6, <4>7 DEF IInv, Rooted, RootedRow
    <3>3. Matches(s, t)
      BY <1>b, <1>i, <2>3, <3>2 DEF Matches, Live
    <3> QED BY <1>b, <3>1, <3>3 DEF IInv, TargetsOK
  <2>4. ASSUME NEW s \in Req, pc'[s] = "inserted", req'[s].op = "REFRESH"
        PROVE  targets'[s] = {req'[s].token} /\ Live(req[s].token)'
    <3>1. s # r /\ pc[s] = "inserted" /\ req[s].op = "REFRESH" /\ req[s].user # u
      BY <1>a, <1>b, <1>c, <2>4 DEF Running, TypeOK
    <3>2. /\ targets[s] = {req[s].token} /\ Live(req[s].token)
          /\ req[s].token \in Req /\ tokens[req[s].token].user = req[s].user
      BY <3>1 DEF IInv, TargetsOK, IdentityOK, Running
    <3>3. tokens'[req[s].token] = tokens[req[s].token]
      <4>1. Exists(req[s].token)
        BY <3>2 DEF Live
      <4>2. tokens[req[s].token].user # u
        BY <3>1, <3>2
      <4> HIDE DEF u
      <4> QED BY <1>j, <3>2, <4>1, <4>2
    <3>4. ASSUME NEW t \in Req, t = req[s].token
          PROVE  Live(t)'
      BY <3>2, <3>3, <3>4 DEF Live, Exists
    <3>5. req'[s] = req[s] /\ targets'[s] = targets[s]
      BY <1>b
    <3> QED BY <3>2, <3>4, <3>5
  <2>5. ASSUME NEW s \in Req
        PROVE  /\ pc'[s] \in {"lock_user", "lock_owner", "lock_token", "issue",
                              "decide", "idle"} => targets'[s] = {}
               /\ pc'[s] = "inserted" /\ req'[s].op = "LOGIN" => targets'[s] = {}
    <3>1. pc'[s] # "done" => pc'[s] = pc[s]
      BY <1>a, <1>b DEF TypeOK
    <3>2. /\ pc[s] \in {"lock_user", "lock_owner", "lock_token", "issue",
                       "decide", "idle"} => targets[s] = {}
          /\ pc[s] = "inserted" /\ req[s].op = "LOGIN" => targets[s] = {}
      BY DEF IInv, TargetsOK
    <3>3. req'[s] = req[s] /\ targets'[s] = targets[s]
      BY <1>b
    <3> QED BY <3>1, <3>2, <3>3
  <2> QED BY <2>2, <2>3, <2>4, <2>5 DEF TargetsOK
<1>7. SeenIsCurrent'
  <2>1. ASSUME NEW s \in Req, req'[s].op \in {"LOGIN", "CHANGE_PASSWORD"},
               Running(s)', pc'[s] # "lock_user"
        PROVE  users'[req'[s].user].hash = req'[s].seen
    <3>1. s # r /\ Running(s) /\ pc[s] = pc'[s]
      BY <1>a, <1>b, <2>1 DEF Running, TypeOK
    <3>2. pc[s] # "lock_owner" /\ req[s].user \in Users
      BY <1>b, <2>1, <3>1 DEF IInv, PlacesOK
    <3>3. users[req[s].user].hash = req[s].seen
      BY <1>b, <2>1, <3>1 DEF IInv, SeenIsCurrent
    <3> QED BY <1>b, <1>c, <1>k, <2>1, <3>1, <3>2, <3>3
  <2> QED BY <2>1 DEF SeenIsCurrent
\* The token a rotation replaces was the family's live one.
<1>l. ASSUME Issues(r), NEW s \in Req, Live(s), s \notin targets[r],
             tokens[s].family = NewRow(r).family
      PROVE  FALSE
  <2>1. req[r].op = "REFRESH"
    BY <1>a, <1>d, <1>h, <1>l DEF Issues, Live
  <2>2. /\ targets[r] = {req[r].token} /\ Live(req[r].token) /\ req[r].token \in Req
        /\ tokens[req[r].token].family = req[r].family
    BY <1>a, <1>l, <2>1 DEF IInv, TargetsOK, IdentityOK, Issues
  <2> QED BY <1>h, <1>l, <2>1, <2>2 DEF IInv, OneLivePerFamily
<1>8. OneLivePerFamily'
  <2>1. ASSUME NEW s \in Req, NEW t \in Req, Live(s)', Live(t)',
               tokens'[s].family = tokens'[t].family, s # r
        PROVE  s = t
    <3>1. Live(s) /\ s \notin targets[r] /\ tokens'[s].family = tokens[s].family
      BY <1>i, <2>1 DEF Live
    <3>2. CASE t = r
      BY <1>f, <1>i, <1>l, <2>1, <3>1, <3>2 DEF Live
    <3>3. CASE t # r
      BY <1>i, <2>1, <3>1, <3>3 DEF IInv, OneLivePerFamily, Live
    <3> QED BY <3>2, <3>3
  <2> QED BY <2>1 DEF OneLivePerFamily
<1>9. LiveSessionsMatchPassword'
  <2>1. ASSUME NEW t \in Req, Live(t)', t # r
        PROVE  req'[tokens'[t].family].seen = users'[tokens'[t].user].hash
    <3>1. /\ Live(t) /\ t \notin targets[r] /\ tokens'[t].family = tokens[t].family
          /\ tokens'[t].user = tokens[t].user /\ tokens[t].user \in Users
      BY <1>a, <1>i, <2>1 DEF Live, Exists, TypeOK, Rows
    <3>2. req[r].op = "CHANGE_PASSWORD" => tokens[t].user # u
      BY <1>a, <3>1 DEF IInv, TargetsOK, Matches
    <3> QED BY <1>b, <1>k, <3>1, <3>2 DEF IInv, LiveSessionsMatchPassword
  <2>2. ASSUME Issues(r)
        PROVE  req'[tokens'[r].family].seen = users'[tokens'[r].user].hash
    <3>1. CASE req[r].op = "LOGIN"
      BY <1>a, <1>b, <1>f, <1>h, <1>k, <2>2, <3>1 DEF IInv, SeenIsCurrent, Issues
    <3>2. CASE req[r].op = "REFRESH"
      <4>1. /\ Live(req[r].token) /\ req[r].token \in Req
            /\ tokens[req[r].token].family = req[r].family
            /\ tokens[req[r].token].user = u
        BY <1>a, <2>2, <3>2 DEF IInv, TargetsOK, IdentityOK, Issues
      <4> QED BY <1>a, <1>b, <1>f, <1>h, <1>k, <2>2, <3>2, <4>1
              DEF IInv, LiveSessionsMatchPassword
    <3> QED BY <1>a, <2>2, <3>1, <3>2 DEF Issues
  <2> QED BY <1>i, <2>1, <2>2 DEF LiveSessionsMatchPassword, Live
<1> QED BY <1>1, <1>2, <1>3, <1>4, <1>5, <1>6, <1>7, <1>8, <1>9 DEF IInv

\* A rollback at any place.
LEMMA AbortStep ==
  ASSUME IInv, NEW r \in Req, Abort(r)
  PROVE  IInv'
<1> USE NoneAssumption DEF IInv, TypeOK, Goto, data, locks, Abort, Rollback, ReleaseLocks, Reply
<1>1. TypeOK'
  BY DEF Requests, Places, Answers, AllOps, Hashes
<1>2. PlacesOK'
  BY DEF PlacesOK, Running, AllOps
<1>3. OwnerLocked'
  BY DEF OwnerLocked, PlacesOK, Running
<1>4. IdentityOK'
  BY DEF IdentityOK, PlacesOK, Running, Exists, Rooted, RootedRow, Rows
<1>5. Rooted'
  BY DEF Rooted, RootedRow, Exists, Rows
<1>6. TargetsOK'
  BY DEF TargetsOK, Running, Live, Exists, Matches, PlacesOK, AllOps
<1>7. SeenIsCurrent'
  BY DEF SeenIsCurrent, Running, PlacesOK, OwnerLocked
<1>8. OneLivePerFamily'
  BY DEF OneLivePerFamily, Live, Exists
<1>9. LiveSessionsMatchPassword'
  BY DEF LiveSessionsMatchPassword, Live, Exists, Rooted, RootedRow, Rows
<1> QED BY <1>1, <1>2, <1>3, <1>4, <1>5, <1>6, <1>7, <1>8, <1>9

-----------------------------------------------------------------------------
(* The environment *)

\* An operator's change of is_active touches no hash and no token.
LEMMA SetActiveStep ==
  ASSUME IInv, NEW u \in Users, SetActive(u)
  PROVE  IInv'
<1>1. /\ UNCHANGED <<clock, tokens, userLock, tokenLock, pc, req, now, targets, answer>>
      /\ users' \in [Users -> [hash : Hashes, active : BOOLEAN]]
      /\ \A v \in Users : users'[v].hash = users[v].hash
  BY DEF SetActive, locks, local, IInv, TypeOK
<1>2. TypeOK'
  BY <1>1 DEF IInv, TypeOK
<1>3. SeenIsCurrent'
  BY <1>1 DEF IInv, SeenIsCurrent, PlacesOK, Running
<1>4. LiveSessionsMatchPassword'
  BY <1>1, NoneAssumption
     DEF IInv, LiveSessionsMatchPassword, Live, Exists, TypeOK, Rows
<1>5. (PlacesOK /\ OwnerLocked /\ IdentityOK)'
  BY <1>1 DEF IInv, PlacesOK, OwnerLocked, IdentityOK, Running, Exists
<1>6. (Rooted /\ TargetsOK /\ OneLivePerFamily)'
  BY <1>1 DEF IInv, Rooted, RootedRow, TargetsOK, OneLivePerFamily, Running,
              Matches, Live, Exists
<1> QED BY <1>2, <1>3, <1>4, <1>5, <1>6 DEF IInv

\* Nothing but TypeOK looks at the clock.
LEMMA TickStep ==
  ASSUME IInv, UNCHANGED <<data, locks, local>>, clock' \in Times
  PROVE  IInv'
BY DEF IInv, data, locks, local, TypeOK, PlacesOK, OwnerLocked, IdentityOK, Rooted,
       RootedRow, TargetsOK, SeenIsCurrent, OneLivePerFamily,
       LiveSessionsMatchPassword, Running, Matches, Live, Exists

-----------------------------------------------------------------------------
(* The inductive invariant *)

\* Init establishes it: nothing is locked, running or stored.
LEMMA InitIInv == Init => IInv
<1> SUFFICES ASSUME Init PROVE IInv
  OBVIOUS
<1>1. TypeOK
  BY ConstantsAssumption
     DEF Init, TypeOK, Times, Hashes, Places, Requests, NoRequest
<1>2. PlacesOK /\ OwnerLocked /\ IdentityOK /\ SeenIsCurrent
  BY DEF Init, PlacesOK, OwnerLocked, IdentityOK, SeenIsCurrent, Running
<1>3. \A t \in Req : ~Exists(t)
  BY DEF Init, Exists
<1>4. Rooted /\ TargetsOK
  <2>1. \A r \in Req : answer[r] # "TOKENS" /\ targets[r] = {} /\ pc[r] = "idle"
    BY NoneAssumption DEF Init, Answers
  <2> QED BY <1>3, <2>1 DEF Rooted, TargetsOK
<1>5. OneLivePerFamily /\ LiveSessionsMatchPassword
  BY <1>3 DEF OneLivePerFamily, LiveSessionsMatchPassword, Live
<1> QED BY <1>1, <1>2, <1>4, <1>5 DEF IInv

\* Every step preserves it.
LEMMA NextIInv == IInv /\ [Next]_vars => IInv'
<1> SUFFICES ASSUME IInv, [Next]_vars PROVE IInv'
  OBVIOUS
<1>1. ASSUME NEW r \in Req, Arrival(r) PROVE IInv'
  BY <1>1, LoginSnapshotStep, LoginUnknownStep, PresentTokenStep,
     UnauthenticatedStep, LogoutAllStartStep, ChangePasswordStartStep DEF Arrival
<1>2. ASSUME NEW r \in Req, Advance(r) PROVE IInv'
  BY <1>2, LockUserStep, IssueTokensStep, LockOwnerStep, LockTokenStep,
     RefreshDecideStep, BeginUpdateStep, ApplyUpdateStep, CommitStep DEF Advance
<1>3. ASSUME NEW r \in Req, Abort(r) PROVE IInv'
  BY <1>3, AbortStep
<1>4. ASSUME NEW u \in Users, SetActive(u) PROVE IInv'
  BY <1>4, SetActiveStep
<1>5. CASE Tick
  <2>1. clock' \in Times
    BY <1>5, ConstantsAssumption DEF Tick, IInv, TypeOK, Times
  <2> QED BY <1>5, <2>1, TickStep DEF Tick
<1>6. CASE UNCHANGED vars
  BY <1>6, TickStep DEF vars, data, locks, local, IInv, TypeOK
<1> QED BY <1>1, <1>2, <1>3, <1>4, <1>5, <1>6 DEF Next, Terminated

\* IInv holds in every reachable state.
THEOREM Invariance == Spec => []IInv
BY InitIInv, NextIInv, PTL DEF Spec

\* Every reachable state is well typed.
THEOREM TypeCorrect == Spec => []TypeOK
<1>1. IInv => TypeOK
  BY DEF IInv
<1> QED BY <1>1, Invariance, PTL

\* No sign-in ever has two usable refresh tokens (AuthService.refresh).
THEOREM SingleLiveToken == Spec => []OneLivePerFamily
<1>1. IInv => OneLivePerFamily
  BY DEF IInv
<1> QED BY <1>1, Invariance, PTL

\* A live session was opened with the password its account has now (login's
\* recheck and change_password's revocation, both under the user's lock).
THEOREM PasswordEndsSessions == Spec => []LiveSessionsMatchPassword
<1>1. IInv => LiveSessionsMatchPassword
  BY DEF IInv
<1> QED BY <1>1, Invariance, PTL
=============================================================================
