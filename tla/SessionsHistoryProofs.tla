------------------------ MODULE SessionsHistoryProofs ------------------------
(***************************************************************************)
(* Proofs about Sessions that need its history: HInv (in                   *)
(* SessionsProperties) is IInv with what the rows, the answers and the     *)
(* locks say of the requests that made them.  It is inductive, and the     *)
(* properties about rotation, revocation, supply and locks follow from it. *)
(***************************************************************************)
EXTENDS SessionsProofs

-----------------------------------------------------------------------------
(* Steps that leave the data alone *)

\* The answers that a commit, and nothing else, gives.
Committed == {"TOKENS", "LOGGED_OUT", "LOGGED_OUT_ALL", "REUSED", "CHANGED"}

\* A step of r's own that writes no row: every one but its commit.
Quiet(r) ==
  /\ UNCHANGED <<clock, users, tokens>>
  /\ \A s \in Req : s # r =>
       /\ pc'[s] = pc[s] /\ req'[s] = req[s] /\ now'[s] = now[s]
       /\ targets'[s] = targets[s] /\ answer'[s] = answer[s]
       /\ \A u \in Users : userLock'[u] = s => userLock[u] = s
       /\ \A t \in Req : tokenLock'[t] = s => tokenLock[t] = s
  /\ pc[r] # "done"
  /\ pc[r] = "idle" \/ req'[r] = req[r]
  /\ answer'[r] \notin Committed
  /\ answer'[r] # None => pc'[r] = "done"

\* What History says of r while r runs.
Own(r) == LocksOK(r) /\ Confirmed(r) /\ FamilyTargets(r) /\ Timely(r) /\ SaltOK(r)

\* Request r may take its step: everything HInv says of requests in general.
LEMMA HInvUse ==
  ASSUME HInv, NEW r \in Req
  PROVE  /\ IInv /\ TypeOK
         /\ LocksOK(r) /\ Confirmed(r) /\ FamilyTargets(r) /\ Timely(r) /\ SaltOK(r)
         /\ answer[r] # None => pc[r] = "done"
         /\ Inserted(r) /\ Replaced(r) /\ RevocationHolds(r) /\ ChangeHolds(r)
BY DEF HInv, History, IInv

\* The requests behind a row have been answered: its own and its family's.
LEMMA RowsAreOld ==
  ASSUME IInv, NEW t \in Req, Exists(t)
  PROVE  /\ tokens[t] \in Rows /\ tokens[t].family \in Req /\ tokens[t].user \in Users
         /\ pc[t] = "done" /\ pc[tokens[t].family] = "done" /\ Exists(tokens[t].family)
         /\ tokens[tokens[t].family].user = tokens[t].user
         /\ req[tokens[t].family].seen \in Hashes
<1>1. tokens[t] \in Rows
  BY DEF IInv, TypeOK, Exists
<1>2. RootedRow(t)
  BY DEF IInv, Rooted
<1> QED BY <1>1, <1>2 DEF RootedRow, Rows

\* A salt in use stays in use as long as no answered change is taken back.
LEMMA UsedStays ==
  ASSUME \A s \in Req : answer[s] = "CHANGED" => answer'[s] = "CHANGED"
  PROVE  \A h \in Hashes : Used(h) => h.salt = None \/ answer'[h.salt] = "CHANGED"
BY DEF Used, Hashes

\* A quiet step disturbs nobody else's history, and writes none.
LEMMA QuietOthers ==
  ASSUME HInv, NEW r \in Req, Quiet(r), NEW s \in Req, s # r
  PROVE  History(s)'
<1> USE DEF Quiet
<1>1. /\ IInv /\ TypeOK
      /\ LocksOK(s) /\ Confirmed(s) /\ FamilyTargets(s) /\ Timely(s) /\ SaltOK(s)
      /\ answer[s] # None => pc[s] = "done"
      /\ Inserted(s) /\ Replaced(s) /\ RevocationHolds(s) /\ ChangeHolds(s)
  BY HInvUse
<1>2. \A t \in Req : Exists(t) =>
        /\ t # r /\ tokens[t].family # r /\ tokens[t].family \in Req
  BY <1>1, RowsAreOld
<1>3. answer[r] = None
  BY HInvUse
<1>4. LocksOK(s)' /\ Confirmed(s)' /\ FamilyTargets(s)'
  BY <1>1 DEF LocksOK, Confirmed, FamilyTargets, Running, Exists
<1>5. Timely(s)'
  BY <1>1, <1>2 DEF Timely, NowRead, Exists
<1>6. SaltOK(s)'
  <2>1. req[s].seen \in Hashes \cup {None}
    BY <1>1 DEF TypeOK, Requests
  <2>2. \A q \in Req : answer[q] = "CHANGED" => answer'[q] = "CHANGED"
    BY <1>3, NoneAssumption DEF Answers
  <2> QED BY <1>1, <2>1, <2>2, UsedStays DEF SaltOK, Used, Running
<1>7. Inserted(s)' /\ Replaced(s)'
  <2>1. Exists(s) => tokens[s].next \in Req \cup {None}
    BY <1>1, RowsAreOld DEF Rows
  <2>2. Inserted(s)'
    BY <1>1, <1>2 DEF Inserted, Exists
  <2>3. Replaced(s)'
    BY <1>1, <1>2, <2>1 DEF Replaced, Exists, Live
  <2> QED BY <2>2, <2>3
<1>8. RevocationHolds(s)'
  BY <1>1, <1>2 DEF RevocationHolds, Ended, Family, Exists, Live
<1>9. ChangeHolds(s)'
  BY <1>1, <1>2 DEF ChangeHolds, Exists
<1> QED BY <1>1, <1>4, <1>5, <1>6, <1>7, <1>8, <1>9 DEF History

\* So HInv survives it if what it says of r itself does.
LEMMA QuietStep ==
  ASSUME HInv, NEW r \in Req, Quiet(r), Own(r)', IInv'
  PROVE  HInv'
<1> USE DEF Quiet
<1>1. IInv /\ TypeOK /\ answer[r] = None /\ ~Exists(r)
  BY HInvUse, RowsAreOld
<1>2. \A u \in Users : Used(users[u].hash)'
  <2>1. \A u \in Users : users[u].hash \in Hashes
    BY <1>1 DEF TypeOK
  <2>2. \A q \in Req : answer[q] = "CHANGED" => answer'[q] = "CHANGED"
    BY <1>1, NoneAssumption DEF Answers
  <2> QED BY <2>1, <2>2, UsedStays DEF HInv, Used
<1>3. History(r)'
  BY <1>1 DEF Own, History, Inserted, Replaced, RevocationHolds, ChangeHolds, Exists, Committed
<1>4. \A s \in Req : History(s)'
  BY <1>3, QuietOthers
<1> QED BY <1>2, <1>4 DEF HInv

-----------------------------------------------------------------------------
(* Arrivals *)

\* Nothing has been locked, read under a lock or planned for a request that has
\* just arrived, so History asks little of it.
LEMMA ArrivalOwn ==
  ASSUME HInv, NEW r \in Req, pc[r] = "idle",
         UNCHANGED <<clock, users, tokens, userLock, tokenLock, targets>>,
         now'[r] <= clock,
         pc'[r] \in {"lock_user", "lock_owner", "done"},
         pc'[r] = "lock_user" => req'[r].op \notin {"REFRESH", "LOGOUT"},
         pc'[r] = "lock_owner" => req'[r].op \in {"REFRESH", "LOGOUT"},
         req'[r].seen = None \/ \E u \in Users : req'[r].seen = users[u].hash,
         req'[r].op = "CHANGE_PASSWORD" => req'[r].new.salt = r \/ pc'[r] = "done",
         \A h \in Hashes : Used(h) => h.salt = None \/ answer'[h.salt] = "CHANGED"
  PROVE  Own(r)'
<1>1. targets[r] = {} /\ TypeOK /\ LocksOK(r)
  BY HInvUse DEF IInv, TargetsOK
<1>2. LocksOK(r)' /\ FamilyTargets(r)'
  BY <1>1 DEF LocksOK, FamilyTargets, Running
<1>3. Confirmed(r)'
  BY DEF Confirmed, Running
<1>4. Timely(r)'
  BY DEF Timely, NowRead
<1>5. SaltOK(r)'
  <2>1. \A u \in Users : Used(users[u].hash) /\ users[u].hash \in Hashes
    BY <1>1 DEF HInv, TypeOK
  <2> QED BY <2>1 DEF SaltOK, Used, Running
<1> QED BY <1>2, <1>3, <1>4, <1>5 DEF Own

\* The parts of Quiet that every arrival and every rollback shares.
LEMMA QuietHere ==
  ASSUME HInv, NEW r \in Req, pc[r] # "done",
         UNCHANGED <<clock, users, tokens>>,
         pc[r] = "idle" \/ req' = req,
         \A s \in Req : s # r =>
           /\ pc'[s] = pc[s] /\ req'[s] = req[s] /\ now'[s] = now[s]
           /\ targets'[s] = targets[s] /\ answer'[s] = answer[s]
           /\ \A u \in Users : userLock'[u] = s => userLock[u] = s
           /\ \A t \in Req : tokenLock'[t] = s => tokenLock[t] = s,
         \/ answer'[r] = answer[r]
         \/ answer'[r] \in Answers \ Committed /\ pc'[r] = "done"
  PROVE  /\ Quiet(r)
         /\ \A h \in Hashes : Used(h) => h.salt = None \/ answer'[h.salt] = "CHANGED"
<1>1. answer[r] = None /\ None \notin Committed
  BY HInvUse, NoneAssumption DEF Answers, Committed
<1>2. Quiet(r)
  BY <1>1 DEF Quiet
<1>3. \A q \in Req : answer[q] = "CHANGED" => answer'[q] = "CHANGED"
  BY <1>1, NoneAssumption DEF Answers
<1> QED BY <1>2, <1>3, UsedStays

\* Each arrival is quiet.
LEMMA ArrivalQuiet ==
  ASSUME HInv, NEW r \in Req, Arrival(r)
  PROVE  Quiet(r) /\ Own(r)'
<1>a. IInv /\ TypeOK /\ now[r] <= clock
  BY HInvUse DEF Timely
<1>1. ASSUME NEW u \in Users, NEW p \in Passwords, LoginSnapshot(r, u, p)
      PROVE  Quiet(r) /\ Own(r)'
  <2> USE DEF LoginSnapshot, Arrive, Goto, Reply, data, locks
  <2>1. /\ pc[r] = "idle" /\ now' = now
        /\ UNCHANGED <<clock, users, tokens, userLock, tokenLock, targets>>
        /\ req'[r].op = "LOGIN" /\ req'[r].seen = users[u].hash
        /\ \A s \in Req : s # r => pc'[s] = pc[s] /\ req'[s] = req[s]
                                   /\ answer'[s] = answer[s]
        /\ pc'[r] \in {"lock_user", "done"}
        /\ \/ answer'[r] = answer[r]
           \/ answer'[r] = "INVALID_CREDENTIALS" /\ pc'[r] = "done"
    BY <1>a, <1>1 DEF TypeOK
  <2>2. Quiet(r) /\ \A h \in Hashes : Used(h) => h.salt = None \/ answer'[h.salt] = "CHANGED"
    BY <2>1, QuietHere DEF Answers, Committed
  <2> QED BY ONLY HInv, <1>a, <2>1, <2>2, ArrivalOwn
<1>2. ASSUME LoginUnknown(r)
      PROVE  Quiet(r) /\ Own(r)'
  <2> USE DEF LoginUnknown, Arrive, Goto, Reply, data, locks
  <2>1. /\ pc[r] = "idle" /\ now' = now
        /\ UNCHANGED <<clock, users, tokens, userLock, tokenLock, targets>>
        /\ req'[r].op = "LOGIN" /\ req'[r].seen = None
        /\ \A s \in Req : s # r => pc'[s] = pc[s] /\ req'[s] = req[s]
                                   /\ answer'[s] = answer[s]
        /\ answer'[r] = "INVALID_CREDENTIALS" /\ pc'[r] = "done"
    BY <1>a, <1>2 DEF TypeOK
  <2>2. Quiet(r) /\ \A h \in Hashes : Used(h) => h.salt = None \/ answer'[h.salt] = "CHANGED"
    BY <2>1, QuietHere DEF Answers, Committed
  <2> QED BY ONLY HInv, <1>a, <2>1, <2>2, ArrivalOwn
<1>3. ASSUME NEW t \in Req, NEW op \in {"REFRESH", "LOGOUT"}, PresentToken(r, op, t)
      PROVE  Quiet(r) /\ Own(r)'
  <2> USE DEF PresentToken, Arrive, Goto, Reply, data, locks
  <2>1. /\ pc[r] = "idle" /\ now' = now
        /\ UNCHANGED <<clock, users, tokens, userLock, tokenLock, targets>>
        /\ req'[r].op = op /\ req'[r].seen = None
        /\ \A s \in Req : s # r => pc'[s] = pc[s] /\ req'[s] = req[s]
                                   /\ answer'[s] = answer[s]
        /\ pc'[r] \in {"lock_owner", "done"}
        /\ \/ answer'[r] = answer[r]
           \/ answer'[r] = "INVALID_REFRESH" /\ pc'[r] = "done"
    BY <1>a, <1>3 DEF TypeOK
  <2>2. Quiet(r) /\ \A h \in Hashes : Used(h) => h.salt = None \/ answer'[h.salt] = "CHANGED"
    BY <2>1, QuietHere DEF Answers, Committed
  <2> QED BY ONLY HInv, <1>a, <2>1, <2>2, ArrivalOwn
<1>4. ASSUME NEW a \in Req, NEW op \in {"LOGOUT_ALL", "CHANGE_PASSWORD"},
             Unauthenticated(r, op, a)
      PROVE  Quiet(r) /\ Own(r)'
  <2> USE DEF Unauthenticated, Arrive, Goto, Reply, data, locks
  <2>1. /\ pc[r] = "idle" /\ now' = now
        /\ UNCHANGED <<clock, users, tokens, userLock, tokenLock, targets>>
        /\ req'[r].op = op /\ req'[r].seen = None
        /\ \A s \in Req : s # r => pc'[s] = pc[s] /\ req'[s] = req[s]
                                   /\ answer'[s] = answer[s]
        /\ answer'[r] = "UNAUTHENTICATED" /\ pc'[r] = "done"
    BY <1>a, <1>4 DEF TypeOK
  <2>2. Quiet(r) /\ \A h \in Hashes : Used(h) => h.salt = None \/ answer'[h.salt] = "CHANGED"
    BY <2>1, QuietHere DEF Answers, Committed
  <2> QED BY ONLY HInv, <1>a, <2>1, <2>2, ArrivalOwn
<1>5. ASSUME NEW a \in Req, LogoutAllStart(r, a)
      PROVE  Quiet(r) /\ Own(r)'
  <2> USE DEF LogoutAllStart, Arrive, Goto, data, locks
  <2>1. /\ pc[r] = "idle" /\ now'[r] = clock /\ answer' = answer
        /\ UNCHANGED <<clock, users, tokens, userLock, tokenLock, targets>>
        /\ req'[r].op = "LOGOUT_ALL" /\ req'[r].seen = None
        /\ \A s \in Req : s # r => pc'[s] = pc[s] /\ req'[s] = req[s]
                                   /\ now'[s] = now[s]
        /\ pc'[r] = "lock_user"
    BY <1>a, <1>5 DEF TypeOK
  <2>2. Quiet(r) /\ \A h \in Hashes : Used(h) => h.salt = None \/ answer'[h.salt] = "CHANGED"
    BY <2>1, QuietHere
  <2>3. now'[r] <= clock
    BY <1>a, <2>1 DEF TypeOK, Times
  <2> QED BY ONLY HInv, <1>a, <2>1, <2>2, <2>3, ArrivalOwn
<1>6. ASSUME NEW a \in Req, NEW p \in Passwords, NEW q \in Passwords,
             ChangePasswordStart(r, a, p, q)
      PROVE  Quiet(r) /\ Own(r)'
  <2> USE DEF ChangePasswordStart, Arrive, Goto, Reply, data, locks
  <2>0. tokens[a].user \in Users
    <3>1. answer[a] = "TOKENS"
      BY <1>6 DEF Authenticates, AccessValid
    <3> QED BY <1>a, <3>1, RowsAreOld DEF IInv, Rooted
  <2>1. /\ pc[r] = "idle" /\ now' = now
        /\ UNCHANGED <<clock, users, tokens, userLock, tokenLock, targets>>
        /\ req'[r].op = "CHANGE_PASSWORD" /\ req'[r].seen = users[tokens[a].user].hash
        /\ req'[r].new.salt = r
        /\ \A s \in Req : s # r => req'[s] = req[s]
    BY <1>a, <1>6 DEF TypeOK
  <2>2. /\ \A s \in Req : s # r => pc'[s] = pc[s] /\ answer'[s] = answer[s]
        /\ pc'[r] \in {"lock_user", "done"}
        /\ \/ answer'[r] = answer[r]
           \/ answer'[r] \in {"WRONG_PASSWORD", "PASSWORD_REUSE"} /\ pc'[r] = "done"
    <3> DEFINE hash == users[tokens[a].user].hash
    <3>1. \/ Reply(r, "WRONG_PASSWORD") \/ Reply(r, "PASSWORD_REUSE")
          \/ Goto(r, "lock_user") /\ UNCHANGED answer
      <4>1. CASE p # hash.plain
        BY <1>6, <4>1
      <4>2. CASE p = hash.plain /\ q = hash.plain
        BY <1>6, <4>2
      <4>3. CASE p = hash.plain /\ q # hash.plain
        BY <1>6, <4>3
      <4> QED BY <4>1, <4>2, <4>3
    <3> QED BY <1>a, <3>1 DEF TypeOK
  <2>3. Quiet(r) /\ \A h \in Hashes : Used(h) => h.salt = None \/ answer'[h.salt] = "CHANGED"
    BY <2>1, <2>2, QuietHere DEF Answers, Committed
  <2> QED BY ONLY HInv, <1>a, <2>0, <2>1, <2>2, <2>3, ArrivalOwn
<1> QED BY <1>1, <1>2, <1>3, <1>4, <1>5, <1>6 DEF Arrival

-----------------------------------------------------------------------------
(* Under locks *)

\* SaltOK of a request that goes on, or is answered, without another hash.
LEMMA SaltKept ==
  ASSUME HInv, NEW r \in Req, req' = req, Running(r),
         \A h \in Hashes : Used(h) => h.salt = None \/ answer'[h.salt] = "CHANGED"
  PROVE  SaltOK(r)'
<1>1. SaltOK(r) /\ req[r].seen \in Hashes \cup {None}
  BY HInvUse DEF TypeOK, Requests
<1> QED BY <1>1 DEF SaltOK, Used, Running

\* A rollback is quiet, and leaves nothing to say of the request.
LEMMA RollbackQuiet ==
  ASSUME HInv, NEW r \in Req, Running(r), NEW code \in Answers \ Committed,
         Rollback(r, code), UNCHANGED <<clock, req>>,
         now'[r] <= clock,
         \A s \in Req : s # r => now'[s] = now[s] /\ targets'[s] = targets[s]
  PROVE  Quiet(r) /\ Own(r)'
<1>1. IInv /\ TypeOK
  BY HInvUse
<1>2. /\ UNCHANGED <<users, tokens>>
      /\ \A u \in Users : userLock'[u] # r /\ (userLock'[u] = userLock[u] \/ userLock'[u] = None)
      /\ \A t \in Req : tokenLock'[t] # r /\ (tokenLock'[t] = tokenLock[t] \/ tokenLock'[t] = None)
      /\ pc'[r] = "done" /\ answer'[r] = code
      /\ \A s \in Req : s # r => pc'[s] = pc[s] /\ answer'[s] = answer[s]
  BY <1>1, NoneAssumption DEF Rollback, ReleaseLocks, Reply, Goto, TypeOK
<1>3. Quiet(r) /\ \A h \in Hashes : Used(h) => h.salt = None \/ answer'[h.salt] = "CHANGED"
  BY <1>2, QuietHere, NoneAssumption DEF Running
<1>4. SaltOK(r)'
  BY <1>3, SaltKept
<1>5. LocksOK(r)' /\ Confirmed(r)' /\ FamilyTargets(r)' /\ Timely(r)'
  BY <1>2 DEF LocksOK, Confirmed, FamilyTargets, Timely, NowRead, Running
<1> QED BY <1>3, <1>4, <1>5 DEF Own

\* The parts of Quiet that every step without an answer shares.
LEMMA QuietOn ==
  ASSUME HInv, NEW r \in Req, Running(r),
         UNCHANGED <<clock, users, tokens, req, answer>>,
         \A s \in Req : s # r =>
           /\ pc'[s] = pc[s] /\ now'[s] = now[s] /\ targets'[s] = targets[s]
           /\ \A u \in Users : userLock'[u] = s => userLock[u] = s
           /\ \A t \in Req : tokenLock'[t] = s => tokenLock[t] = s
  PROVE  Quiet(r) /\ SaltOK(r)'
<1>1. Quiet(r) /\ \A h \in Hashes : Used(h) => h.salt = None \/ answer'[h.salt] = "CHANGED"
  BY QuietHere DEF Running
<1> QED BY <1>1, SaltKept

\* The locking read of login, logout-all and change_password.
LEMMA LockUserQuiet ==
  ASSUME HInv, NEW r \in Req, LockUser(r)
  PROVE  Quiet(r) /\ Own(r)'
<1> DEFINE u == req[r].user
<1>1. /\ IInv /\ TypeOK /\ Running(r) /\ pc[r] = "lock_user" /\ targets[r] = {}
      /\ u \in Users /\ req[r].op \in {"LOGIN", "LOGOUT_ALL", "CHANGE_PASSWORD"}
      /\ LocksOK(r) /\ Timely(r)
  BY HInvUse DEF IInv, PlacesOK, TargetsOK, LockUser, Running, AllOps
<1>2. CASE Recheck(r)
  <2>1. /\ userLock' = [userLock EXCEPT ![u] = r]
        /\ pc' = [pc EXCEPT ![r] = IF req[r].op = "LOGIN" THEN "issue" ELSE "revoke"]
        /\ UNCHANGED <<clock, users, tokens, tokenLock, req, now, targets, answer>>
        /\ users[u].active
    BY <1>2 DEF LockUser, Goto, data, Recheck
  <2>2. Quiet(r) /\ SaltOK(r)'
    BY <1>1, <2>1, QuietOn DEF TypeOK
  <2>3. LocksOK(r)'
    BY <1>1, <2>1 DEF LocksOK, Running, TypeOK
  <2>4. Confirmed(r)' /\ FamilyTargets(r)' /\ Timely(r)'
    BY <1>1, <2>1 DEF Confirmed, FamilyTargets, Timely, NowRead, TypeOK
  <2> QED BY <2>2, <2>3, <2>4 DEF Own
<1>3. CASE ~Recheck(r)
  <2>1. PICK code \in Answers \ Committed : Rollback(r, code)
    BY <1>3 DEF LockUser, Answers, Committed
  <2> QED BY <1>1, <2>1, RollbackQuiet DEF LockUser, Timely
<1> QED BY <1>2, <1>3

\* login inserts its token row.
LEMMA IssueTokensQuiet ==
  ASSUME HInv, NEW r \in Req, IssueTokens(r)
  PROVE  Quiet(r) /\ Own(r)'
<1>1. /\ IInv /\ TypeOK /\ Running(r) /\ pc[r] = "issue" /\ targets[r] = {}
      /\ req[r].op = "LOGIN" /\ LocksOK(r) /\ Confirmed(r) /\ Timely(r)
  BY HInvUse DEF IInv, PlacesOK, TargetsOK, IssueTokens, Running, AllOps
<1>2. /\ now' = [now EXCEPT ![r] = clock] /\ pc' = [pc EXCEPT ![r] = "inserted"]
      /\ UNCHANGED <<clock, users, tokens, userLock, tokenLock, req, targets, answer>>
  BY DEF IssueTokens, Goto, data, locks
<1>3. Quiet(r) /\ SaltOK(r)'
  BY <1>1, <1>2, QuietOn DEF TypeOK
<1>4. LocksOK(r)' /\ Confirmed(r)' /\ FamilyTargets(r)'
  BY <1>1, <1>2 DEF LocksOK, Confirmed, FamilyTargets, Running, TypeOK, Exists
<1>5. Timely(r)'
  BY <1>1, <1>2 DEF Timely, NowRead, TypeOK, Times
<1> QED BY <1>3, <1>4, <1>5 DEF Own

\* refresh and logout lock the owner.
LEMMA LockOwnerQuiet ==
  ASSUME HInv, NEW r \in Req, LockOwner(r)
  PROVE  Quiet(r) /\ Own(r)'
<1>1. /\ IInv /\ TypeOK /\ Running(r) /\ pc[r] = "lock_owner" /\ targets[r] = {}
      /\ req[r].user \in Users /\ req[r].op \in {"REFRESH", "LOGOUT"}
      /\ LocksOK(r) /\ Timely(r)
  BY HInvUse DEF IInv, PlacesOK, TargetsOK, LockOwner, Running, AllOps
<1>2. /\ userLock' = [userLock EXCEPT ![req[r].user] = r]
      /\ pc' = [pc EXCEPT ![r] = "lock_token"]
      /\ UNCHANGED <<clock, users, tokens, tokenLock, req, now, targets, answer>>
  BY DEF LockOwner, Goto, data
<1>3. Quiet(r) /\ SaltOK(r)'
  BY <1>1, <1>2, QuietOn DEF TypeOK
<1>4. LocksOK(r)'
  BY <1>1, <1>2 DEF LocksOK, Running, TypeOK
<1>5. Confirmed(r)' /\ FamilyTargets(r)' /\ Timely(r)'
  BY <1>1, <1>2 DEF Confirmed, FamilyTargets, Timely, NowRead, TypeOK
<1> QED BY <1>3, <1>4, <1>5 DEF Own

\* refresh and logout lock the token.
LEMMA LockTokenQuiet ==
  ASSUME HInv, NEW r \in Req, LockToken(r)
  PROVE  Quiet(r) /\ Own(r)'
<1> DEFINE t == req[r].token
<1>1. /\ IInv /\ TypeOK /\ Running(r) /\ pc[r] = "lock_token" /\ targets[r] = {}
      /\ req[r].op \in {"REFRESH", "LOGOUT"} /\ LocksOK(r) /\ Timely(r)
  BY HInvUse DEF IInv, PlacesOK, TargetsOK, LockToken, Running, AllOps
<1>2. t \in Req /\ Exists(t) /\ tokens[t].user = req[r].user /\ tokens[t].family = req[r].family
  BY <1>1 DEF IInv, IdentityOK
<1>3. /\ tokenLock' = [tokenLock EXCEPT ![t] = r]
      /\ pc' = [pc EXCEPT ![r] = IF req[r].op = "REFRESH" THEN "decide" ELSE "revoke"]
      /\ UNCHANGED <<clock, users, tokens, userLock, req, now, targets, answer>>
  BY <1>2 DEF LockToken, Goto, data
<1>4. Quiet(r) /\ SaltOK(r)'
  BY <1>1, <1>2, <1>3, QuietOn DEF TypeOK
<1>5. LocksOK(r)'
  BY <1>1, <1>2, <1>3 DEF LocksOK, Running, TypeOK, Exists
<1>6. Confirmed(r)' /\ FamilyTargets(r)' /\ Timely(r)'
  BY <1>1, <1>3 DEF Confirmed, FamilyTargets, Timely, NowRead, TypeOK
<1> QED BY <1>4, <1>5, <1>6 DEF Own

\* refresh: reuse, refusal or rotation, with a `now' read under both locks.
LEMMA RefreshDecideQuiet ==
  ASSUME HInv, NEW r \in Req, RefreshDecide(r)
  PROVE  Quiet(r) /\ Own(r)'
<1> DEFINE t == req[r].token
<1>1. /\ IInv /\ TypeOK /\ Running(r) /\ pc[r] = "decide" /\ targets[r] = {}
      /\ req[r].op = "REFRESH" /\ LocksOK(r) /\ req[r].user \in Users
  BY HInvUse DEF IInv, PlacesOK, TargetsOK, RefreshDecide, Running, AllOps
<1>2. t \in Req /\ Exists(t) /\ tokens[t].user = req[r].user /\ tokens[t].family = req[r].family
  BY <1>1 DEF IInv, IdentityOK
<1>3. now' = [now EXCEPT ![r] = clock] /\ UNCHANGED <<clock, req>>
  BY DEF RefreshDecide
<1>4. \A s \in Req : now[s] <= clock /\ now'[s] <= clock
  <2>1. \A s \in Req : now[s] <= clock
    BY HInvUse DEF Timely
  <2> QED BY <1>1, <1>3, <2>1 DEF TypeOK, Times
<1>5. CASE Rollback(r, "INVALID_REFRESH") /\ UNCHANGED targets
  <2>1. "INVALID_REFRESH" \in Answers \ Committed
    BY DEF Answers, Committed
  <2> QED BY <1>1, <1>3, <1>4, <1>5, <2>1, RollbackQuiet DEF TypeOK
<1>6. CASE /\ pc' = [pc EXCEPT ![r] = "revoke"]
           /\ UNCHANGED <<users, tokens, userLock, tokenLock, targets, answer>>
  <2>1. Quiet(r) /\ SaltOK(r)'
    BY <1>1, <1>3, <1>6, QuietOn DEF TypeOK
  <2>2. LocksOK(r)' /\ Confirmed(r)' /\ FamilyTargets(r)'
    BY <1>1, <1>3, <1>6 DEF LocksOK, Confirmed, FamilyTargets, Running, TypeOK, Exists
  <2>3. Timely(r)'
    <3>1. now'[r] = clock /\ pc'[r] = "revoke"
      BY <1>1, <1>3, <1>6 DEF TypeOK
    <3> QED BY <1>3, <1>4, <3>1 DEF Timely
  <2> QED BY <2>1, <2>2, <2>3 DEF Own
<1>7. CASE /\ pc' = [pc EXCEPT ![r] = "inserted"] /\ targets' = [targets EXCEPT ![r] = {t}]
           /\ ~Expired(t) /\ users[req[r].user].active
           /\ UNCHANGED <<users, tokens, userLock, tokenLock, answer>>
  <2>1. Quiet(r) /\ SaltOK(r)'
    BY <1>1, <1>3, <1>7, QuietOn DEF TypeOK
  <2>2. LocksOK(r)' /\ Confirmed(r)'
    BY <1>1, <1>3, <1>7 DEF LocksOK, Confirmed, Running, TypeOK, Exists
  <2>3. FamilyTargets(r)'
    <3>1. targets'[r] = {t}
      BY <1>1, <1>7 DEF TypeOK
    <3> QED BY <1>2, <1>3, <1>7, <3>1 DEF FamilyTargets
  <2>4. Timely(r)'
    <3>1. now'[r] = clock /\ pc'[r] = "inserted"
      BY <1>1, <1>3, <1>7 DEF TypeOK
    <3>2. clock < tokens[t].expires
      BY <1>1, <1>2, <1>7, RowsAreOld DEF Expired, TypeOK, Times, Rows
    <3> QED BY <1>3, <1>4, <1>7, <3>1, <3>2 DEF Timely
  <2> QED BY <2>1, <2>2, <2>3, <2>4 DEF Own
<1> QED BY <1>5, <1>6, <1>7 DEF RefreshDecide, Goto, data, locks

\* An UPDATE begins; logout and change_password read `now' for it.
LEMMA BeginUpdateQuiet ==
  ASSUME HInv, NEW r \in Req, BeginUpdate(r)
  PROVE  Quiet(r) /\ Own(r)'
<1>1. /\ IInv /\ TypeOK /\ Running(r) /\ pc[r] = "revoke"
      /\ req[r].op \in {"REFRESH", "LOGOUT", "LOGOUT_ALL", "CHANGE_PASSWORD"}
      /\ LocksOK(r) /\ Confirmed(r) /\ Timely(r)
  BY HInvUse DEF IInv, PlacesOK, BeginUpdate, Running, AllOps
<1>2. /\ targets' = [targets EXCEPT ![r] = {t \in Req : Matches(r, t)}]
      /\ pc' = [pc EXCEPT ![r] = "update"]
      /\ now' = IF req[r].op \in {"LOGOUT", "CHANGE_PASSWORD"}
                  THEN [now EXCEPT ![r] = clock] ELSE now
      /\ UNCHANGED <<clock, users, tokens, userLock, tokenLock, req, answer>>
  BY DEF BeginUpdate, Goto, data, locks
<1>3. \A s \in Req : now[s] <= clock
  BY HInvUse DEF Timely
<1>4. Quiet(r) /\ SaltOK(r)'
  BY <1>1, <1>2, QuietOn DEF TypeOK
<1>5. LocksOK(r)' /\ Confirmed(r)'
  BY <1>1, <1>2 DEF LocksOK, Confirmed, Running, TypeOK, Exists
<1>6. FamilyTargets(r)'
  <2>1. targets'[r] = {t \in Req : Matches(r, t)} /\ req' = req /\ tokens' = tokens
    BY <1>1, <1>2 DEF TypeOK
  <2> QED BY <2>1 DEF FamilyTargets, Matches
<1>7. Timely(r)'
  <2>1. /\ pc'[r] = "update" /\ UNCHANGED <<clock, tokens, req>>
        /\ \A s \in Req : s # r => now'[s] = now[s]
        /\ req[r].op \in {"LOGOUT", "CHANGE_PASSWORD"} => now'[r] = clock
        /\ req[r].op \notin {"LOGOUT", "CHANGE_PASSWORD"} => now' = now
    BY <1>1, <1>2 DEF TypeOK
  <2>2. clock <= clock /\ ~Exists(r)
    BY <1>1, RowsAreOld DEF TypeOK, Times, Running
  <2> QED BY <1>1, <1>3, <2>1, <2>2 DEF Timely, NowRead, Exists
<1> QED BY <1>4, <1>5, <1>6, <1>7 DEF Own

\* An UPDATE gets its row locks: rows of the user whose lock r holds.
LEMMA ApplyUpdateQuiet ==
  ASSUME HInv, NEW r \in Req, ApplyUpdate(r)
  PROVE  Quiet(r) /\ Own(r)'
<1> DEFINE hit == {t \in targets[r] : Matches(r, t)}
<1>1. /\ IInv /\ TypeOK /\ Running(r) /\ pc[r] = "update"
      /\ req[r].op \in {"REFRESH", "LOGOUT", "LOGOUT_ALL", "CHANGE_PASSWORD"}
      /\ LocksOK(r) /\ Confirmed(r) /\ FamilyTargets(r) /\ Timely(r)
      /\ \A t \in targets[r] : Exists(t) /\ tokens[t].user = req[r].user
  BY HInvUse DEF IInv, PlacesOK, TargetsOK, ApplyUpdate, Running, AllOps
<1>2. /\ targets' = [targets EXCEPT ![r] = hit]
      /\ tokenLock' = [t \in Req |-> IF t \in hit THEN r ELSE tokenLock[t]]
      /\ pc' = [pc EXCEPT ![r] = "updated"]
      /\ UNCHANGED <<clock, users, tokens, userLock, req, now, answer>>
  BY DEF ApplyUpdate, Goto, data
<1>3. targets'[r] = hit /\ pc'[r] = "updated"
  BY <1>1, <1>2 DEF TypeOK
<1>4. Quiet(r) /\ SaltOK(r)'
  <2> HIDE DEF hit
  <2> QED BY <1>1, <1>2, QuietOn DEF TypeOK
<1>5. LocksOK(r)'
  <2>1. \A t \in hit : Exists(t) /\ tokens[t].user = req[r].user
    BY <1>1
  <2> HIDE DEF hit
  <2> QED BY <1>1, <1>2, <1>3, <2>1 DEF LocksOK, Running, Exists
<1>6. Confirmed(r)' /\ FamilyTargets(r)' /\ Timely(r)'
  <2>1. hit \subseteq targets[r]
    OBVIOUS
  <2> HIDE DEF hit
  <2> QED BY <1>1, <1>2, <1>3, <2>1
          DEF Confirmed, FamilyTargets, Timely, NowRead, Running, Exists
<1> QED BY <1>4, <1>5, <1>6 DEF Own

\* A failure anywhere rolls back.
LEMMA AbortQuiet ==
  ASSUME HInv, NEW r \in Req, Abort(r)
  PROVE  Quiet(r) /\ Own(r)'
<1>1. "ERROR" \in Answers \ Committed /\ Timely(r)
  BY HInvUse DEF Answers, Committed
<1> QED BY <1>1, RollbackQuiet DEF Abort, Running, Timely

\* Every step of a request but its commit.
LEMMA AdvanceQuiet ==
  ASSUME HInv, NEW r \in Req, Advance(r), ~Commit(r)
  PROVE  Quiet(r) /\ Own(r)'
BY LockUserQuiet, IssueTokensQuiet, LockOwnerQuiet, LockTokenQuiet,
   RefreshDecideQuiet, BeginUpdateQuiet, ApplyUpdateQuiet DEF Advance

-----------------------------------------------------------------------------
(* COMMIT *)

\* A rotation that commits was given a live token of its user and its family,
\* and read `now' under the locks and before that token's expiry.
LEMMA RotationContext ==
  ASSUME HInv, NEW r \in Req, Commit(r), Issues(r), req[r].op = "REFRESH"
  PROVE  LET p == req[r].token
         IN  /\ p \in Req /\ Live(p) /\ Exists(p) /\ targets[r] = {p}
             /\ tokens[p].user = req[r].user /\ tokens[p].family = req[r].family
             /\ now[p] <= now[r] /\ now[r] < tokens[p].expires
<1>1. IInv /\ Running(r) /\ pc[r] = "inserted" /\ Timely(r)
  BY HInvUse, CommitContext DEF Issues
<1>2. /\ req[r].token \in Req /\ Exists(req[r].token)
      /\ tokens[req[r].token].user = req[r].user
      /\ tokens[req[r].token].family = req[r].family
  BY <1>1 DEF IInv, IdentityOK
<1>3. targets[r] = {req[r].token} /\ Live(req[r].token)
  BY <1>1 DEF IInv, TargetsOK
<1> QED BY <1>1, <1>2, <1>3 DEF Timely, NowRead

\* replaced_by_id is written once.
LEMMA NextKept ==
  ASSUME HInv, NEW r \in Req, Commit(r), NEW p \in Req, Exists(p), tokens[p].next # None
  PROVE  tokens'[p].next = tokens[p].next
<1>1. IInv /\ TypeOK /\ ~Live(p)
  BY HInvUse DEF Replaced
<1>2. CASE p \in targets[r]
  <2>1. ~Issues(r)
    <3>1. Issues(r) => req[r].op \in {"LOGIN", "REFRESH"}
      BY <1>1, CommitContext DEF Issues
    <3>2. ~(Issues(r) /\ req[r].op = "LOGIN")
      BY <1>1, <1>2 DEF IInv, TargetsOK, Issues
    <3>3. ~(Issues(r) /\ req[r].op = "REFRESH")
      BY <1>1, <1>2, RotationContext
    <3> QED BY <3>1, <3>2, <3>3
  <2> QED BY <1>1, <1>2, <2>1, CommitRows, RevokedRowKeeps
<1>3. CASE p \notin targets[r]
  <2>1. p # r
    BY <1>1, CommitContext
  <2> QED BY <1>1, <1>3, <2>1, CommitRows
<1> QED BY <1>2, <1>3

\* No commit adds a row to a family that has ended.
LEMMA EndedFamilyKept ==
  ASSUME HInv, NEW r \in Req, Commit(r), NEW f, Ended(f)
  PROVE  ~(Exists(r)' /\ tokens'[r].family = f)
<1> SUFFICES ASSUME Exists(r)', tokens'[r].family = f PROVE FALSE
  OBVIOUS
<1>1. IInv /\ Issues(r) /\ tokens'[r] = NewRow(r) /\ req[r].op \in {"LOGIN", "REFRESH"}
  BY HInvUse, CommitRows, CommitContext DEF Issues
<1>2. CASE req[r].op = "LOGIN"
  BY <1>1, <1>2, NewRowIs, CommitContext DEF Ended, Family
<1>3. CASE req[r].op = "REFRESH"
  BY <1>1, <1>3, NewRowIs, RotationContext DEF Ended, Family
<1> QED BY <1>1, <1>2, <1>3

\* So an ended family stays ended.
LEMMA EndedKept ==
  ASSUME HInv, NEW r \in Req, Commit(r), NEW f, Ended(f)
  PROVE  /\ \E t \in Req : Exists(t)' /\ tokens'[t].family = f
         /\ \A t \in Req : Exists(t)' /\ tokens'[t].family = f
                             => t # r /\ ~Live(t)' /\ Exists(t) /\ tokens[t].family = f
<1>1. IInv
  BY HInvUse
<1>2. ~(Exists(r)' /\ tokens'[r].family = f)
  BY EndedFamilyKept
<1> QED BY <1>1, <1>2, CommitRows DEF Ended, Family

\* What committed changes say of salts, and the new one of the hash it replaces.
LEMMA CommitSalts ==
  ASSUME HInv, NEW r \in Req, Commit(r)
  PROVE  /\ \A h \in Hashes : Used(h) => h.salt # r /\ (h.salt = None \/ answer'[h.salt] = "CHANGED")
         /\ req[r].op = "CHANGE_PASSWORD" =>
              /\ req[r].new \in Hashes /\ req[r].new.salt = r /\ answer'[r] = "CHANGED"
         /\ answer'[r] = "CHANGED" => req[r].op = "CHANGE_PASSWORD" /\ pc[r] = "updated"
<1>1. IInv /\ TypeOK /\ Running(r) /\ answer[r] = None /\ SaltOK(r)
  BY HInvUse, CommitContext DEF Running
<1>2. answer' = [answer EXCEPT ![r] = Verdict(r)] /\ None # "CHANGED" /\ None # r
  BY <1>1, CommitLocals, NoneAssumption DEF Answers
<1>3. /\ pc[r] \in {"inserted", "updated"}
      /\ pc[r] = "inserted" => req[r].op \in {"LOGIN", "REFRESH"}
      /\ pc[r] = "updated" =>
           req[r].op \in {"REFRESH", "LOGOUT", "LOGOUT_ALL", "CHANGE_PASSWORD"}
  BY <1>1, CommitContext
<1>4. req[r].op = "CHANGE_PASSWORD" => req[r].new \in Hashes /\ req[r].new.salt = r
  BY <1>1 DEF IInv, PlacesOK, SaltOK
<1>5. /\ req[r].op = "CHANGE_PASSWORD" => Verdict(r) = "CHANGED"
      /\ Verdict(r) = "CHANGED" => req[r].op = "CHANGE_PASSWORD" /\ pc[r] = "updated"
  BY <1>3 DEF Verdict, Issues
<1>6. \A h \in Hashes : Used(h) => h.salt # r /\ (h.salt = None \/ answer'[h.salt] = "CHANGED")
  BY <1>1, <1>2 DEF Used, Hashes, TypeOK
<1> QED BY <1>1, <1>2, <1>4, <1>5, <1>6 DEF TypeOK

\* A commit ends its own locks and leaves the running requests' state true.
LEMMA CommitOwn ==
  ASSUME HInv, NEW r \in Req, Commit(r), NEW s \in Req
  PROVE  Own(s)'
<1>1. /\ IInv /\ TypeOK /\ LocksOK(s) /\ Confirmed(s) /\ FamilyTargets(s) /\ Timely(s)
      /\ SaltOK(s)
  BY HInvUse
<1>2. /\ UNCHANGED <<clock, req, now, targets>>
      /\ pc'[r] = "done" /\ (s # r => pc'[s] = pc[s])
      /\ \A v \in Users : userLock'[v] = IF userLock[v] = r THEN None ELSE userLock[v]
      /\ \A t \in Req : tokenLock'[t] = IF tokenLock[t] = r THEN None ELSE tokenLock[t]
  BY <1>1, CommitLocals DEF TypeOK
<1>3. \A t \in Req : /\ Exists(t) => /\ Exists(t)'
                                     /\ tokens'[t].user = tokens[t].user
                                     /\ tokens'[t].family = tokens[t].family
                                     /\ tokens'[t].expires = tokens[t].expires
                     /\ Exists(t)' /\ t # r => Exists(t)
  BY <1>1, CommitRows
<1>4. LocksOK(s)'
  BY <1>1, <1>2, <1>3, NoneAssumption DEF LocksOK, Running
<1>5. Confirmed(s)'
  <2>1. Running(s) => req[s].user \in Users
    BY <1>1 DEF IInv, PlacesOK
  <2> QED BY <1>1, <1>2, <2>1, CommitUsers DEF Confirmed, Running
<1>6. FamilyTargets(s)'
  <2>1. Running(s) => \A t \in targets[s] : t \in Req /\ Exists(t)
    BY <1>1 DEF IInv, TargetsOK, TypeOK
  <2> QED BY <1>1, <1>2, <1>3, <2>1 DEF FamilyTargets, Running
<1>7. Timely(s)'
  <2>1. ASSUME NowRead(s)', NEW t \in Req, Exists(t)', tokens'[t].user = req[s].user
        PROVE  now[t] <= now[s]
    <3>1. s # r /\ NowRead(s) /\ Running(s) /\ pc[s] \notin {"lock_user", "lock_owner"}
      BY <1>2, <2>1 DEF NowRead, Running
    <3>2. req[s].user # req[r].user
      BY <1>1, <3>1, CommitContext
    <3>3. t # r
      BY <1>1, <2>1, <3>2, CommitRows, NewRowIs
    <3> QED BY <1>1, <1>3, <2>1, <3>1, <3>3 DEF Timely
  <2>2. ASSUME pc'[s] = "inserted", req[s].op = "REFRESH"
        PROVE  now[s] < tokens'[req[s].token].expires
    <3>1. s # r /\ pc[s] = "inserted" /\ Running(s)
      BY <1>2, <2>2 DEF Running
    <3>2. req[s].token \in Req /\ Exists(req[s].token)
      BY <1>1, <2>2, <3>1 DEF IInv, IdentityOK
    <3> QED BY <1>1, <1>3, <2>2, <3>1, <3>2 DEF Timely
  <2> QED BY <1>1, <1>2, <2>1, <2>2 DEF Timely
<1>8. SaltOK(s)'
  <2>1. req[s].seen \in Hashes \cup {None}
    BY <1>1 DEF TypeOK, Requests
  <2> QED BY <1>1, <1>2, <2>1, CommitSalts DEF SaltOK, Used, Running
<1> QED BY <1>4, <1>5, <1>6, <1>7, <1>8 DEF Own

\* Every row says how it came, the new one included.
LEMMA CommitInserted ==
  ASSUME HInv, NEW r \in Req, Commit(r), NEW s \in Req
  PROVE  Inserted(s)'
<1>1. IInv /\ TypeOK /\ Inserted(s)
  BY HInvUse
<1>2. /\ UNCHANGED <<req, now>> /\ (s # r => answer'[s] = answer[s])
      /\ answer'[r] = Verdict(r)
  BY <1>1, CommitLocals DEF TypeOK
<1>3. CASE s = r
  <2>1. SUFFICES ASSUME Issues(r) PROVE Inserted(r)'
    BY <1>1, <1>3, CommitRows DEF Inserted
  <2>2. /\ tokens'[r] = NewRow(r) /\ NewRow(r).user = req[r].user
        /\ NewRow(r).expires = now[r] + RefreshTTL
        /\ req[r].op = "LOGIN" => NewRow(r).family = r
        /\ req[r].op = "REFRESH" => NewRow(r).family = req[r].family
        /\ req[r].op \in {"LOGIN", "REFRESH"} /\ Verdict(r) = "TOKENS"
    BY <1>1, <2>1, CommitRows, NewRowIs, CommitContext DEF Issues, Verdict
  <2>3. CASE req[r].op = "LOGIN"
    BY <1>2, <2>2, <2>3 DEF Inserted
  <2>4. CASE req[r].op = "REFRESH"
    <3>1. /\ req[r].token \in Req /\ Exists(req[r].token) /\ targets[r] = {req[r].token}
          /\ tokens[req[r].token].family = req[r].family
      BY <2>1, <2>4, RotationContext
    <3>2. /\ tokens'[req[r].token] # None /\ tokens'[req[r].token].next = r
          /\ tokens'[req[r].token].family = req[r].family
      BY <1>1, <2>1, <3>1, CommitRows, RevokedRowKeeps DEF Exists
    <3> QED BY <1>2, <2>2, <2>4, <3>1, <3>2 DEF Inserted, Exists
  <2> QED BY <2>2, <2>3, <2>4
<1>4. CASE s # r
  <2>1. SUFFICES ASSUME Exists(s) PROVE Inserted(s)'
    BY <1>1, <1>4, CommitRows DEF Inserted
  <2>2. /\ Exists(s)' /\ tokens'[s].user = tokens[s].user
        /\ tokens'[s].family = tokens[s].family /\ tokens'[s].expires = tokens[s].expires
    BY <1>1, <2>1, CommitRows
  <2>3. CASE req[s].op = "LOGIN" /\ tokens[s].family = s
    BY <1>1, <1>2, <1>4, <2>1, <2>2, <2>3 DEF Inserted
  <2>4. CASE /\ req[s].op = "REFRESH" /\ req[s].token \in Req /\ Exists(req[s].token)
             /\ tokens[req[s].token].next = s
             /\ tokens[req[s].token].family = tokens[s].family
    <3>1. /\ tokens'[req[s].token].next = s /\ tokens'[req[s].token] # None
          /\ tokens'[req[s].token].family = tokens[s].family
      BY <1>1, <2>4, NextKept, CommitRows, NoneAssumption DEF Exists
    <3> QED BY <1>1, <1>2, <1>4, <2>1, <2>2, <2>4, <3>1 DEF Inserted, Exists
  <2> QED BY <1>1, <2>1, <2>3, <2>4 DEF Inserted
<1> QED BY <1>3, <1>4

\* Every replaced row says what replaced it, the token just rotated included.
LEMMA CommitReplaced ==
  ASSUME HInv, NEW r \in Req, Commit(r), NEW p \in Req
  PROVE  Replaced(p)'
<1>1. IInv /\ TypeOK /\ Replaced(p) /\ Inserted(p)
  BY HInvUse
<1>2. SUFFICES ASSUME Exists(p)', tokens'[p].next # None
               PROVE  \E t \in Req : /\ t = tokens'[p].next /\ Exists(t)' /\ ~Live(p)'
                                     /\ req[t].op = "REFRESH" /\ req[t].token = p
                                     /\ tokens[p].expires <= tokens'[t].expires
                                     /\ tokens'[t].expires < tokens[p].expires + RefreshTTL
  <2>1. req' = req /\ (Exists(p)' /\ tokens'[p].next # None => p # r)
    BY <1>1, CommitRows, CommitLocals, NewRowIs
  <2>2. Exists(p)' /\ tokens'[p].next # None => tokens'[p].expires = tokens[p].expires
    BY <1>1, <2>1, CommitRows
  <2> QED BY <2>1, <2>2 DEF Replaced, Exists
<1>3. p # r
  BY <1>1, <1>2, CommitRows, NewRowIs
<1>4. Exists(p) /\ (Live(p)' => Live(p) /\ p \notin targets[r])
  BY <1>1, <1>2, <1>3, CommitRows
<1>5. CASE tokens[p].next # None
  <2>1. tokens[p].next \in Req /\ tokens'[p].next = tokens[p].next
    BY <1>1, <1>4, <1>5, NextKept, RowsAreOld DEF Rows
  <2>2. PICK t \in Req :
          /\ t = tokens[p].next /\ Exists(t) /\ ~Live(p)
          /\ req[t].op = "REFRESH" /\ req[t].token = p
          /\ tokens[p].expires <= tokens[t].expires
          /\ tokens[t].expires < tokens[p].expires + RefreshTTL
    BY <1>1, <1>4, <1>5, <2>1 DEF Replaced
  <2>3. Exists(t)' /\ tokens'[t].expires = tokens[t].expires
    BY <1>1, <2>2, CommitRows
  <2> QED BY <1>4, <2>1, <2>2, <2>3
<1>6. CASE tokens[p].next = None
  <2>1. p \in targets[r] /\ Issues(r) /\ tokens'[p].next = r
    BY <1>1, <1>2, <1>3, <1>4, <1>6, CommitRows, RevokedRowKeeps
  <2>2. req[r].op = "REFRESH"
    <3>1. Issues(r) => req[r].op \in {"LOGIN", "REFRESH"}
      BY <1>1, CommitContext DEF Issues
    <3> QED BY <1>1, <2>1, <3>1 DEF IInv, TargetsOK, Issues
  <2>3. p = req[r].token /\ now[p] <= now[r] /\ now[r] < tokens[p].expires
    BY <2>1, <2>2, RotationContext
  <2>4. Exists(r)' /\ tokens'[r].expires = now[r] + RefreshTTL
    BY <1>1, <2>1, CommitRows, NewRowIs
  <2>5. tokens[p].expires = now[p] + RefreshTTL
    BY <1>1, <1>4 DEF Inserted
  <2>6. now[p] \in Nat /\ now[r] \in Nat /\ RefreshTTL \in Nat
    BY <1>1, ConstantsAssumption DEF TypeOK, Times
  <2>7. now[p] + RefreshTTL <= now[r] + RefreshTTL
    BY <2>3, <2>6
  <2>8. now[r] + RefreshTTL < tokens[p].expires + RefreshTTL
    BY <2>3, <2>5, <2>6
  <2> QED BY <1>4, <2>1, <2>2, <2>3, <2>4, <2>5, <2>7, <2>8
<1> QED BY <1>5, <1>6

\* The UPDATE of a refresh or a logout leaves nothing live in the family, and
\* its `now' is not before that of any row there.
LEMMA FamilyRevoked ==
  ASSUME HInv, NEW r \in Req, Commit(r), ~Issues(r), req[r].op \in {"REFRESH", "LOGOUT"}
  PROVE  /\ \E t \in Req : Exists(t)' /\ tokens'[t].family = req[r].family
         /\ \A t \in Req : Exists(t)' /\ tokens'[t].family = req[r].family
                             => ~Live(t)' /\ now[t] <= now[r]
<1>1. IInv /\ TypeOK /\ Running(r) /\ pc[r] = "updated" /\ Timely(r)
  BY HInvUse, CommitContext DEF Issues
<1>2. PICK p \in Req : /\ Exists(p) /\ tokens[p].user = req[r].user
                       /\ tokens[p].family = req[r].family
  BY <1>1 DEF IInv, IdentityOK
<1>3. Exists(p)' /\ tokens'[p].family = req[r].family
  BY <1>1, <1>2, CommitRows
<1>4. ASSUME NEW t \in Req, Exists(t)', tokens'[t].family = req[r].family
      PROVE  ~Live(t)' /\ now[t] <= now[r]
  <2>1. t # r
    BY <1>1, <1>4, CommitRows
  <2>2. Exists(t) /\ tokens[t].family = req[r].family
    BY <1>1, <1>4, <2>1, CommitRows
  <2>3. ~Live(t)'
    <3>1. Live(t) => t \in targets[r]
      BY <1>1, <2>2 DEF IInv, TargetsOK, Matches
    <3> QED BY <1>1, <2>1, <3>1, CommitRows
  <2>4. tokens[t].user = req[r].user
    BY <1>1, <1>2, <2>2, RowsAreOld
  <2> QED BY <1>1, <2>2, <2>3, <2>4 DEF Timely, NowRead
<1> QED BY <1>2, <1>3, <1>4

\* An answered revocation holds after the commit.
LEMMA CommitRevocation ==
  ASSUME HInv, NEW r \in Req, Commit(r), NEW s \in Req
  PROVE  RevocationHolds(s)'
<1>1. IInv /\ TypeOK /\ RevocationHolds(s)
  BY HInvUse
<1>2. UNCHANGED <<req, now>> /\ answer' = [answer EXCEPT ![r] = Verdict(r)]
  BY <1>1, CommitLocals
<1>3. CASE s = r
  <2>1. SUFFICES ASSUME Verdict(r) \in {"LOGGED_OUT", "REUSED"} PROVE RevocationHolds(r)'
    BY <1>1, <1>2, <1>3 DEF RevocationHolds, TypeOK
  <2>2. ~Issues(r) /\ req[r].op \in {"REFRESH", "LOGOUT"}
    <3>1. Issues(r) => Verdict(r) = "TOKENS"
      BY DEF Verdict
    <3>2. ~Issues(r) =>
            req[r].op \in {"REFRESH", "LOGOUT", "LOGOUT_ALL", "CHANGE_PASSWORD"}
      BY <1>1, CommitContext DEF Issues
    <3> QED BY <2>1, <3>1, <3>2 DEF Verdict
  <2>3. /\ \E t \in Req : Exists(t)' /\ tokens'[t].family = req[r].family
        /\ \A t \in Req : Exists(t)' /\ tokens'[t].family = req[r].family
                             => ~Live(t)' /\ now[t] <= now[r]
    BY <2>2, FamilyRevoked
  <2> QED BY <1>2, <2>3 DEF RevocationHolds, Ended, Family
<1>4. CASE s # r
  <2>1. SUFFICES ASSUME answer[s] \in {"LOGGED_OUT", "REUSED"} PROVE RevocationHolds(s)'
    BY <1>1, <1>2, <1>4 DEF RevocationHolds, TypeOK
  <2>2. Ended(req[s].family) /\ \A t \in Family(req[s].family) : now[t] <= now[s]
    BY <1>1, <2>1 DEF RevocationHolds
  <2>3. /\ \E t \in Req : Exists(t)' /\ tokens'[t].family = req[s].family
        /\ \A t \in Req : Exists(t)' /\ tokens'[t].family = req[s].family
              => t # r /\ ~Live(t)' /\ Exists(t) /\ tokens[t].family = req[s].family
    BY <2>2, EndedKept
  <2>4. \A t \in Req : Exists(t)' /\ tokens'[t].family = req[s].family => now[t] <= now[s]
    BY <2>2, <2>3 DEF Family
  <2> QED BY <1>2, <2>3, <2>4 DEF RevocationHolds, Ended, Family
<1> QED BY <1>3, <1>4

\* An answered password change holds after the commit: no hash comes back, as
\* every new one is salted by its own request, and a session that is opened or
\* goes on has the current hash.
LEMMA CommitChange ==
  ASSUME HInv, NEW r \in Req, Commit(r), NEW s \in Req, IInv'
  PROVE  ChangeHolds(s)'
<1>1. IInv /\ TypeOK /\ ChangeHolds(s) /\ SaltOK(s) /\ Timely(s)
  BY HInvUse
<1>2. UNCHANGED <<req, now>> /\ answer' = [answer EXCEPT ![r] = Verdict(r)]
  BY <1>1, CommitLocals
<1>3. SUFFICES ASSUME answer'[s] = "CHANGED"
      PROVE  /\ req[s].user \in Users
             /\ users'[req[s].user].hash # req[s].seen
             /\ \A t \in Req : /\ Exists(t)' /\ tokens'[t].user = req[s].user
                               /\ req[tokens'[t].family].seen = req[s].seen
                               => now[t] <= now[s]
  BY <1>2 DEF ChangeHolds, Exists
<1>4. s # r => answer[s] = "CHANGED"
  BY <1>1, <1>2, <1>3 DEF TypeOK
<1>5. s = r => req[r].op = "CHANGE_PASSWORD" /\ pc[r] = "updated"
  BY <1>3, CommitSalts
<1>6. req[s].user \in Users
  BY <1>1, <1>4, CommitContext DEF ChangeHolds
<1>7. users'[req[s].user].hash # req[s].seen
  <2>1. CASE req[r].op = "CHANGE_PASSWORD" /\ req[r].user = req[s].user
    <3>1. users'[req[s].user].hash = req[r].new /\ req[r].new \in Hashes /\ req[r].new.salt = r
      BY <1>1, <2>1, CommitUsers, CommitSalts
    <3>2. req[s].seen \in Hashes \cup {None} /\ None \notin Hashes
      BY <1>1, NoneAssumption DEF TypeOK, Requests
    <3>3. req[s].seen \in Hashes => req[s].seen.salt # r
      BY <1>1, <3>2, CommitSalts DEF SaltOK
    <3> QED BY <3>1, <3>2, <3>3
  <2>2. CASE ~(req[r].op = "CHANGE_PASSWORD" /\ req[r].user = req[s].user)
    <3>1. s # r
      BY <1>5, <2>2
    <3>2. users'[req[s].user].hash = users[req[s].user].hash
      BY <1>1, <1>6, <2>2, CommitUsers
    <3> QED BY <1>1, <1>4, <3>1, <3>2 DEF ChangeHolds
  <2> QED BY <2>1, <2>2
<1>8. ASSUME NEW t \in Req, Exists(t)', tokens'[t].user = req[s].user,
             req[tokens'[t].family].seen = req[s].seen
      PROVE  now[t] <= now[s]
  <2>1. CASE t = r
    <3>1. Live(r)'
      BY <1>1, <1>8, <2>1, CommitRows, NewRowIs DEF Live
    <3>2. req[tokens'[r].family].seen = users'[tokens'[r].user].hash
      BY <1>2, <3>1 DEF IInv, LiveSessionsMatchPassword
    <3> QED BY <1>7, <1>8, <2>1, <3>2
  <2>2. CASE t # r
    <3>1. Exists(t) /\ tokens[t].user = req[s].user /\ tokens'[t].family = tokens[t].family
      BY <1>1, <1>8, <2>2, CommitRows
    <3>2. CASE s = r
      BY <1>1, <1>5, <3>1, <3>2 DEF Timely, NowRead
    <3>3. CASE s # r
      BY <1>1, <1>4, <1>8, <3>1, <3>3 DEF ChangeHolds
    <3> QED BY <3>2, <3>3
  <2> QED BY <2>1, <2>2
<1> QED BY <1>6, <1>7, <1>8

\* A commit preserves the history.
LEMMA CommitHistory ==
  ASSUME HInv, NEW r \in Req, Commit(r), IInv'
  PROVE  HInv'
<1>1. IInv /\ TypeOK
  BY HInvUse
<1>2. \A u \in Users : Used(users[u].hash)'
  <2>1. ASSUME NEW u \in Users
        PROVE  users'[u].hash.salt = None \/ answer'[users'[u].hash.salt] = "CHANGED"
    <3>1. users[u].hash \in Hashes /\ Used(users[u].hash)
      BY <1>1 DEF HInv, TypeOK
    <3>2. CASE users'[u].hash = users[u].hash
      BY <3>1, <3>2, CommitSalts
    <3>3. CASE users'[u].hash # users[u].hash
      <4>1. req[r].op = "CHANGE_PASSWORD" /\ users'[u].hash = req[r].new
        BY <1>1, <3>3, CommitUsers
      <4> QED BY <4>1, CommitSalts
    <3> QED BY <3>2, <3>3
  <2> QED BY <2>1 DEF Used
<1>3. ASSUME NEW s \in Req
      PROVE  History(s)'
  <2>1. answer'[s] # None => pc'[s] = "done"
    <3>1. answer[s] # None => pc[s] = "done"
      BY HInvUse
    <3> QED BY <1>1, <3>1, CommitLocals DEF TypeOK
  <2> QED BY <2>1, CommitOwn, CommitInserted, CommitReplaced, CommitRevocation,
             CommitChange DEF History, Own
<1> QED BY <1>2, <1>3 DEF HInv

-----------------------------------------------------------------------------
(* The history invariant *)

\* A step writes nothing, commits, sets is_active, or lets time pass.
LEMMA Steps ==
  ASSUME HInv, [Next]_vars
  PROVE  \/ \E r \in Req : Quiet(r) /\ Own(r)'
         \/ \E r \in Req : Commit(r)
         \/ \E u \in Users : SetActive(u)
         \/ clock <= clock' /\ UNCHANGED <<data, locks, local>>
<1>1. clock <= clock /\ clock <= clock + 1
  BY DEF HInv, IInv, TypeOK, Times
<1>2. ASSUME NEW r \in Req, Arrival(r) \/ Advance(r) \/ Abort(r)
      PROVE  (Quiet(r) /\ Own(r)') \/ Commit(r)
  BY <1>2, ArrivalQuiet, AdvanceQuiet, AbortQuiet
<1>3. CASE Tick \/ UNCHANGED vars
  BY <1>1, <1>3 DEF Tick, vars, data, locks, local
<1> QED BY <1>2, <1>3 DEF Next, Terminated

\* Only `now <= clock' looks at the clock.
LEMMA TickHistory ==
  ASSUME HInv, clock <= clock', UNCHANGED <<data, locks, local>>, IInv'
  PROVE  HInv'
<1>1. /\ UNCHANGED <<users, tokens, userLock, tokenLock, pc, req, now, targets, answer>>
      /\ TypeOK /\ clock' \in Times
  BY DEF data, locks, local, IInv, TypeOK, HInv
<1>2. ASSUME NEW r \in Req
      PROVE  History(r)'
  <2>1. History(r)
    BY DEF HInv
  <2>2. Timely(r)'
    BY <1>1, <2>1 DEF History, Timely, NowRead, Exists, TypeOK, Times
  <2>3. (LocksOK(r) /\ Confirmed(r) /\ FamilyTargets(r) /\ SaltOK(r))'
    BY <1>1, <2>1 DEF History, LocksOK, Confirmed, FamilyTargets, SaltOK, Used, Running, Exists
  <2>4. (Inserted(r) /\ Replaced(r) /\ RevocationHolds(r) /\ ChangeHolds(r))'
    BY <1>1, <2>1 DEF History, Inserted, Replaced, RevocationHolds, ChangeHolds,
                      Ended, Family, Live, Exists
  <2> QED BY <1>1, <2>1, <2>2, <2>3, <2>4 DEF History
<1>3. \A u \in Users : Used(users[u].hash)'
  BY <1>1 DEF HInv, Used
<1> QED BY <1>2, <1>3 DEF HInv

\* is_active changes only for a user whose row nobody has locked.
LEMMA SetActiveHistory ==
  ASSUME HInv, NEW u \in Users, SetActive(u), IInv'
  PROVE  HInv'
<1>1. /\ UNCHANGED <<clock, tokens, userLock, tokenLock, pc, req, now, targets, answer>>
      /\ \A v \in Users : users'[v].hash = users[v].hash
      /\ \A v \in Users : v # u => users'[v] = users[v]
      /\ userLock[u] = None /\ TypeOK /\ IInv
  BY DEF SetActive, locks, local, HInv, IInv, TypeOK
<1>2. ASSUME NEW r \in Req
      PROVE  History(r)'
  <2>1. History(r)
    BY DEF HInv
  <2>2. Confirmed(r)'
    <3>1. ASSUME Running(r), pc[r] \notin {"lock_user", "lock_owner"}
          PROVE  req[r].user # u /\ req[r].user \in Users
      BY <1>1, <3>1, NoneAssumption DEF IInv, OwnerLocked, PlacesOK
    <3>2. ASSUME Running(r), req[r].op # "REFRESH", req[r].op # "LOGOUT"
          PROVE  pc[r] # "lock_owner"
      BY <1>1, <3>2 DEF IInv, PlacesOK, AllOps
    <3> QED BY <1>1, <2>1, <3>1, <3>2 DEF Confirmed, History, Running
  <2>3. (LocksOK(r) /\ FamilyTargets(r) /\ Timely(r) /\ SaltOK(r))'
    BY <1>1, <2>1 DEF History, LocksOK, FamilyTargets, Timely, NowRead, SaltOK, Used,
                      Running, Exists
  <2>4. (Inserted(r) /\ Replaced(r) /\ RevocationHolds(r))'
    BY <1>1, <2>1 DEF History, Inserted, Replaced, RevocationHolds, Ended, Family, Live, Exists
  <2>5. ChangeHolds(r)'
    BY <1>1, <2>1 DEF History, ChangeHolds, Exists
  <2> QED BY <1>1, <2>1, <2>2, <2>3, <2>4, <2>5 DEF History
<1>3. \A v \in Users : Used(users[v].hash)'
  BY <1>1 DEF HInv, Used
<1> QED BY <1>2, <1>3 DEF HInv

\* There is no history at first.
LEMMA InitHInv == Init => HInv
<1> SUFFICES ASSUME Init PROVE HInv
  OBVIOUS
<1>1. IInv
  BY InitIInv
<1>2. ASSUME NEW r \in Req
      PROVE  History(r)
  <2>1. /\ ~Exists(r) /\ answer[r] = None /\ pc[r] = "idle" /\ targets[r] = {}
        /\ clock = 0 /\ now[r] = 0 /\ req[r].seen = None
        /\ \A u \in Users : userLock[u] # r
        /\ \A t \in Req : tokenLock[t] # r
    BY NoneAssumption DEF Init, Exists, NoRequest
  <2>2. Timely(r)
    BY <2>1 DEF Timely, NowRead
  <2>3. LocksOK(r) /\ Confirmed(r) /\ FamilyTargets(r) /\ SaltOK(r)
    BY <2>1 DEF LocksOK, Confirmed, FamilyTargets, SaltOK, Running
  <2>4. Inserted(r) /\ Replaced(r) /\ RevocationHolds(r) /\ ChangeHolds(r)
    BY <2>1, NoneAssumption DEF Inserted, Replaced, RevocationHolds, ChangeHolds, Answers
  <2> QED BY <2>1, <2>2, <2>3, <2>4 DEF History
<1>3. \A u \in Users : Used(users[u].hash)
  BY DEF Init, Used
<1> QED BY <1>1, <1>2, <1>3 DEF HInv

\* Every step preserves it.
LEMMA NextHInv == HInv /\ [Next]_vars => HInv'
<1> SUFFICES ASSUME HInv, [Next]_vars PROVE HInv'
  OBVIOUS
<1>1. IInv'
  BY NextIInv DEF HInv
<1>2. ASSUME NEW r \in Req, Quiet(r), Own(r)' PROVE HInv'
  BY <1>1, <1>2, QuietStep
<1>3. ASSUME NEW r \in Req, Commit(r) PROVE HInv'
  BY <1>1, <1>3, CommitHistory
<1>4. ASSUME NEW u \in Users, SetActive(u) PROVE HInv'
  BY <1>1, <1>4, SetActiveHistory
<1>5. CASE clock <= clock' /\ UNCHANGED <<data, locks, local>>
  BY <1>1, <1>5, TickHistory
<1> QED BY <1>2, <1>3, <1>4, <1>5, Steps

\* The history invariant holds in every reachable state: rows say how they came,
\* answers stay true, locks belong to requests that asked for them.
THEOREM HistoryInvariance == Spec => []HInv
BY InitHInv, NextHInv, PTL DEF Spec

-----------------------------------------------------------------------------
(* What follows from it *)

\* replaced_by_id leads from a login's token through its family (refresh).
THEOREM RotationIsAPath == Spec => []RotationPath
<1>1. ASSUME HInv PROVE RotationPath
  <2>1. ASSUME NEW t \in Req, Exists(t), tokens[t].next # None
        PROVE  ~Live(t)
    BY <1>1, <2>1, HInvUse DEF Replaced
  <2>2. ASSUME NEW t \in Req, Exists(t), t # tokens[t].family
        PROVE  \E p \in Family(tokens[t].family) :
                 /\ tokens[p].next = t
                 /\ \A q \in Req : Exists(q) /\ tokens[q].next = t => q = p
    <3>1. LET p == req[t].token
          IN  p \in Req /\ Exists(p) /\ tokens[p].next = t /\ tokens[p].family = tokens[t].family
      BY <1>1, <2>2, HInvUse DEF Inserted
    <3>2. ASSUME NEW q \in Req, Exists(q), tokens[q].next = t
          PROVE  q = req[t].token
      BY <1>1, <3>2, HInvUse, NoneAssumption DEF Replaced
    <3> QED BY <3>1, <3>2 DEF Family
  <2> QED BY <2>1, <2>2 DEF RotationPath
<1> QED BY <1>1, HistoryInvariance, PTL

\* However many refreshes present one token, at most one is given tokens.
THEOREM OneSuccessor == Spec => []RotatedOnce
<1>1. ASSUME HInv PROVE RotatedOnce
  <2>1. ASSUME NEW r \in Req, req[r].op = "REFRESH", answer[r] = "TOKENS"
        PROVE  tokens[req[r].token].next = r
    <3>1. Exists(r)
      BY <1>1, <2>1, HInvUse DEF IInv, Rooted
    <3> QED BY <1>1, <2>1, <3>1, HInvUse DEF Inserted
  <2> QED BY <2>1 DEF RotatedOnce
<1> QED BY <1>1, HistoryInvariance, PTL

\* A session goes on only by a refresh before the token's expiry, which moves
\* the expiry forward.
THEOREM ExpirySlides == Spec => []SlidingExpiry
<1>1. ASSUME HInv PROVE SlidingExpiry
  BY <1>1, HInvUse DEF SlidingExpiry, Replaced
<1> QED BY <1>1, HistoryInvariance, PTL

\* An answered logout or detected reuse leaves the family without a live token.
THEOREM RevocationStays == Spec => []AnsweredRevocationHolds
<1>1. ASSUME HInv PROVE AnsweredRevocationHolds
  BY <1>1, HInvUse DEF AnsweredRevocationHolds, RevocationHolds
<1> QED BY <1>1, HistoryInvariance, PTL

\* A logout, a detected reuse and a password change stop the supply of access
\* tokens of the sessions they end.
THEOREM SupplyStops == Spec => []AccessSupplyStops
<1>1. ASSUME HInv PROVE AccessSupplyStops
  <2>1. ASSUME NEW a \in Req, answer[a] = "TOKENS" PROVE Exists(a)
    BY <1>1, <2>1 DEF HInv, IInv, Rooted
  <2>2. ASSUME NEW r \in Req, NEW a \in Req, answer[a] = "TOKENS",
               answer[r] \in {"LOGGED_OUT", "REUSED"}, tokens[a].family = req[r].family
        PROVE  now[a] <= now[r]
    BY <1>1, <2>1, <2>2, HInvUse DEF RevocationHolds, Family
  <2>3. ASSUME NEW r \in Req, NEW a \in Req, answer[a] = "TOKENS", answer[r] = "CHANGED",
               tokens[a].user = req[r].user, req[tokens[a].family].seen = req[r].seen
        PROVE  now[a] <= now[r]
    BY <1>1, <2>1, <2>3, HInvUse DEF ChangeHolds
  <2> QED BY <2>2, <2>3 DEF AccessSupplyStops
<1> QED BY <1>1, HistoryInvariance, PTL

\* Nobody who holds a row lock waits for one: every writer of refresh tokens
\* takes the owner's row first, and rows belong to one owner.
THEOREM LocksNeverDeadlock == Spec => []NoHoldAndWait
<1>1. ASSUME HInv PROVE NoHoldAndWait
  <2> SUFFICES ASSUME NEW r \in Req, Holds(r), Waits(r) PROVE FALSE
    BY DEF NoHoldAndWait
  <2>1. IInv /\ TypeOK /\ LocksOK(r)
    BY <1>1, HInvUse
  <2>2. Running(r) /\ pc[r] \notin {"lock_user", "lock_owner"} /\ userLock[req[r].user] = r
    BY <2>1 DEF Holds, LocksOK, IInv, OwnerLocked
  <2>3. ASSUME NEW t \in Req, tokens[t].user = req[r].user, tokenLock[t] # None
        PROVE  tokenLock[t] = r
    <3>1. PICK q \in Req : q = tokenLock[t]
      BY <2>1, <2>3 DEF TypeOK
    <3>2. /\ Running(q) /\ pc[q] \notin {"lock_user", "lock_owner", "lock_token"}
          /\ tokens[t].user = req[q].user
      BY <1>1, <3>1, HInvUse DEF LocksOK
    <3>3. userLock[req[q].user] = q
      BY <2>1, <3>2 DEF IInv, OwnerLocked
    <3> QED BY <2>2, <2>3, <3>1, <3>2, <3>3
  <2>4. CASE pc[r] = "lock_token" /\ tokenLock[req[r].token] # None
    <3>1. req[r].token \in Req /\ tokens[req[r].token].user = req[r].user
      BY <2>1, <2>2, <2>4 DEF IInv, PlacesOK, IdentityOK, AllOps
    <3> QED BY <2>1, <2>3, <2>4, <3>1 DEF LocksOK
  <2>5. CASE pc[r] = "update" /\ \E t \in targets[r] : tokenLock[t] \notin {None, r}
    <3>1. \A t \in targets[r] : t \in Req /\ tokens[t].user = req[r].user
      BY <2>1, <2>2 DEF IInv, TargetsOK, TypeOK
    <3> QED BY <2>3, <2>5, <3>1
  <2> QED BY <2>2, <2>4, <2>5 DEF Waits
<1> QED BY <1>1, HistoryInvariance, PTL

\* No step gives an ended family a live token again.
THEOREM EndedStays == Spec => EndedForGood
<1>1. ASSUME HInv, [Next]_vars
      PROVE  [\A f \in Req : Ended(f) => Ended(f)']_vars
  <2>1. ASSUME NEW f \in Req, Ended(f), tokens' = tokens PROVE Ended(f)'
    BY <2>1 DEF Ended, Family, Live, Exists
  <2>2. ASSUME NEW f \in Req, Ended(f), NEW r \in Req, Commit(r) PROVE Ended(f)'
    BY <1>1, <2>2, EndedKept DEF Ended, Family
  <2> QED BY <1>1, <2>1, <2>2, Steps DEF Quiet, SetActive, data
<1> QED BY <1>1, HistoryInvariance, PTL DEF Spec, EndedForGood

\* The commit of logout_all or change_password leaves its user no live token.
THEOREM AllSessionsEnd == Spec => NoSessionSurvives
<1> DEFINE Prop == \A r \in Req :
             /\ answer[r] = None
             /\ answer'[r] \in {"LOGGED_OUT_ALL", "CHANGED"}
             => \A t \in Req : ~(Exists(t)' /\ tokens'[t].user = req[r].user
                                 /\ tokens'[t].revoked = None)
<1>1. ASSUME HInv, [Next]_vars PROVE Prop
  <2> SUFFICES ASSUME NEW r \in Req, answer[r] = None,
                      answer'[r] \in {"LOGGED_OUT_ALL", "CHANGED"},
                      NEW t \in Req, Exists(t)', tokens'[t].user = req[r].user,
                      tokens'[t].revoked = None
               PROVE  FALSE
    OBVIOUS
  <2>1. answer'[r] # answer[r]
    BY NoneAssumption DEF Answers
  <2>2. Commit(r)
    <3>1. ASSUME NEW s \in Req, Quiet(s) PROVE FALSE
      BY <2>1, <3>1 DEF Quiet, Committed
    <3>2. ASSUME NEW s \in Req, Commit(s), s # r PROVE FALSE
      BY <1>1, <2>1, <3>2, CommitLocals, HInvUse DEF TypeOK
    <3> QED BY <1>1, <2>1, <3>1, <3>2, Steps DEF SetActive, local
  <2>3. IInv /\ TypeOK /\ answer'[r] = Verdict(r)
    BY <1>1, <2>2, HInvUse, CommitLocals DEF TypeOK
  <2>4. ~Issues(r)
    BY <2>3 DEF Verdict
  <2>5. Running(r) /\ pc[r] = "updated" /\ req[r].op \in {"LOGOUT_ALL", "CHANGE_PASSWORD"}
    <3>1. Running(r) /\ pc[r] = "updated"
          /\ req[r].op \in {"REFRESH", "LOGOUT", "LOGOUT_ALL", "CHANGE_PASSWORD"}
      BY <2>2, <2>3, <2>4, CommitContext DEF Issues
    <3> QED BY <2>3, <2>4, <3>1 DEF Verdict
  <2>6. t # r /\ Live(t)'
    BY <2>2, <2>3, <2>4, CommitRows DEF Live
  <2>7. Live(t) /\ t \notin targets[r] /\ tokens[t].user = req[r].user
    <3>1. Live(t) /\ t \notin targets[r]
      BY <2>2, <2>3, <2>6, CommitRows
    <3> QED BY <2>2, <2>3, <3>1, CommitRows DEF Live
  <2> QED BY <2>3, <2>5, <2>7 DEF IInv, TargetsOK, Matches
<1>2. HInv /\ [Next]_vars => [Prop]_vars
  BY <1>1
<1> HIDE DEF Prop
<1>3. Spec => [][Prop]_vars
  BY <1>2, HistoryInvariance, PTL DEF Spec
<1> QED BY <1>3 DEF NoSessionSurvives, Prop

-----------------------------------------------------------------------------
(* The service implements SessionsAbs *)

\* The first step of a refinement proof: the initial states.
LEMMA AbsInit == Init => Abs!Init
<1> SUFFICES ASSUME Init PROVE Abs!Init
  OBVIOUS
<1>1. \A f \in Req : Family(f) = {} /\ Carriers(f) = {}
  BY DEF Init, Family, Carriers, Exists
<1>2. Owner = [f \in Req |-> None] /\ Key = [f \in Req |-> None] /\ Holder = [f \in Req |-> None]
  BY <1>1 DEF Owner, Key, Holder
<1>3. /\ Credential = [u \in Users |-> [plain |-> InitialPassword, salt |-> None]]
      /\ Active = [u \in Users |-> TRUE]
  BY DEF Init, Credential, Active
<1> QED BY <1>2, <1>3 DEF Abs!Init

\* The holder is the family's live token, and nobody without one.
LEMMA HolderIs ==
  IInv => \A f \in Req :
            /\ \A t \in Req : Live(t) /\ tokens[t].family = f => Holder[f] = t
            /\ (\A t \in Req : ~(Live(t) /\ tokens[t].family = f)) => Holder[f] = None
<1> SUFFICES ASSUME IInv, NEW f \in Req
             PROVE  /\ \A t \in Req : Live(t) /\ tokens[t].family = f => Holder[f] = t
                    /\ (\A t \in Req : ~(Live(t) /\ tokens[t].family = f)) => Holder[f] = None
  OBVIOUS
<1>1. Carriers(f) = {t \in Req : Live(t) /\ tokens[t].family = f}
  BY DEF Carriers, Family, Live
<1>2. Holder[f] = IF Carriers(f) = {} THEN None ELSE CHOOSE t \in Carriers(f) : TRUE
  BY DEF Holder
<1>3. ASSUME NEW t \in Req, Live(t), tokens[t].family = f
      PROVE  Holder[f] = t
  <2>1. \A s \in Carriers(f) : s = t
    BY <1>1, <1>3 DEF IInv, OneLivePerFamily
  <2>2. t \in Carriers(f)
    BY <1>1, <1>3
  <2>3. (CHOOSE s \in Carriers(f) : TRUE) \in Carriers(f)
    BY <2>2
  <2> QED BY <1>2, <2>1, <2>2, <2>3
<1>4. (\A t \in Req : ~(Live(t) /\ tokens[t].family = f)) => Holder[f] = None
  BY <1>1, <1>2
<1> QED BY <1>3, <1>4

\* The same after a step.
LEMMA HolderIsNext ==
  IInv' => \A f \in Req :
             /\ \A t \in Req : Live(t)' /\ tokens'[t].family = f => Holder'[f] = t
             /\ (\A t \in Req : ~(Live(t)' /\ tokens'[t].family = f)) => Holder'[f] = None
<1>1. (IInv => \A f \in Req :
            /\ \A t \in Req : Live(t) /\ tokens[t].family = f => Holder[f] = t
            /\ (\A t \in Req : ~(Live(t) /\ tokens[t].family = f)) => Holder[f] = None)'
  BY HolderIs, PTL
<1> QED BY <1>1

\* A family whose live rows stay keeps its holder.
LEMMA HolderKept ==
  ASSUME IInv, IInv', NEW f \in Req,
         \A t \in Req : Live(t)' /\ tokens'[t].family = f <=> Live(t) /\ tokens[t].family = f
  PROVE  Holder'[f] = Holder[f]
<1>1. /\ \A t \in Req : Live(t) /\ tokens[t].family = f => Holder[f] = t
      /\ (\A t \in Req : ~(Live(t) /\ tokens[t].family = f)) => Holder[f] = None
  BY HolderIs
<1>2. /\ \A t \in Req : Live(t)' /\ tokens'[t].family = f => Holder'[f] = t
      /\ (\A t \in Req : ~(Live(t)' /\ tokens'[t].family = f)) => Holder'[f] = None
  BY HolderIsNext
<1> QED BY <1>1, <1>2

\* A session belongs to the user of its rows, and has that of its login.
LEMMA OwnerIs ==
  ASSUME HInv, NEW f \in Req
  PROVE  /\ \A t \in Req : Exists(t) /\ tokens[t].family = f
                           => Owner[f] = tokens[t].user /\ Key[f] = req[f].seen
         /\ (\A t \in Req : ~(Exists(t) /\ tokens[t].family = f))
              => Owner[f] = None /\ Key[f] = None
<1>1. Family(f) = {t \in Req : Exists(t) /\ tokens[t].family = f}
  BY DEF Family
<1>2. ASSUME NEW t \in Req, Exists(t), tokens[t].family = f
      PROVE  Owner[f] = tokens[t].user /\ Key[f] = req[f].seen
  <2>1. Exists(f) /\ tokens[f].user = tokens[t].user
    BY <1>2, HInvUse, RowsAreOld
  <2>2. tokens[f].user = req[f].user
    BY <2>1, HInvUse DEF Inserted
  <2>3. Family(f) # {}
    BY <1>1, <1>2
  <2> QED BY <2>1, <2>2, <2>3 DEF Owner, Key
<1>3. (\A t \in Req : ~(Exists(t) /\ tokens[t].family = f)) => Owner[f] = None /\ Key[f] = None
  BY <1>1 DEF Owner, Key
<1> QED BY <1>2, <1>3

\* Owner and key of a family go with its being open: they change for the family
\* that a login opens only.
LEMMA OwnerKept ==
  ASSUME NEW f \in Req, req'[f] = req[f] \/ Family(f) = {},
         Family(f)' = {} <=> Family(f) = {}
  PROVE  Owner'[f] = Owner[f] /\ Key'[f] = Key[f]
BY DEF Owner, Key

\* The abstract variables are functions on users and families, by definition.
LEMMA AbsFunctions ==
  /\ Credential = [u \in Users |-> Credential[u]] /\ Credential' = [u \in Users |-> Credential'[u]]
  /\ Active = [u \in Users |-> Active[u]] /\ Active' = [u \in Users |-> Active'[u]]
  /\ Owner = [f \in Req |-> Owner[f]] /\ Owner' = [f \in Req |-> Owner'[f]]
  /\ Key = [f \in Req |-> Key[f]] /\ Key' = [f \in Req |-> Key'[f]]
  /\ Holder = [f \in Req |-> Holder[f]] /\ Holder' = [f \in Req |-> Holder'[f]]
<1>1. /\ Credential = [u \in Users |-> Credential[u]] /\ Active = [u \in Users |-> Active[u]]
      /\ Owner = [f \in Req |-> Owner[f]] /\ Key = [f \in Req |-> Key[f]]
      /\ Holder = [f \in Req |-> Holder[f]]
  BY DEF Credential, Active, Owner, Key, Holder
<1>2. (/\ Credential = [u \in Users |-> Credential[u]] /\ Active = [u \in Users |-> Active[u]]
       /\ Owner = [f \in Req |-> Owner[f]] /\ Key = [f \in Req |-> Key[f]]
       /\ Holder = [f \in Req |-> Holder[f]])'
  BY <1>1, PTL
<1> QED BY <1>1, <1>2

\* Steps that touch no row and no request behind a row stutter, for sessions.
LEMMA SessionsKept ==
  ASSUME HInv, IInv', UNCHANGED tokens,
         \A f \in Req : req'[f] = req[f] \/ pc[f] # "done"
  PROVE  UNCHANGED <<Owner, Key, Holder>>
<1>1. ASSUME NEW f \in Req
      PROVE  Owner'[f] = Owner[f] /\ Key'[f] = Key[f] /\ Holder'[f] = Holder[f]
  <2>1. Family(f)' = Family(f)
    BY DEF Family, Exists
  <2>2. req'[f] = req[f] \/ Family(f) = {}
    BY HInvUse, RowsAreOld DEF Family
  <2>3. Holder'[f] = Holder[f]
    BY HolderKept, HInvUse DEF Live, Exists
  <2> QED BY <2>1, <2>2, <2>3, OwnerKept
<1> HIDE DEF Owner, Key, Holder
<1> QED BY <1>1, AbsFunctions

\* A step without a commit.
LEMMA AbsQuiet ==
  ASSUME HInv, IInv', NEW r \in Req, Quiet(r)
  PROVE  UNCHANGED Abs!vars
<1>1. UNCHANGED <<Owner, Key, Holder>>
  BY SessionsKept DEF Quiet
<1>2. UNCHANGED <<Credential, Active>>
  BY DEF Quiet, Credential, Active
<1> QED BY <1>1, <1>2 DEF Abs!vars

\* What commits leave of the accounts, as SessionsAbs sees them.
LEMMA AbsAccounts ==
  ASSUME HInv, NEW r \in Req, Commit(r)
  PROVE  /\ Active' = Active
         /\ req[r].op # "CHANGE_PASSWORD" => Credential' = Credential
         /\ req[r].op = "CHANGE_PASSWORD" =>
              Credential' = [Credential EXCEPT ![req[r].user] = req[r].new]
<1>1. \A v \in Users : users'[v].active = users[v].active
  BY CommitUsers, HInvUse
<1>2. req[r].op # "CHANGE_PASSWORD" => \A v \in Users : users'[v].hash = users[v].hash
  BY CommitUsers, HInvUse
<1>3. req[r].op = "CHANGE_PASSWORD" =>
        \A v \in Users : users'[v].hash = IF v = req[r].user THEN req[r].new ELSE users[v].hash
  BY CommitUsers, HInvUse
<1> QED BY <1>1, <1>2, <1>3 DEF Active, Credential

\* A commit that does not open a session leaves owners and keys.
LEMMA CommitOwners ==
  ASSUME HInv, NEW r \in Req, Commit(r), NEW f \in Req,
         Issues(r) => req[r].op = "REFRESH" \/ f # r
  PROVE  Owner'[f] = Owner[f] /\ Key'[f] = Key[f]
<1>1. IInv /\ req' = req
  BY HInvUse, CommitLocals
<1>2. \A t \in Req : Exists(t) /\ tokens[t].family = f => Exists(t)' /\ tokens'[t].family = f
  BY <1>1, CommitRows
<1>3. ASSUME NEW t \in Req, Exists(t)', tokens'[t].family = f
      PROVE  \E p \in Req : Exists(p) /\ tokens[p].family = f
  <2>1. CASE t # r
    BY <1>1, <1>3, <2>1, CommitRows
  <2>2. CASE t = r
    <3>1. Issues(r) /\ NewRow(r).family = f /\ req[r].op \in {"LOGIN", "REFRESH"}
      BY <1>1, <1>3, <2>2, CommitRows, CommitContext DEF Issues
    <3>2. req[r].op = "REFRESH" /\ req[r].family = f
      BY <1>1, <3>1, NewRowIs
    <3> QED BY <3>1, <3>2, RotationContext
  <2> QED BY <2>1, <2>2
<1>4. Family(f)' = {} <=> Family(f) = {}
  BY <1>2, <1>3 DEF Family
<1> QED BY <1>1, <1>4, OwnerKept

\* A login's commit opens the session named after it.
LEMMA AbsLogin ==
  ASSUME HInv, IInv', NEW r \in Req, Commit(r), Issues(r), req[r].op = "LOGIN"
  PROVE  Abs!Open(r, req[r].user, r)
<1> DEFINE u == req[r].user
<1>1. /\ IInv /\ Running(r) /\ u \in Users /\ pc[r] = "inserted" /\ targets[r] = {}
      /\ Confirmed(r)
  BY HInvUse, CommitContext DEF Issues, IInv, TargetsOK
<1>2. tokens'[r] = NewRow(r) /\ NewRow(r).family = r /\ Exists(r)' /\ Live(r)'
  BY <1>1, CommitRows, NewRowIs DEF Live
<1>3. \A t \in Req : Exists(t) => tokens[t].family # r
  BY <1>1, CommitContext
<1>4. Owner[r] = None
  BY <1>3, OwnerIs
<1>5. Active[u] /\ Credential[u] = req[r].seen
  <2>1. users[u].active
    BY <1>1 DEF Confirmed
  <2>2. users[u].hash = req[r].seen
    BY <1>1 DEF IInv, SeenIsCurrent
  <2> QED BY <1>1, <2>1, <2>2 DEF Active, Credential
<1>6. Owner'[r] = u /\ Key'[r] = Credential[u] /\ Holder'[r] = r
  <2>1. req' = req /\ Family(r)' # {}
    BY <1>1, <1>2, CommitLocals DEF Family
  <2>2. Holder'[r] = r
    BY <1>2, HolderIsNext
  <2> QED BY <1>5, <2>1, <2>2 DEF Owner, Key
<1>7. ASSUME NEW f \in Req, f # r
      PROVE  Owner'[f] = Owner[f] /\ Key'[f] = Key[f] /\ Holder'[f] = Holder[f]
  <2>1. \A t \in Req : Live(t)' /\ tokens'[t].family = f <=> Live(t) /\ tokens[t].family = f
    <3>1. ASSUME NEW t \in Req, t # r PROVE tokens'[t] = tokens[t]
      BY <1>1, <3>1, CommitRows
    <3>2. ~Live(r)
      BY <1>1, CommitContext DEF Live
    <3> QED BY <1>2, <1>7, <3>1, <3>2 DEF Live, Exists
  <2> QED BY <1>1, <1>7, <2>1, CommitOwners, HolderKept
<1>8. Credential' = Credential /\ Active' = Active
  BY AbsAccounts
<1> HIDE DEF u
<1>9. /\ Owner' = [Owner EXCEPT ![r] = u] /\ Key' = [Key EXCEPT ![r] = Credential[u]]
      /\ Holder' = [Holder EXCEPT ![r] = r]
  BY <1>6, <1>7, AbsFunctions
<1> QED BY <1>4, <1>5, <1>8, <1>9 DEF Abs!Open, u

\* A refresh's commit hands the session to the new token.
LEMMA AbsRotate ==
  ASSUME HInv, IInv', NEW r \in Req, Commit(r), Issues(r), req[r].op = "REFRESH"
  PROVE  Abs!Rotate(req[r].family, r) /\ req[r].family \in Req
<1> DEFINE f == req[r].family
           p == req[r].token
<1>1. /\ IInv /\ Running(r) /\ pc[r] = "inserted" /\ Confirmed(r) /\ ~Exists(r)
      /\ req[r].user \in Users
  BY HInvUse, CommitContext DEF Issues
<1>2. /\ p \in Req /\ Live(p) /\ Exists(p) /\ targets[r] = {p}
      /\ tokens[p].user = req[r].user /\ tokens[p].family = f
  BY RotationContext
<1>3. f \in Req
  BY <1>1, <1>2, RowsAreOld
<1>4. Holder[f] = p /\ p # None /\ p # r
  BY <1>1, <1>2, <1>3, HolderIs, NoneAssumption
<1>5. Active[Owner[f]]
  <2>1. Owner[f] = req[r].user
    BY <1>2, <1>3, OwnerIs
  <2>2. users[req[r].user].active
    BY <1>1 DEF Confirmed
  <2> QED BY <1>1, <2>1, <2>2 DEF Active
<1>6. Holder'[f] = r
  <2>1. tokens'[r] = NewRow(r) /\ NewRow(r).family = f /\ Live(r)'
    BY <1>1, CommitRows, NewRowIs DEF Live
  <2> QED BY <1>3, <2>1, HolderIsNext
<1>7. ASSUME NEW g \in Req, g # f
      PROVE  Holder'[g] = Holder[g]
  <2>1. ASSUME NEW t \in Req
        PROVE  Live(t)' /\ tokens'[t].family = g <=> Live(t) /\ tokens[t].family = g
    <3>1. CASE t = r
      BY <1>1, <1>7, <3>1, CommitRows, NewRowIs DEF Live
    <3>2. CASE t = p
      BY <1>1, <1>2, <1>7, <3>2, CommitRows DEF Live
    <3>3. CASE t # r /\ t # p
      BY <1>1, <1>2, <3>3, CommitRows DEF Live, Exists
    <3> QED BY <3>1, <3>2, <3>3
  <2> QED BY <1>1, <2>1, HolderKept
<1>8. Credential' = Credential /\ Active' = Active
  BY AbsAccounts
<1>9. \A g \in Req : Owner'[g] = Owner[g] /\ Key'[g] = Key[g]
  BY CommitOwners
<1> HIDE DEF f, p
<1>10. Owner' = Owner /\ Key' = Key /\ Holder' = [Holder EXCEPT ![f] = r]
  BY <1>3, <1>6, <1>7, <1>9, AbsFunctions
<1> QED BY <1>3, <1>4, <1>5, <1>8, <1>10 DEF Abs!Rotate, f

\* The UPDATE of logout_all and change_password leaves its user nothing live.
LEMMA UserRevoked ==
  ASSUME HInv, NEW r \in Req, Commit(r), req[r].op \in {"LOGOUT_ALL", "CHANGE_PASSWORD"}
  PROVE  /\ ~Issues(r)
         /\ \A t \in Req : ~(Live(t)' /\ tokens'[t].user = req[r].user)
<1>1. /\ IInv /\ Running(r) /\ pc[r] = "updated" /\ ~Issues(r)
  BY HInvUse, CommitContext DEF Issues
<1>2. ASSUME NEW t \in Req, Live(t)', tokens'[t].user = req[r].user
      PROVE  FALSE
  <2>1. t # r
    BY <1>1, <1>2, CommitRows DEF Live
  <2>2. Live(t) /\ t \notin targets[r] /\ tokens[t].user = req[r].user
    BY <1>1, <1>2, <2>1, CommitRows DEF Live
  <2> QED BY <1>1, <2>2 DEF IInv, TargetsOK, Matches
<1> QED BY <1>1, <1>2

\* The commit of a logout, or of the refresh that detected a reuse, closes one
\* session.
LEMMA AbsCloseOne ==
  ASSUME HInv, IInv', NEW r \in Req, Commit(r), ~Issues(r),
         req[r].op \in {"REFRESH", "LOGOUT"}
  PROVE  Abs!CloseOne(req[r].family) /\ req[r].family \in Req
<1> DEFINE f == req[r].family
<1>1. IInv /\ Running(r) /\ FamilyTargets(r)
  BY HInvUse, CommitContext
<1>2. f \in Req
  <2>1. /\ req[r].token \in Req /\ Exists(req[r].token)
        /\ tokens[req[r].token].family = f
    BY <1>1 DEF IInv, IdentityOK
  <2> QED BY <1>1, <2>1, RowsAreOld
<1>3. Holder'[f] = None
  <2>1. \A t \in Req : Live(t)' => Exists(t)'
    BY DEF Live
  <2> QED BY <1>2, <2>1, FamilyRevoked, HolderIsNext
<1>4. ASSUME NEW g \in Req, g # f
      PROVE  Holder'[g] = Holder[g]
  <2>1. ASSUME NEW t \in Req
        PROVE  Live(t)' /\ tokens'[t].family = g <=> Live(t) /\ tokens[t].family = g
    <3>1. CASE t = r
      BY <1>1, <3>1, CommitRows, CommitContext DEF Live
    <3>2. CASE t \in targets[r]
      BY <1>1, <1>4, <3>2, CommitRows, CommitContext DEF FamilyTargets, Live
    <3>3. CASE t # r /\ t \notin targets[r]
      BY <1>1, <3>3, CommitRows DEF Live, Exists
    <3> QED BY <3>1, <3>2, <3>3
  <2> QED BY <1>1, <2>1, HolderKept
<1>5. Credential' = Credential /\ Active' = Active
  BY AbsAccounts
<1>6. \A g \in Req : Owner'[g] = Owner[g] /\ Key'[g] = Key[g]
  BY CommitOwners
<1> HIDE DEF f
<1>7. /\ Owner' = Owner /\ Key' = Key
      /\ Holder' = [g \in Req |-> IF g \in {f} THEN None ELSE Holder[g]]
  BY <1>3, <1>4, <1>6, AbsFunctions
<1> QED BY <1>2, <1>5, <1>7 DEF Abs!CloseOne, Abs!Close, f

\* The commit of logout_all or change_password closes the user's sessions.
LEMMA AbsCloseAll ==
  ASSUME HInv, IInv', NEW r \in Req, Commit(r),
         req[r].op \in {"LOGOUT_ALL", "CHANGE_PASSWORD"}
  PROVE  Abs!Close(Abs!SessionsOf(req[r].user)) /\ req[r].user \in Users
<1> DEFINE u == req[r].user
<1>1. IInv /\ Running(r) /\ u \in Users /\ ~Issues(r)
  BY HInvUse, CommitContext, UserRevoked
<1>2. ASSUME NEW f \in Req, Owner[f] = u
      PROVE  Holder'[f] = None
  <2>1. \A t \in Req : Exists(t) /\ tokens[t].family = f => tokens[t].user = u
    BY <1>2, OwnerIs
  <2>2. ASSUME NEW t \in Req, Live(t)', tokens'[t].family = f
        PROVE  FALSE
    <3>1. t # r /\ Exists(t) /\ tokens[t].family = f /\ tokens'[t].user = tokens[t].user
      BY <1>1, <2>2, CommitRows DEF Live
    <3> QED BY <2>1, <2>2, <3>1, UserRevoked
  <2> QED BY <2>2, HolderIsNext
<1>3. ASSUME NEW f \in Req, Owner[f] # u
      PROVE  Holder'[f] = Holder[f]
  <2>1. \A t \in Req : Exists(t) /\ tokens[t].family = f => tokens[t].user # u
    BY <1>3, OwnerIs
  <2>2. ASSUME NEW t \in Req
        PROVE  Live(t)' /\ tokens'[t].family = f <=> Live(t) /\ tokens[t].family = f
    <3>1. CASE t = r
      BY <1>1, <3>1, CommitRows, CommitContext DEF Live
    <3>2. CASE t \in targets[r]
      BY <1>1, <2>1, <3>2, CommitRows, CommitContext DEF Live
    <3>3. CASE t # r /\ t \notin targets[r]
      BY <1>1, <3>3, CommitRows DEF Live, Exists
    <3> QED BY <3>1, <3>2, <3>3
  <2> QED BY <1>1, <2>2, HolderKept
<1>4. Active' = Active
  BY AbsAccounts
<1>5. \A g \in Req : Owner'[g] = Owner[g] /\ Key'[g] = Key[g]
  BY <1>1, CommitOwners
<1> HIDE DEF u
<1>6. /\ Owner' = Owner /\ Key' = Key
      /\ Holder' = [g \in Req |-> IF g \in Abs!SessionsOf(u) THEN None ELSE Holder[g]]
  BY <1>2, <1>3, <1>5, AbsFunctions DEF Abs!SessionsOf
<1> QED BY <1>1, <1>4, <1>6 DEF Abs!Close, u

\* Every commit is one atomic operation.
LEMMA AbsCommit ==
  ASSUME HInv, IInv', NEW r \in Req, Commit(r)
  PROVE  Abs!Next
<1>1. /\ IInv /\ Running(r) /\ req[r].user \in Users /\ Confirmed(r)
      /\ Issues(r) => req[r].op \in {"LOGIN", "REFRESH"}
      /\ ~Issues(r) => pc[r] = "updated" /\
           req[r].op \in {"REFRESH", "LOGOUT", "LOGOUT_ALL", "CHANGE_PASSWORD"}
  BY HInvUse, CommitContext DEF Issues
<1>2. CASE Issues(r) /\ req[r].op = "LOGIN"
  BY <1>1, <1>2, AbsLogin DEF Abs!Next
<1>3. CASE Issues(r) /\ req[r].op = "REFRESH"
  BY <1>3, AbsRotate DEF Abs!Next
<1>4. CASE ~Issues(r) /\ req[r].op \in {"REFRESH", "LOGOUT"}
  BY <1>4, AbsCloseOne DEF Abs!Next
<1>5. CASE ~Issues(r) /\ req[r].op = "LOGOUT_ALL"
  <2>1. Abs!CloseAll(req[r].user)
    BY <1>5, AbsCloseAll, AbsAccounts DEF Abs!CloseAll
  <2> QED BY <1>1, <2>1 DEF Abs!Next
<1>6. CASE ~Issues(r) /\ req[r].op = "CHANGE_PASSWORD"
  <2>1. Active[req[r].user]
    BY <1>1, <1>6 DEF Confirmed, Active
  <2>2. Abs!ChangeCredential(req[r].user, req[r].new)
    BY <1>6, <2>1, AbsCloseAll, AbsAccounts DEF Abs!ChangeCredential
  <2> QED BY <1>1, <1>6, <2>2, CommitSalts DEF Abs!Next
<1> QED BY <1>1, <1>2, <1>3, <1>4, <1>5, <1>6

\* So is an operator's change of is_active.
LEMMA AbsSetActive ==
  ASSUME HInv, IInv', NEW u \in Users, SetActive(u)
  PROVE  Abs!SetActive(u)
<1>1. UNCHANGED <<Owner, Key, Holder>>
  BY SessionsKept DEF SetActive, local
<1>2. \A v \in Users : /\ users'[v].hash = users[v].hash
                       /\ users'[v].active = IF v = u THEN ~users[v].active ELSE users[v].active
  BY HInvUse DEF SetActive, HInv, IInv, TypeOK
<1>3. Credential' = Credential
  BY <1>2 DEF Credential
<1>4. Active' = [Active EXCEPT ![u] = ~Active[u]]
  BY <1>2 DEF Active
<1> QED BY <1>1, <1>3, <1>4 DEF Abs!SetActive

\* The service, statement by statement and under every interleaving, implements
\* the atomic one: each commit is one operation of it, with the account active,
\* the password current and the token live as its earlier reads found them.
THEOREM ServiceImplementsAbs == Spec => ImplementsAbs
<1>1. Init => Abs!Init
  BY AbsInit
<1>2. HInv /\ HInv' /\ [Next]_vars => [Abs!Next]_(Abs!vars)
  <2> SUFFICES ASSUME HInv, HInv', [Next]_vars PROVE [Abs!Next]_(Abs!vars)
    OBVIOUS
  <2>1. IInv'
    BY DEF HInv
  <2>2. ASSUME NEW r \in Req, Quiet(r) PROVE [Abs!Next]_(Abs!vars)
    BY <2>1, <2>2, AbsQuiet
  <2>3. ASSUME NEW r \in Req, Commit(r) PROVE [Abs!Next]_(Abs!vars)
    BY <2>1, <2>3, AbsCommit
  <2>4. ASSUME NEW u \in Users, SetActive(u) PROVE [Abs!Next]_(Abs!vars)
    BY <2>1, <2>4, AbsSetActive DEF Abs!Next
  <2>5. CASE clock <= clock' /\ UNCHANGED <<data, locks, local>>
    <3>1. UNCHANGED <<users, tokens, req>>
      BY <2>5 DEF data, local
    <3>2. UNCHANGED <<Owner, Key, Holder>>
      BY <2>1, <3>1, SessionsKept
    <3>3. UNCHANGED <<Credential, Active>>
      BY <3>1 DEF Credential, Active
    <3> QED BY <3>2, <3>3 DEF Abs!vars
  <2> QED BY <2>2, <2>3, <2>4, <2>5, Steps
<1> QED BY <1>1, <1>2, HistoryInvariance, PTL DEF Spec, Abs!Spec, ImplementsAbs
=============================================================================
