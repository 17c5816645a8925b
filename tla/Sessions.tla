------------------------------ MODULE Sessions ------------------------------
(***************************************************************************)
(* Sign-in sessions of the service: POST /auth/login, /auth/refresh,       *)
(* /auth/logout, /auth/logout-all and POST /users/me/password, run          *)
(* concurrently by uvicorn workers against one PostgreSQL database at      *)
(* READ COMMITTED.                                                         *)
(*                                                                         *)
(* A request is one-shot: `Req' is the set of requests an instance may     *)
(* receive.  What a request creates is named after it, so the refresh      *)
(* token row inserted by r is row r, the family opened by the login r is   *)
(* family r, and the salt of the password hash computed by r is r.  Fresh  *)
(* UUIDs, token secrets and password salts are thereby fresh by construction *)
(* and nothing counts upwards.                                             *)
(*                                                                         *)
(* A request is a sequence of SQL statements.  What it has written but not *)
(* committed is a function of its own local state (req, now, targets) and  *)
(* becomes visible in `tokens' and `users' in its Commit step only; row    *)
(* locks are taken statement by statement and all released at the end of   *)
(* the transaction.                                                        *)
(***************************************************************************)
EXTENDS Integers

CONSTANTS
  Users,           \* rows of the users table, all present from the start
  Req,             \* one-shot HTTP requests
  Passwords,       \* plaintext passwords
  InitialPassword, \* every account's password in the initial state
  RefreshTTL,      \* refresh_token_ttl_days, in ticks
  AccessTTL,       \* access_token_ttl_minutes, in ticks
  MaxClock,        \* bound on the clock: model-checking only
  Ops,             \* the operations an instance offers, see AllOps
  None             \* SQL NULL, Python None, "no such row", "nobody"

AllOps == {"LOGIN", "REFRESH", "LOGOUT", "LOGOUT_ALL", "CHANGE_PASSWORD"}

Times  == 0 .. MaxClock
\* An Argon2 hash: two hashes of one password by two requests differ by salt.
Hashes == [plain : Passwords, salt : Req \cup {None}]
\* The columns of refresh_tokens that the code reads or writes.
Rows   == [user : Users, family : Req, expires : Nat,
           revoked : Times \cup {None}, next : Req \cup {None}]

Places  == {"idle", "lock_user", "lock_owner", "lock_token", "issue", "decide",
            "revoke", "update", "inserted", "updated", "done"}
Answers == {"TOKENS", "LOGGED_OUT", "LOGGED_OUT_ALL", "CHANGED",
            "INVALID_CREDENTIALS", "INVALID_REFRESH", "REUSED",
            "UNAUTHENTICATED", "WRONG_PASSWORD", "PASSWORD_REUSE", "ERROR"}

ASSUME ConstantsAssumption ==
  /\ InitialPassword \in Passwords
  /\ RefreshTTL \in Nat \ {0} /\ AccessTTL \in Nat \ {0}
  /\ MaxClock \in Nat
  /\ Ops \subseteq AllOps \cup {"SET_ACTIVE", "ABORT"}
ASSUME NoneAssumption ==
  None \notin Users \cup Req \cup Times \cup Hashes \cup Rows \cup Answers

VARIABLES
  clock,      \* datetime.now(UTC), shared by all workers
  users,      \* committed rows of users: password hash and is_active
  tokens,     \* committed rows of refresh_tokens, None where there is none
  userLock,   \* the request whose transaction holds a users row FOR UPDATE
  tokenLock,  \* the same for rows of refresh_tokens
  pc,         \* where each request is
  req,        \* what it was asked and what it captured when it arrived
  now,        \* the `now' a request has read
  targets,    \* the rows its UPDATE refresh_tokens works on
  answer      \* its answer: None until it has one

data  == <<users, tokens>>
locks == <<userLock, tokenLock>>
local == <<pc, req, now, targets, answer>>
vars  == <<clock, users, tokens, userLock, tokenLock,
           pc, req, now, targets, answer>>

Requests == [op : AllOps \cup {None}, user : Users \cup {None},
             family : Req \cup {None}, token : Req \cup {None},
             seen : Hashes \cup {None}, new : Hashes \cup {None}]

NoRequest == [op |-> None, user |-> None, family |-> None, token |-> None,
              seen |-> None, new |-> None]

Init ==
  /\ clock     = 0
  /\ users     = [u \in Users |->
                    [hash |-> [plain |-> InitialPassword, salt |-> None],
                     active |-> TRUE]]
  /\ tokens    = [t \in Req |-> None]
  /\ userLock  = [u \in Users |-> None]
  /\ tokenLock = [t \in Req |-> None]
  /\ pc        = [r \in Req |-> "idle"]
  /\ req       = [r \in Req |-> NoRequest]
  /\ now       = [r \in Req |-> 0]
  /\ targets   = [r \in Req |-> {}]
  /\ answer    = [r \in Req |-> None]

-----------------------------------------------------------------------------
(* Helpers *)

Exists(t) == tokens[t] # None
Live(t)   == Exists(t) /\ tokens[t].revoked = None

\* The access token that request a answered with: alive until its exp claim.
AccessValid(a) == /\ answer[a] = "TOKENS"
                  /\ clock < now[a] + AccessTTL

Goto(r, place) == pc' = [pc EXCEPT ![r] = place]

Arrive(r, op, u, f, t, seen, new) ==
  /\ op \in Ops
  /\ pc[r] = "idle"
  /\ req' = [req EXCEPT ![r] = [op |-> op, user |-> u, family |-> f, token |-> t,
                                seen |-> seen, new |-> new]]

\* The end of the transaction, committed or rolled back, and the answer.
ReleaseLocks(r) ==
  /\ userLock'  = [u \in Users |-> IF userLock[u] = r THEN None ELSE userLock[u]]
  /\ tokenLock' = [t \in Req |-> IF tokenLock[t] = r THEN None ELSE tokenLock[t]]

Reply(r, code) ==
  /\ Goto(r, "done")
  /\ answer' = [answer EXCEPT ![r] = code]

RollbackForgotten(r, code) ==  \* mutant: the transaction stays open
  /\ Reply(r, code)
  /\ UNCHANGED <<data, locks>>

Rollback(r, code) ==
  /\ ReleaseLocks(r)
  /\ Reply(r, code)
  /\ UNCHANGED <<users, tokens>>

-----------------------------------------------------------------------------
(* Arrivals: what a request does up to the first lock it asks for.         *)

\* login, first transaction: capture id, hash and is_active, then verify the
\* password outside any transaction against what was captured.  The outcome is
\* fixed by the capture, so it is decided in the same step.
LoginSnapshot(r, u, password) ==
  /\ Arrive(r, "LOGIN", u, None, None, users[u].hash, None)
  /\ IF password = users[u].hash.plain /\ users[u].active
       THEN Goto(r, "lock_user") /\ UNCHANGED answer
       ELSE Reply(r, "INVALID_CREDENTIALS")
  /\ UNCHANGED <<clock, data, locks, now, targets>>

\* login of an e-mail nobody has: a dummy verification, then the same answer.
LoginUnknown(r) ==
  /\ Arrive(r, "LOGIN", None, None, None, None, None)
  /\ Reply(r, "INVALID_CREDENTIALS")
  /\ UNCHANGED <<clock, data, locks, now, targets>>

\* refresh and logout, first statement: read owner and family, without a lock.
PresentToken(r, op, t) ==
  /\ op \in {"REFRESH", "LOGOUT"}
  /\ IF Exists(t)
       THEN /\ Arrive(r, op, tokens[t].user, tokens[t].family, t, None, None)
            /\ Goto(r, "lock_owner")
            /\ UNCHANGED answer
       ELSE /\ Arrive(r, op, None, None, t, None, None)
            /\ Reply(r, "INVALID_REFRESH")
  /\ UNCHANGED <<clock, data, locks, now, targets>>

\* get_current_user: signature and expiry of the bearer token, then the row.
Authenticates(a) == AccessValid(a) /\ users[tokens[a].user].active

\* A bearer token that get_current_user refuses ends the request with 401.
Unauthenticated(r, op, a) ==
  /\ op \in {"LOGOUT_ALL", "CHANGE_PASSWORD"}
  /\ ~Authenticates(a)
  /\ Arrive(r, op, None, None, a, None, None)
  /\ Reply(r, "UNAUTHENTICATED")
  /\ UNCHANGED <<clock, data, locks, now, targets>>

\* logout-all reads `now' before it asks for the lock.
LogoutAllStart(r, a) ==
  /\ Authenticates(a)
  /\ Arrive(r, "LOGOUT_ALL", tokens[a].user, None, a, None, None)
  /\ now' = [now EXCEPT ![r] = clock]
  /\ Goto(r, "lock_user")
  /\ UNCHANGED <<clock, data, locks, targets, answer>>

\* change_password captures the hash, ends the transaction, and verifies and
\* hashes outside: wrong current password, reuse of it, or a new hash.
ChangePasswordStart(r, a, current, new) ==
  LET hash == users[tokens[a].user].hash
  IN /\ Authenticates(a)
     /\ Arrive(r, "CHANGE_PASSWORD", tokens[a].user, None, a, hash,
               [plain |-> new, salt |-> r])
     /\ CASE current # hash.plain -> Reply(r, "WRONG_PASSWORD")
          [] current = hash.plain /\ new = hash.plain -> Reply(r, "PASSWORD_REUSE")
          [] OTHER -> Goto(r, "lock_user") /\ UNCHANGED answer
     /\ UNCHANGED <<clock, data, locks, now, targets>>

-----------------------------------------------------------------------------
(* Under locks *)

\* What login, logout-all and change_password check again on the locked row.
RecheckPlaintext(r) ==       \* mutant: is it still the same password?
  LET row == users[req[r].user]
  IN row.active /\ (req[r].op # "LOGOUT_ALL" => row.hash.plain = req[r].seen.plain)

RecheckHashOnly(r) ==        \* mutant: is_active was checked before
  req[r].op # "LOGOUT_ALL" => users[req[r].user].hash = req[r].seen

Recheck(r) ==
  LET row == users[req[r].user]
  IN row.active /\ (req[r].op # "LOGOUT_ALL" => row.hash = req[r].seen)

LockUserUnlocked(r) ==       \* mutant: SELECT without FOR UPDATE
  /\ pc[r] = "lock_user"
  /\ Recheck(r)
  /\ Goto(r, IF req[r].op = "LOGIN" THEN "issue" ELSE "revoke")
  /\ UNCHANGED <<clock, data, locks, req, now, targets, answer>>

\* get_user_for_update: waits for the row, then sees its last commit.
LockUser(r) ==
  LET u == req[r].user
  IN /\ pc[r] = "lock_user"
     /\ userLock[u] = None
     /\ IF Recheck(r)
          THEN /\ userLock' = [userLock EXCEPT ![u] = r]
               /\ Goto(r, IF req[r].op = "LOGIN" THEN "issue" ELSE "revoke")
               /\ UNCHANGED <<data, tokenLock, answer>>
          ELSE Rollback(r, IF req[r].op = "LOGIN" THEN "INVALID_CREDENTIALS"
                                                  ELSE "UNAUTHENTICATED")
     /\ UNCHANGED <<clock, req, now, targets>>

\* login: the token row of a new family, and an access token of the same `now'.
IssueTokens(r) ==
  /\ pc[r] = "issue"
  /\ now' = [now EXCEPT ![r] = clock]
  /\ Goto(r, "inserted")
  /\ UNCHANGED <<clock, data, locks, req, targets, answer>>

LockOwnerSkipped(r) ==       \* mutant: only the token's row is locked
  /\ pc[r] = "lock_owner"
  /\ Goto(r, "lock_token")
  /\ UNCHANGED <<clock, data, locks, req, now, targets, answer>>

\* _lock_refresh_owner_and_token, second statement: the owner's row.
LockOwner(r) ==
  LET u == req[r].user
  IN /\ pc[r] = "lock_owner"
     /\ userLock[u] = None
     /\ userLock' = [userLock EXCEPT ![u] = r]
     /\ Goto(r, "lock_token")
     /\ UNCHANGED <<clock, data, tokenLock, req, now, targets, answer>>

\* Third statement: the token's row, and the identity read at first compared.
LockToken(r) ==
  LET t == req[r].token
  IN /\ pc[r] = "lock_token"
     /\ tokenLock[t] = None
     /\ IF /\ Exists(t)
           /\ tokens[t].user = req[r].user /\ tokens[t].family = req[r].family
          THEN /\ tokenLock' = [tokenLock EXCEPT ![t] = r]
               /\ Goto(r, IF req[r].op = "REFRESH" THEN "decide" ELSE "revoke")
               /\ UNCHANGED <<data, userLock, answer>>
          ELSE Rollback(r, "INVALID_REFRESH")
     /\ UNCHANGED <<clock, req, now, targets>>

ReusedNever(t) == FALSE      \* mutant: rotation does not look at revoked_at
Reused(t) == tokens[t].revoked # None

ExpiredNever(t) == FALSE     \* mutant: nor at expires_at
Expired(t) == tokens[t].expires <= clock

\* refresh, both rows locked: reuse of a revoked token revokes the family, an
\* expired token or an inactive owner rolls back, else the token is rotated.
RefreshDecide(r) ==
  LET t == req[r].token
  IN /\ pc[r] = "decide"
     /\ now' = [now EXCEPT ![r] = clock]
     /\ \/ /\ Reused(t)
           /\ Goto(r, "revoke")
           /\ UNCHANGED <<data, locks, targets, answer>>
        \/ /\ ~Reused(t)
           /\ Expired(t) \/ ~users[req[r].user].active
           /\ Rollback(r, "INVALID_REFRESH")
           /\ UNCHANGED targets
        \/ /\ ~Reused(t) /\ ~Expired(t) /\ users[req[r].user].active
           /\ Goto(r, "inserted")
           /\ targets' = [targets EXCEPT ![r] = {t}]
           /\ UNCHANGED <<data, locks, answer>>
     /\ UNCHANGED <<clock, req>>

\* The WHERE clause of revoke_family and revoke_all_for_user: live rows of the
\* presented token's family, or of the user.
Matches(r, t) ==
  /\ Live(t)
  /\ IF req[r].op \in {"REFRESH", "LOGOUT"}
       THEN tokens[t].family = req[r].family
       ELSE tokens[t].user = req[r].user

\* An UPDATE statement begins: it works on the rows committed at that moment.
\* logout and change_password read `now' for it here, under the lock.
BeginUpdate(r) ==
  /\ pc[r] = "revoke"
  /\ targets' = [targets EXCEPT ![r] = {t \in Req : Matches(r, t)}]
  /\ now' = IF req[r].op \in {"LOGOUT", "CHANGE_PASSWORD"}
              THEN [now EXCEPT ![r] = clock] ELSE now
  /\ Goto(r, "update")
  /\ UNCHANGED <<clock, data, locks, req, answer>>

\* It waits for every such row, and drops those that no longer match.
ApplyUpdate(r) ==
  /\ pc[r] = "update"
  /\ \A t \in targets[r] : tokenLock[t] \in {None, r}
  /\ LET hit == {t \in targets[r] : Matches(r, t)}
     IN /\ targets' = [targets EXCEPT ![r] = hit]
        /\ tokenLock' = [t \in Req |-> IF t \in hit THEN r ELSE tokenLock[t]]
  /\ Goto(r, "updated")
  /\ UNCHANGED <<clock, data, userLock, req, now, answer>>

\* r's transaction has inserted a token row: a login or a rotation.
Issues(r) == pc[r] = "inserted"

NewRowNoFamily(r) ==         \* mutant: a login's token has no family
  [user |-> req[r].user, family |-> req[r].family,
   expires |-> now[r] + RefreshTTL, revoked |-> None, next |-> None]

NewRow(r) == [user |-> req[r].user,
              family |-> IF req[r].op = "LOGIN" THEN r ELSE req[r].family,
              expires |-> now[r] + RefreshTTL,
              revoked |-> None, next |-> None]

\* What the transaction makes of a row it revokes.
RevokedRowUnlinked(r, t) == [tokens[t] EXCEPT !.revoked = now[r]]  \* mutant
RevokedRowStaysLive(r, t) ==                                       \* mutant
  [tokens[t] EXCEPT !.revoked = IF Issues(r) THEN None ELSE now[r],
                    !.next = IF Issues(r) THEN r ELSE tokens[t].next]
RevokedRow(r, t) ==
  [tokens[t] EXCEPT !.revoked = now[r],
                    !.next = IF Issues(r) THEN r ELSE tokens[t].next]

Verdict(r) == IF Issues(r) THEN "TOKENS"
              ELSE CASE req[r].op = "REFRESH" -> "REUSED"
                     [] req[r].op = "LOGOUT" -> "LOGGED_OUT"
                     [] req[r].op = "LOGOUT_ALL" -> "LOGGED_OUT_ALL"
                     [] req[r].op = "CHANGE_PASSWORD" -> "CHANGED"

\* COMMIT: everything the transaction wrote becomes visible at once.  The
\* answer, REUSED included, is given only afterwards.
Commit(r) ==
  /\ pc[r] \in {"inserted", "updated"}
  /\ tokens' = [t \in Req |->
       IF t = r /\ Issues(r) THEN NewRow(r)
       ELSE IF t \in targets[r] THEN RevokedRow(r, t) ELSE tokens[t]]
  /\ users' = IF req[r].op = "CHANGE_PASSWORD"
                THEN [users EXCEPT ![req[r].user].hash = req[r].new] ELSE users
  /\ ReleaseLocks(r)
  /\ Reply(r, Verdict(r))
  /\ UNCHANGED <<clock, req, now, targets>>

\* A statement fails or the worker dies: the open
\* transaction is rolled back, and so is all it wrote.
Abort(r) ==
  /\ "ABORT" \in Ops
  /\ pc[r] \notin {"idle", "done"}
  /\ Rollback(r, "ERROR")
  /\ UNCHANGED <<clock, req, now, targets>>

-----------------------------------------------------------------------------
(* The environment *)

\* An operator's UPDATE users SET is_active: no code of the service does it,
\* its tests do, and like any UPDATE it waits for the row's lock.
SetActive(u) ==
  /\ "SET_ACTIVE" \in Ops
  /\ userLock[u] = None
  /\ users' = [users EXCEPT ![u].active = ~users[u].active]
  /\ UNCHANGED <<clock, tokens, locks, local>>

Tick ==
  /\ clock < MaxClock
  /\ clock' = clock + 1
  /\ UNCHANGED <<data, locks, local>>

Terminated ==
  /\ \A r \in Req : pc[r] = "done"
  /\ UNCHANGED vars

-----------------------------------------------------------------------------

Arrival(r) ==
  \/ \E u \in Users, p \in Passwords : LoginSnapshot(r, u, p)
  \/ LoginUnknown(r)
  \/ \E t \in Req, op \in {"REFRESH", "LOGOUT"} : PresentToken(r, op, t)
  \/ \E a \in Req, op \in {"LOGOUT_ALL", "CHANGE_PASSWORD"} :
       Unauthenticated(r, op, a)
  \/ \E a \in Req : LogoutAllStart(r, a)
  \/ \E a \in Req, p, q \in Passwords : ChangePasswordStart(r, a, p, q)

\* What a request does once it has arrived, as long as nothing fails.
Advance(r) ==
  \/ LockUser(r) \/ IssueTokens(r)
  \/ LockOwner(r) \/ LockToken(r) \/ RefreshDecide(r)
  \/ BeginUpdate(r) \/ ApplyUpdate(r)
  \/ Commit(r)

Next ==
  \/ \E r \in Req : Arrival(r) \/ Advance(r) \/ Abort(r)
  \/ \E u \in Users : SetActive(u)
  \/ Tick
  \/ Terminated

Spec == Init /\ [][Next]_vars

\* The event loop and PostgreSQL keep running every statement they were given.
FairSpec == Spec /\ \A r \in Req : WF_vars(Advance(r))
=============================================================================
