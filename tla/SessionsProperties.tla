------------------------ MODULE SessionsProperties ------------------------
(***************************************************************************)
(* What must hold of Sessions whatever the interleaving.                   *)
(***************************************************************************)
EXTENDS Sessions

\* Every variable keeps to the values the code can give it.
TypeOK ==
  /\ clock \in Times
  /\ users \in [Users -> [hash : Hashes, active : BOOLEAN]]
  /\ tokens \in [Req -> Rows \cup {None}]
  /\ userLock \in [Users -> Req \cup {None}]
  /\ tokenLock \in [Req -> Req \cup {None}]
  /\ pc \in [Req -> Places]
  /\ req \in [Req -> Requests]
  /\ now \in [Req -> Times]
  /\ targets \in [Req -> SUBSET Req]
  /\ answer \in [Req -> Answers \cup {None}]

-----------------------------------------------------------------------------
(* Families *)

Family(f) == {t \in Req : Exists(t) /\ tokens[t].family = f}

\* A family that has been opened and has no live token left.
Ended(f) == Family(f) # {} /\ \A t \in Family(f) : ~Live(t)

\* Rotation (AuthService.refresh) never leaves a sign-in with two usable
\* refresh tokens, however many tabs refresh, log out and replay at once.
OneLivePerFamily ==
  \A s, t \in Req : Live(s) /\ Live(t) /\ tokens[s].family = tokens[t].family
                    => s = t

\* Following replaced_by_id from the login's token walks through the family:
\* every later row replaces exactly one earlier row of its family, and a row
\* that was replaced is revoked.
RotationPath ==
  \A t \in Req : Exists(t) =>
    /\ tokens[t].next # None => ~Live(t)
    /\ t # tokens[t].family =>
         \E p \in Family(tokens[t].family) :
            /\ tokens[p].next = t
            /\ \A q \in Req : Exists(q) /\ tokens[q].next = t => q = p

\* A refresh token buys at most one successor: of all the refreshes that
\* present it, concurrent or retried, at most one is answered with tokens.
RotatedOnce ==
  \A r, s \in Req :
    /\ req[r].op = "REFRESH" /\ req[s].op = "REFRESH"
    /\ answer[r] = "TOKENS" /\ answer[s] = "TOKENS"
    /\ req[r].token = req[s].token
    => r = s

\* A sign-in lives on only by refreshing before the refresh token expires, and
\* along a family expiry times never go back: `now' is read under the locks.
SlidingExpiry ==
  \A p \in Req : Exists(p) /\ tokens[p].next # None =>
    LET t == tokens[p].next
    IN /\ tokens[p].expires <= tokens[t].expires
       /\ tokens[t].expires < tokens[p].expires + RefreshTTL

-----------------------------------------------------------------------------
(* Ending sessions *)

\* Once a logout, or the refresh that detected a reuse, has been answered, the
\* family of the presented token has no live token, now or later.
AnsweredRevocationHolds ==
  \A r \in Req : answer[r] \in {"LOGGED_OUT", "REUSED"} => Ended(req[r].family)

\* No family comes back to life: not by a rotation that was under way when it
\* was revoked, nor by a login or a retry.
EndedForGood == [][\A f \in Req : Ended(f) => Ended(f)']_vars

\* The commit of logout_all and of change_password leaves its user without a
\* live token, those of requests that were waiting for the lock included.
NoSessionSurvives ==
  [][\A r \in Req :
       /\ answer[r] = None
       /\ answer'[r] \in {"LOGGED_OUT_ALL", "CHANGED"}
       => \A t \in Req : ~(Exists(t)' /\ tokens'[t].user = req[r].user
                           /\ tokens'[t].revoked = None)]_vars

\* Every live session was opened with the password its account has now: the
\* hash a login verified outside its transaction is still the account's, bit
\* for bit, for as long as the session has a live token.
LiveSessionsMatchPassword ==
  \A t \in Req : Live(t) =>
    req[tokens[t].family].seen = users[tokens[t].user].hash

\* Access tokens are not revoked, but logout, reuse detection and a password
\* change stop their supply: none of the sessions they end is issued one with
\* a later `now', so the last expires at most AccessTTL after them.
AccessSupplyStops ==
  \A r, a \in Req :
    /\ answer[r] \in {"LOGGED_OUT", "REUSED", "CHANGED"}
    /\ answer[a] = "TOKENS"
    /\ IF answer[r] = "CHANGED"
         THEN tokens[a].user = req[r].user
              /\ req[tokens[a].family].seen = req[r].seen
         ELSE tokens[a].family = req[r].family
    => now[a] <= now[r]

-----------------------------------------------------------------------------
(* Locks *)

Holds(r) == (\E u \in Users : userLock[u] = r) \/ (\E t \in Req : tokenLock[t] = r)

Waits(r) ==
  \/ pc[r] \in {"lock_user", "lock_owner"} /\ userLock[req[r].user] # None
  \/ pc[r] = "lock_token" /\ tokenLock[req[r].token] # None
  \/ pc[r] = "update" /\ \E t \in targets[r] : tokenLock[t] \notin {None, r}

\* Every writer of refresh tokens locks the owner's row first, so nobody who
\* holds a row lock ever waits for another: there is no deadlock to detect.
NoHoldAndWait == \A r \in Req : Holds(r) => ~Waits(r)

\* Every request that has arrived is answered in the end.
EveryRequestAnswered == \A r \in Req : pc[r] # "idle" ~> pc[r] = "done"

-----------------------------------------------------------------------------
(* The sessions as SessionsAbs sees them *)

Carriers(f) == {t \in Family(f) : Live(t)}

Credential == [u \in Users |-> users[u].hash]
Active     == [u \in Users |-> users[u].active]
Owner      == [f \in Req |-> IF Family(f) = {} THEN None ELSE req[f].user]
Key        == [f \in Req |-> IF Family(f) = {} THEN None ELSE req[f].seen]
Holder     == [f \in Req |-> IF Carriers(f) = {} THEN None
                             ELSE CHOOSE t \in Carriers(f) : TRUE]

Abs == INSTANCE SessionsAbs WITH
  Sessions    <- Req,
  Tokens      <- Req,
  Credentials <- Hashes,
  Initial     <- [plain |-> InitialPassword, salt |-> None],
  credential  <- Credential,
  active      <- Active,
  owner       <- Owner,
  key         <- Key,
  holder      <- Holder

\* The statement-by-statement service implements the atomic one: at its commit
\* every operation still has the right to do what its earlier reads allowed.
ImplementsAbs == Abs!Spec

-----------------------------------------------------------------------------
(* The inductive invariant behind them *)

Running(r) == pc[r] \notin {"idle", "done"}

\* Where a request can be follows from its operation, and with it what it has
\* captured: a running request knows its user, a password change its hashes.
PlacesOK ==
  \A r \in Req : Running(r) =>
    /\ req[r].user \in Users
    /\ req[r].op \in AllOps
    /\ req[r].op = "LOGIN" => pc[r] \in {"lock_user", "issue", "inserted"}
    /\ req[r].op = "REFRESH" => pc[r] \in {"lock_owner", "lock_token", "decide",
                                  "revoke", "update", "updated", "inserted"}
    /\ req[r].op = "LOGOUT" => pc[r] \in {"lock_owner", "lock_token",
                                 "revoke", "update", "updated"}
    /\ req[r].op \in {"LOGOUT_ALL", "CHANGE_PASSWORD"} =>
         pc[r] \in {"lock_user", "revoke", "update", "updated"}
    /\ req[r].op \in {"LOGIN", "CHANGE_PASSWORD"} => req[r].seen \in Hashes
    /\ req[r].op = "CHANGE_PASSWORD" => req[r].new \in Hashes

\* From the locking read to the end of the transaction the user's row is held.
OwnerLocked ==
  \A r \in Req : Running(r) /\ pc[r] \notin {"lock_user", "lock_owner"}
                => userLock[req[r].user] = r

\* The identity read without a lock still is the presented token's.
IdentityOK ==
  \A r \in Req : Running(r) /\ req[r].op \in {"REFRESH", "LOGOUT"} =>
    LET t == req[r].token
    IN /\ t \in Req /\ Exists(t)
       /\ tokens[t].user = req[r].user /\ tokens[t].family = req[r].family

\* Rows are inserted by answered requests; a family has a first row, of the
\* login it is named after, and one owner.
RootedRow(t) ==
  LET f == tokens[t].family
  IN /\ pc[t] = "done" /\ pc[f] = "done"
     /\ Exists(f)
     /\ tokens[f].user = tokens[t].user
     /\ req[f].seen \in Hashes

Rooted ==
  /\ \A t \in Req : answer[t] = "TOKENS" => Exists(t)
  /\ \A t \in Req : Exists(t) => RootedRow(t)

\* An UPDATE works on rows of the request's user only, and misses none that
\* still matches; a rotation revokes the token it was given, a login nothing.
TargetsOK ==
  \A r \in Req :
    /\ \A t \in targets[r] : Running(r) => Exists(t) /\ tokens[t].user = req[r].user
    /\ pc[r] \in {"update", "updated"} => \A t \in Req : Matches(r, t) => t \in targets[r]
    /\ pc[r] \in {"lock_user", "lock_owner", "lock_token", "issue", "decide", "idle"}
         => targets[r] = {}
    /\ pc[r] = "inserted" /\ req[r].op = "LOGIN" => targets[r] = {}
    /\ pc[r] = "inserted" /\ req[r].op = "REFRESH" =>
         targets[r] = {req[r].token} /\ Live(req[r].token)

\* A password checked again under the lock stays the password until the end.
SeenIsCurrent ==
  \A r \in Req :
    /\ req[r].op \in {"LOGIN", "CHANGE_PASSWORD"}
    /\ Running(r) /\ pc[r] # "lock_user"
    => users[req[r].user].hash = req[r].seen

IInv ==
  /\ TypeOK
  /\ PlacesOK
  /\ OwnerLocked
  /\ IdentityOK
  /\ Rooted
  /\ TargetsOK
  /\ SeenIsCurrent
  /\ OneLivePerFamily
  /\ LiveSessionsMatchPassword

-----------------------------------------------------------------------------
(* The history behind the rows and the answers, inductive together with IInv *)

\* A row lock belongs to a running request that has asked for it, a token's row
\* to one that has its owner's row already.
LocksOK(r) ==
  /\ \A u \in Users : userLock[u] = r =>
       Running(r) /\ pc[r] \notin {"lock_user", "lock_owner"} /\ req[r].user = u
  /\ \A t \in Req : tokenLock[t] = r =>
       /\ Running(r) /\ pc[r] \notin {"lock_user", "lock_owner", "lock_token"}
       /\ Exists(t) /\ tokens[t].user = req[r].user

\* The account a request was found active under the lock stays active.
Confirmed(r) ==
  Running(r) /\ (IF req[r].op = "REFRESH" THEN pc[r] = "inserted"
                 ELSE req[r].op # "LOGOUT" /\ pc[r] # "lock_user")
    => users[req[r].user].active

\* The UPDATE of a refresh or a logout keeps to the family.
FamilyTargets(r) ==
  Running(r) /\ req[r].op \in {"REFRESH", "LOGOUT"} =>
    \A t \in targets[r] : tokens[t].family = req[r].family

\* `now' has been read under the lock, logout-all's apart.
NowRead(r) ==
  \/ req[r].op = "REFRESH" /\ pc[r] \in {"revoke", "update", "updated", "inserted"}
  \/ req[r].op \in {"LOGOUT", "CHANGE_PASSWORD"} /\ pc[r] \in {"update", "updated"}

\* It is not before the `now' of any row its user has, and a rotation's is
\* before the token's expiry.
Timely(r) ==
  /\ now[r] <= clock
  /\ NowRead(r) => \A t \in Req : Exists(t) /\ tokens[t].user = req[r].user
                                    => now[t] <= now[r]
  /\ pc[r] = "inserted" /\ req[r].op = "REFRESH"
       => now[r] < tokens[req[r].token].expires

\* Salts come from answered password changes; a running one brings its own.
Used(h) == h.salt = None \/ answer[h.salt] = "CHANGED"

SaltOK(r) ==
  /\ req[r].seen # None => Used(req[r].seen)
  /\ Running(r) /\ req[r].op = "CHANGE_PASSWORD" => req[r].new.salt = r

\* A row is what its request inserted: a login's opens a family, a refresh's
\* follows in the family of the token it was given.
Inserted(t) ==
  Exists(t) =>
    /\ answer[t] = "TOKENS"
    /\ tokens[t].user = req[t].user
    /\ tokens[t].expires = now[t] + RefreshTTL
    /\ \/ req[t].op = "LOGIN" /\ tokens[t].family = t
       \/ LET p == req[t].token
          IN /\ req[t].op = "REFRESH"
             /\ p \in Req /\ Exists(p)
             /\ tokens[p].next = t /\ tokens[p].family = tokens[t].family

\* A replaced row is revoked, was presented by its successor, and had not
\* expired then.
Replaced(p) ==
  Exists(p) /\ tokens[p].next # None =>
    LET t == tokens[p].next
    IN /\ Exists(t) /\ ~Live(p)
       /\ req[t].op = "REFRESH" /\ req[t].token = p
       /\ tokens[p].expires <= tokens[t].expires
       /\ tokens[t].expires < tokens[p].expires + RefreshTTL

\* What an answered revocation said stays true.
RevocationHolds(r) ==
  answer[r] \in {"LOGGED_OUT", "REUSED"} =>
    /\ Ended(req[r].family)
    /\ \A t \in Family(req[r].family) : now[t] <= now[r]

\* After an answered password change the hash it replaced never returns, and
\* no session that was opened with it goes on.
ChangeHolds(r) ==
  answer[r] = "CHANGED" =>
    /\ req[r].user \in Users
    /\ users[req[r].user].hash # req[r].seen
    /\ \A t \in Req : /\ Exists(t) /\ tokens[t].user = req[r].user
                      /\ req[tokens[t].family].seen = req[r].seen
                      => now[t] <= now[r]

History(r) ==
  /\ LocksOK(r) /\ Confirmed(r) /\ FamilyTargets(r) /\ Timely(r) /\ SaltOK(r)
  /\ answer[r] # None => pc[r] = "done"
  /\ Inserted(r) /\ Replaced(r)
  /\ RevocationHolds(r) /\ ChangeHolds(r)

HInv == /\ IInv
        /\ \A u \in Users : Used(users[u].hash)
        /\ \A r \in Req : History(r)

-----------------------------------------------------------------------------
(* What the design document says of access tokens *)

\* "The access token does not look up server state on each request": a bearer
\* request with an unexpired access token is never answered 401 on arrival.
BearerIsStateless ==
  [][\A r \in Req :
       /\ pc[r] = "idle" /\ answer'[r] = "UNAUTHENTICATED"
       => ~AccessValid(req'[r].token)]_vars
=============================================================================
