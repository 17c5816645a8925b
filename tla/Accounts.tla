------------------------------ MODULE Accounts ------------------------------
(***************************************************************************)
(* Accounts: POST /auth/register, the create-admin command and PATCH       *)
(* /users/me, run concurrently against PostgreSQL at READ COMMITTED.       *)
(*                                                                         *)
(* As in Sessions, requests (and runs of the command) are one-shot, the    *)
(* account a request opens is named after it, an open transaction's writes *)
(* are a function of local state and locks end with the transaction.       *)
(* Passwords are left to Sessions; the pause in which register and         *)
(* create-admin hash one lies between two of the statements below.         *)
(***************************************************************************)
EXTENDS Integers

CONSTANTS
  Req,        \* one-shot requests
  Spellings,  \* e-mail addresses as they are typed
  Lower,      \* a spelling stripped and in lower case
  Names,      \* display names
  Ops,        \* the operations an instance offers
  None        \* SQL NULL, Python None, nobody

AllOps == {"REGISTER", "CREATE_ADMIN", "UPDATE_PROFILE"}

ASSUME ConstantsAssumption ==
  /\ Lower \in [Spellings -> Spellings]
  /\ \A e \in Spellings : Lower[Lower[e]] = Lower[e]
  /\ Ops \subseteq AllOps \cup {"SET_ACTIVE", "ABORT"}

Roles == {"USER", "ADMIN"}
\* The columns of users, but for the password hash.
Rows  == [email : Spellings, role : Roles, name : Names, active : BOOLEAN]

Places  == {"idle", "precheck", "again", "insert", "lock", "refresh", "commit", "done"}
Answers == {"CREATED", "UPDATED", "ALREADY_EXISTS", "UNAUTHENTICATED", "ERROR"}

ASSUME NoneAssumption ==
  None \notin Req \cup Spellings \cup Names \cup Rows \cup Answers

VARIABLES
  accounts,  \* committed rows of users, None where there is none
  userLock,  \* the request whose transaction holds a users row FOR UPDATE
  mailLock,  \* the request with an uncommitted entry in the unique index on email
  pc,        \* where each request is
  req,       \* what it was asked
  read,      \* the caller's row as its session holds it
  shown,     \* the row its response shows
  answer     \* its answer: None until it has one

locks == <<userLock, mailLock>>
vars  == <<accounts, userLock, mailLock, pc, req, read, shown, answer>>

Requests == [op : AllOps \cup {None}, user : Req \cup {None},
             email : Spellings \cup {None}, name : Names \cup {None}]

NoRequest == [op |-> None, user |-> None, email |-> None, name |-> None]

Init ==
  /\ accounts = [u \in Req |-> None]
  /\ userLock = [u \in Req |-> None]
  /\ mailLock = [e \in Spellings |-> None]
  /\ pc       = [r \in Req |-> "idle"]
  /\ req      = [r \in Req |-> NoRequest]
  /\ read     = [r \in Req |-> None]
  /\ shown    = [r \in Req |-> None]
  /\ answer   = [r \in Req |-> None]

-----------------------------------------------------------------------------
(* Helpers *)

Exists(u) == accounts[u] # None

Active(u) == Exists(u) /\ accounts[u].active

\* uq_users_email, and the WHERE clause of get_user_by_email.
Taken(e) == \E u \in Req : Exists(u) /\ accounts[u].email = e

AddressAsTyped(r) ==         \* mutant: the command does not normalise
  IF req[r].op = "CREATE_ADMIN" THEN req[r].email ELSE Lower[req[r].email]

\* The address that a request looks up and stores.
Address(r) == Lower[req[r].email]

Goto(r, place) == pc' = [pc EXCEPT ![r] = place]

Arrive(r, op, u, email, name) ==
  /\ op \in Ops
  /\ pc[r] = "idle"
  /\ req' = [req EXCEPT ![r] = [op |-> op, user |-> u, email |-> email, name |-> name]]

ReleaseLocks(r) ==
  /\ userLock' = [u \in Req |-> IF userLock[u] = r THEN None ELSE userLock[u]]
  /\ mailLock' = [e \in Spellings |-> IF mailLock[e] = r THEN None ELSE mailLock[e]]

Reply(r, code) ==
  /\ Goto(r, "done")
  /\ answer' = [answer EXCEPT ![r] = code]

RollbackForgotten(r, code) ==  \* mutant: the transaction stays open
  /\ Reply(r, code)
  /\ shown' = [shown EXCEPT ![r] = None]
  /\ UNCHANGED <<accounts, locks>>

Rollback(r, code) ==
  /\ ReleaseLocks(r)
  /\ Reply(r, code)
  /\ shown' = [shown EXCEPT ![r] = None]
  /\ UNCHANGED accounts

-----------------------------------------------------------------------------
(* register and create_admin *)

CreateStart(r, op, email, name) ==
  /\ op \in {"REGISTER", "CREATE_ADMIN"}
  /\ Arrive(r, op, r, email, name)
  /\ Goto(r, "precheck")
  /\ UNCHANGED <<accounts, locks, read, shown, answer>>

\* SELECT by address, without a lock: register before and after it hashes the
\* password, create_admin only before.
Precheck(r) ==
  /\ pc[r] \in {"precheck", "again"}
  /\ IF Taken(Address(r))
       THEN Rollback(r, "ALREADY_EXISTS")
       ELSE /\ Goto(r, IF pc[r] = "precheck" /\ req[r].op = "REGISTER"
                         THEN "again" ELSE "insert")
            /\ UNCHANGED <<accounts, locks, shown, answer>>
  /\ UNCHANGED <<req, read>>

\* INSERT waits for whoever has an uncommitted entry of this address; if that
\* commits, the unique violation is answered like a precheck's.
Insert(r) ==
  LET e == Address(r)
  IN /\ pc[r] = "insert"
     /\ mailLock[e] = None
     /\ IF Taken(e)
          THEN Rollback(r, "ALREADY_EXISTS")
          ELSE /\ mailLock' = [mailLock EXCEPT ![e] = r]
               /\ Goto(r, "commit")
               /\ UNCHANGED <<accounts, userLock, shown, answer>>
     /\ UNCHANGED <<req, read>>

-----------------------------------------------------------------------------
(* update_profile *)

\* get_current_user refuses a caller without a valid token or whose account is
\* not active.
Refuse(r) ==
  /\ Arrive(r, "UPDATE_PROFILE", None, None, None)
  /\ Reply(r, "UNAUTHENTICATED")
  /\ UNCHANGED <<accounts, locks, read, shown>>

\* It loads the caller's row into the session the service goes on to use.
UpdateProfileStart(r, u, name) ==
  /\ Active(u)
  /\ Arrive(r, "UPDATE_PROFILE", u, None, name)
  /\ read' = [read EXCEPT ![r] = accounts[u]]
  /\ Goto(r, "lock")
  /\ UNCHANGED <<accounts, locks, shown, answer>>

LockRowTrusting(r) ==        \* mutant: is_active was checked on arrival
  LET u == req[r].user
  IN /\ pc[r] = "lock"
     /\ userLock[u] = None
     /\ userLock' = [userLock EXCEPT ![u] = r]
     /\ read' = [read EXCEPT ![r] = accounts[u]]
     /\ Goto(r, "refresh")
     /\ UNCHANGED <<accounts, mailLock, req, shown, answer>>

LockRowStale(r) ==           \* mutant: no populate_existing
  LET u == req[r].user
  IN /\ pc[r] = "lock"
     /\ userLock[u] = None
     /\ IF Active(u)
          THEN /\ userLock' = [userLock EXCEPT ![u] = r]
               /\ Goto(r, "refresh")
               /\ UNCHANGED <<accounts, mailLock, shown, answer>>
          ELSE Rollback(r, "UNAUTHENTICATED")
     /\ UNCHANGED <<req, read>>

\* SELECT ... FOR UPDATE waits for the row and replaces what the session holds.
LockRow(r) ==
  LET u == req[r].user
  IN /\ pc[r] = "lock"
     /\ userLock[u] = None
     /\ read' = [read EXCEPT ![r] = accounts[u]]
     /\ IF Active(u)
          THEN /\ userLock' = [userLock EXCEPT ![u] = r]
               /\ Goto(r, "refresh")
               /\ UNCHANGED <<accounts, mailLock, shown, answer>>
          ELSE Rollback(r, "UNAUTHENTICATED")
     /\ UNCHANGED req

\* The row as r's transaction has written it: a new one, or its user's with
\* the name, if the unit of work finds that different from the loaded one.
NewRowNameless(r) ==         \* mutant: the command forgets the display name
  [email |-> Address(r), active |-> TRUE,
   role |-> IF req[r].op = "REGISTER" THEN "USER" ELSE "ADMIN",
   name |-> IF req[r].op = "REGISTER" THEN req[r].name ELSE None]

NewRow(r) ==
  LET old == accounts[req[r].user]
  IN IF req[r].op = "UPDATE_PROFILE"
       THEN [email |-> old.email, role |-> old.role, active |-> old.active,
             name |-> IF req[r].name # read[r].name THEN req[r].name ELSE old.name]
       ELSE [email |-> Address(r), active |-> TRUE, name |-> req[r].name,
             role |-> IF req[r].op = "REGISTER" THEN "USER" ELSE "ADMIN"]

\* flush and refresh: the response shows the row as the database has it.
Refresh(r) ==
  /\ pc[r] = "refresh"
  /\ shown' = [shown EXCEPT ![r] = NewRow(r)]
  /\ Goto(r, "commit")
  /\ UNCHANGED <<accounts, locks, req, read, answer>>

-----------------------------------------------------------------------------

Commit(r) ==
  /\ pc[r] = "commit"
  /\ accounts' = [accounts EXCEPT ![req[r].user] = NewRow(r)]
  /\ ReleaseLocks(r)
  /\ Reply(r, IF req[r].op = "UPDATE_PROFILE" THEN "UPDATED" ELSE "CREATED")
  /\ UNCHANGED <<req, read, shown>>

AbortAsDuplicate(r) ==       \* mutant: register takes any failure for a duplicate
  /\ "ABORT" \in Ops
  /\ pc[r] \notin {"idle", "done"}
  /\ Rollback(r, IF req[r].op = "REGISTER" THEN "ALREADY_EXISTS" ELSE "ERROR")
  /\ UNCHANGED <<req, read>>

\* A statement fails or the process dies.  Such a failure is no IntegrityError,
\* which register would answer as a duplicate: the only one an INSERT into users
\* can meet is a taken address, the table having no other constraint that the
\* service does not satisfy by itself.
Abort(r) ==
  /\ "ABORT" \in Ops
  /\ pc[r] \notin {"idle", "done"}
  /\ Rollback(r, "ERROR")
  /\ UNCHANGED <<req, read>>

\* An operator's UPDATE users SET is_active, as in Sessions.
SetActive(u) ==
  /\ "SET_ACTIVE" \in Ops
  /\ Exists(u) /\ userLock[u] = None
  /\ accounts' = [accounts EXCEPT ![u].active = ~accounts[u].active]
  /\ UNCHANGED <<locks, pc, req, read, shown, answer>>

Terminated ==
  /\ \A r \in Req : pc[r] = "done"
  /\ UNCHANGED vars

-----------------------------------------------------------------------------

Arrival(r) ==
  \/ \E op \in AllOps, e \in Spellings, n \in Names : CreateStart(r, op, e, n)
  \/ Refuse(r)
  \/ \E u \in Req, n \in Names : UpdateProfileStart(r, u, n)

Advance(r) ==
  Precheck(r) \/ Insert(r) \/ LockRow(r) \/ Refresh(r) \/ Commit(r)

Next ==
  \/ \E r \in Req : Arrival(r) \/ Advance(r) \/ Abort(r)
  \/ \E u \in Req : SetActive(u)
  \/ Terminated

Spec == Init /\ [][Next]_vars

\* The event loop and PostgreSQL keep running every statement they were given;
\* with finitely many requests a lock ends up free for whoever still waits.
FairSpec == Spec /\ \A r \in Req : WF_vars(Advance(r))
=============================================================================
