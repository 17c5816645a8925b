----------------------------- MODULE RequestPath -----------------------------
(***************************************************************************)
(* The way of a request through one server process: its session and pooled *)
(* connection, the slots for password work, and the layers that turn an    *)
(* exception into an answer.  What its statements do to the data is left   *)
(* to Sessions, Accounts and Products; here a handler is the sequence of   *)
(* waits it goes through (`Script'), each of which may raise.              *)
(*                                                                         *)
(* The layers, from the inside: the service (rollback, translation of an   *)
(* IntegrityError), the session's exit, the exception handlers,            *)
(* UnexpectedErrorMiddleware, the server.  A result takes another way: it  *)
(* is sent first and the session is closed after it.                       *)
(***************************************************************************)
EXTENDS ConstraintName, FiniteSets

CONSTANTS
  Req,          \* one-shot HTTP requests
  Ops,          \* the operations each of them may ask for, see Script
  ErrorGraphs,  \* the exception graphs an IntegrityError may come with
  SkuConstraint,\* SKU_UNIQUE_CONSTRAINT
  PoolSize,     \* connections of the engine's pool, overflow included
  HashSlots,    \* _PASSWORD_WORK_CONCURRENCY
  MaxRestarts   \* bound on restarts of the database: model-checking only

\* Mutants: change_password does not roll back before it hashes; create
\* forgets to commit.
PasswordWaitsInTransaction == <<"read", "hash", "hash", "hash", "lock", "commit">>
CreateWaitsNoCommit == <<"read", "lock">>

PasswordWaits == <<"read", "end", "hash", "hash", "hash", "lock", "commit">>
CreateWaits   == <<"read", "lock", "commit">>

\* What a handler waits for, in order, bearer check included.  A "read" runs
\* statements that wait for no other request; a "lock" is FOR UPDATE or an
\* INSERT into a unique index; an "end" closes the transaction of the reads.
\* UPDATE is a PATCH or DELETE of a product, a profile update or a logout.
Script ==
  [UNKNOWN  |-> <<>>,
   LIVE     |-> <<>>,
   READ     |-> <<"read">>,
   UPDATE   |-> <<"read", "lock", "commit">>,
   REFRESH  |-> <<"read", "lock", "commit">>,
   CREATE   |-> CreateWaits,
   REGISTER |-> <<"read", "end", "hash", "lock", "commit">>,
   LOGIN    |-> <<"read", "end", "hash", "lock", "commit">>,
   PASSWORD |-> PasswordWaits]

\* The exceptions a wait may end with when the database is well: AppErrors of
\* the services, RequestValidationError (raised after the dependencies have
\* run, hence after the bearer check), IntegrityError, and any other.
Raises ==
  [read   |-> {"APP", "VALIDATION", "UNEXPECTED"},
   end    |-> {"UNEXPECTED"},
   hash   |-> {"APP", "UNEXPECTED"},
   lock   |-> {"APP", "INTEGRITY", "UNEXPECTED"},
   commit |-> {"INTEGRITY", "UNEXPECTED"}]

\* The answer to each class of exception.
Handler ==
  [APP        |-> "APP_ERROR",
   VALIDATION |-> "VALIDATION_FAILED",
   HTTP       |-> "HTTP_ERROR",
   INTEGRITY  |-> "INTEGRITY_ERROR",
   UNEXPECTED |-> "INTERNAL_SERVER_ERROR"]

Exceptions == DOMAIN Handler
Answers    == {Handler[e] : e \in Exceptions} \cup {"OK"}
Places     == {"idle", "run", "fail", "search", "raise", "sent", "done"}

ASSUME RequestPathAssumption ==
  /\ None \notin Req \cup DOMAIN Raises /\ Ops \in [Req -> SUBSET DOMAIN Script]
  /\ ErrorGraphs \subseteq Graphs /\ SkuConstraint \in Names
  /\ PoolSize \in Nat \ {0} /\ HashSlots \in Nat \ {0} /\ MaxRestarts \in Nat

VARIABLES
  place,     \* which layer a request is in
  op,        \* its operation
  at,        \* the wait of its script it is at, while its handler runs
  held,      \* its connection: NONE, OPEN, or DEAD and not yet noticed
  slots,     \* the requests whose password work runs in a thread
  lock,      \* the holder of the contested row or index entry
  committed, \* the requests whose transaction the database has committed
  error,     \* the exception on its way out
  search,    \* the search for the constraint's name
  sent,      \* the responses it has started
  restarts   \* restarts of the database so far

resources == <<held, slots, lock>>
vars == <<place, op, at, held, slots, lock, committed, error, search, sent, restarts>>

Init ==
  /\ place = [r \in Req |-> "idle"] /\ op = [r \in Req |-> None]
  /\ at = [r \in Req |-> 1]
  /\ held = [r \in Req |-> "NONE"] /\ slots = {} /\ lock = None
  /\ committed = {} /\ error = [r \in Req |-> None]
  /\ search = [r \in Req |-> None] /\ sent = [r \in Req |-> <<>>]
  /\ restarts = 0

-----------------------------------------------------------------------------
(* Helpers *)

Goto(r, p) == place' = [place EXCEPT ![r] = p]

\* The wait a request is at: none when the handler has come to its end.
Step(r) == IF place[r] = "run" /\ at[r] <= Len(Script[op[r]])
           THEN Script[op[r]][at[r]] ELSE None

StepDone(r) == at' = [at EXCEPT ![r] = @ + 1]

Throw(r, e) == /\ Goto(r, "fail")
               /\ error' = [error EXCEPT ![r] = e] /\ at' = [at EXCEPT ![r] = 1]

\* A session begins a transaction, and takes a connection, at a statement.
WantsConnection(r) == Step(r) \in {"read", "lock"} /\ held[r] = "NONE"
PoolFull == Cardinality({s \in Req : held[s] # "NONE"}) >= PoolSize

WantsSlot(r) == Step(r) = "hash" /\ r \notin slots

\* The end of a transaction gives back the connection and the row locks.
EndTransaction(r) ==
  /\ held' = [held EXCEPT ![r] = "NONE"]
  /\ lock' = IF lock = r THEN None ELSE lock

-----------------------------------------------------------------------------
(* The handler *)

Arrive(r, o) ==
  /\ place[r] = "idle"
  /\ op' = [op EXCEPT ![r] = o]
  /\ Goto(r, "run")
  /\ UNCHANGED <<at, resources, committed, error, search, sent, restarts>>

\* No such route or method.
NotFound(r) ==
  /\ place[r] = "run" /\ op[r] = "UNKNOWN"
  /\ Throw(r, "HTTP")
  /\ UNCHANGED <<op, resources, committed, search, sent, restarts>>

\* Before the first statement: no credentials, or an invalid request.
Refuse(r) ==
  /\ at[r] = 1 /\ Step(r) = "read" /\ held[r] = "NONE"
  /\ \E e \in {"APP", "VALIDATION"} : Throw(r, e)
  /\ UNCHANGED <<op, resources, committed, search, sent, restarts>>

\* The pool hands out idle connections without testing them: after a restart
\* of the database it may be a dead one.
Connect(r) ==
  /\ WantsConnection(r) /\ ~PoolFull
  /\ \E c \in {"OPEN"} \cup (IF restarts = 0 THEN {} ELSE {"DEAD"}) :
        held' = [held EXCEPT ![r] = c]
  /\ UNCHANGED <<place, op, at, slots, lock, committed, error, search, sent, restarts>>

PoolTimeout(r) ==
  /\ WantsConnection(r) /\ PoolFull
  /\ Throw(r, "UNEXPECTED")
  /\ UNCHANGED <<op, resources, committed, search, sent, restarts>>

Read(r) ==
  /\ Step(r) = "read" /\ held[r] = "OPEN"
  /\ StepDone(r)
  /\ UNCHANGED <<place, op, resources, committed, error, search, sent, restarts>>

EndRead(r) ==
  /\ Step(r) = "end" /\ held[r] = "OPEN"
  /\ EndTransaction(r) /\ StepDone(r)
  /\ UNCHANGED <<place, op, slots, committed, error, search, sent, restarts>>

Lock(r) ==
  /\ Step(r) = "lock" /\ held[r] = "OPEN" /\ lock = None
  /\ lock' = r /\ StepDone(r)
  /\ UNCHANGED <<place, op, held, slots, committed, error, search, sent, restarts>>

Commit(r) ==
  /\ Step(r) = "commit" /\ held[r] = "OPEN"
  /\ committed' = committed \cup {r}
  /\ EndTransaction(r) /\ StepDone(r)
  /\ UNCHANGED <<place, op, slots, error, search, sent, restarts>>

\* async with limiter: a thread starts once a slot is free ...
StartHash(r) ==
  /\ WantsSlot(r) /\ Cardinality(slots) < HashSlots
  /\ slots' = slots \cup {r}
  /\ UNCHANGED <<place, op, at, held, lock, committed, error, search, sent, restarts>>

\* Mutant: the semaphore is released only when the work succeeds.
EndHashKeepsSlot(r) ==
  /\ r \in slots
  /\ \/ slots' = slots \ {r} /\ StepDone(r) /\ UNCHANGED <<place, error>>
     \/ \E e \in Raises.hash : Throw(r, e) /\ UNCHANGED slots
  /\ UNCHANGED <<op, held, lock, committed, search, sent, restarts>>

\* ... and the slot is free again however the work ends.
EndHash(r) ==
  /\ r \in slots
  /\ slots' = slots \ {r}
  /\ \/ StepDone(r) /\ UNCHANGED <<place, error>>
     \/ \E e \in Raises.hash : Throw(r, e)
  /\ UNCHANGED <<op, held, lock, committed, search, sent, restarts>>

\* A statement raises on a live connection.  A COMMIT whose acknowledgement is
\* lost has committed all the same.
Fail(r) ==
  /\ Step(r) \notin {None, "hash"} /\ held[r] = "OPEN"
  /\ \E e \in Raises[Step(r)] : Throw(r, e)
  /\ committed' \in {committed} \cup
       (IF Step(r) = "commit" /\ error'[r] = "UNEXPECTED" THEN {committed \cup {r}} ELSE {})
  /\ UNCHANGED <<op, resources, search, sent, restarts>>

\* On a connection that has died every statement raises, a waiting one included.
FailDead(r) ==
  /\ Step(r) \notin {None, "hash"} /\ held[r] = "DEAD"
  /\ Throw(r, "UNEXPECTED")
  /\ UNCHANGED <<op, resources, committed, search, sent, restarts>>

-----------------------------------------------------------------------------
(* The way out *)

\* Mutant: get_session yields a session that nobody closes.
RollbackForgotten(r) == UNCHANGED <<held, lock>>

\* A session's rollback, asked for or in its exit.
Rollback(r) == EndTransaction(r)

\* The handler returns; the response is sent with the session still open.
\* Before that a refresh, and no other handler, may still raise an AppError (a
\* reused token), and the response model may refuse the result.
Respond(r) ==
  /\ place[r] = "run" /\ Step(r) = None /\ op[r] # "UNKNOWN"
  /\ \/ /\ Goto(r, "sent") /\ sent' = [sent EXCEPT ![r] = Append(@, "OK")]
        /\ at' = [at EXCEPT ![r] = 1] /\ UNCHANGED error
     \/ /\ \E e \in {"UNEXPECTED"} \cup (IF op[r] = "REFRESH" THEN {"APP"} ELSE {}) :
             Throw(r, e)
        /\ UNCHANGED sent
  /\ UNCHANGED <<op, resources, committed, search, restarts>>

\* The session's exit after the response: a rollback on a connection that has
\* died raises.
CloseAfter(r) ==
  /\ place[r] = "sent"
  /\ Rollback(r)
  /\ \/ held[r] # "DEAD" /\ Goto(r, "done") /\ UNCHANGED error
     \/ held[r] = "DEAD" /\ Goto(r, "raise") /\ error' = [error EXCEPT ![r] = "UNEXPECTED"]
  /\ UNCHANGED <<op, at, slots, committed, search, sent, restarts>>

\* The rollback an exception meets first, in the service, in session.begin()
\* or in the session's exit.  If it raises, its exception replaces the other.
\* register takes any IntegrityError for a taken address; create asks which
\* constraint it was.
Unwind(r) ==
  /\ place[r] = "fail"
  /\ Rollback(r)
  /\ LET e == IF held[r] = "DEAD" THEN "UNEXPECTED" ELSE error[r]
         searches == e = "INTEGRITY" /\ op[r] = "CREATE"
     IN /\ error' = [error EXCEPT ![r] =
             IF e = "INTEGRITY" /\ op[r] = "REGISTER" THEN "APP" ELSE e]
        /\ Goto(r, IF searches THEN "search" ELSE "raise")
        /\ IF searches
           THEN \E g \in ErrorGraphs : search' = [search EXCEPT ![r] = Begin(g)]
           ELSE UNCHANGED search
  /\ UNCHANGED <<op, at, slots, committed, sent, restarts>>

Search(r) ==
  /\ place[r] = "search" /\ ~Over(search[r])
  /\ search' = [search EXCEPT ![r] = Visit(@)]
  /\ UNCHANGED <<place, op, at, resources, committed, error, sent, restarts>>

\* SkuAlreadyExistsError from exc, or exc itself again.
Translate(r) ==
  /\ place[r] = "search" /\ Over(search[r])
  /\ Goto(r, "raise")
  /\ error' = [error EXCEPT ![r] =
                 IF search[r].found = SkuConstraint THEN "APP" ELSE "INTEGRITY"]
  /\ UNCHANGED <<op, at, resources, committed, search, sent, restarts>>

\* Mutant: the middleware does not look whether a response has started.
AnswerErrorAlways(r) ==
  /\ place[r] = "raise"
  /\ sent' = [sent EXCEPT ![r] = Append(@, Handler[error[r]])]
  /\ Goto(r, "done")
  /\ UNCHANGED <<op, at, resources, committed, error, search, restarts>>

\* The registered handler of the exception's class or, for any other, the
\* middleware, which answers only if no response has started.
AnswerError(r) ==
  /\ place[r] = "raise" /\ sent[r] = <<>>
  /\ sent' = [sent EXCEPT ![r] = Append(@, Handler[error[r]])]
  /\ Goto(r, "done")
  /\ UNCHANGED <<op, at, resources, committed, error, search, restarts>>

\* Too late for an answer: the exception goes on to the server.
Reraise(r) ==
  /\ place[r] = "raise" /\ sent[r] # <<>>
  /\ Goto(r, "done")
  /\ UNCHANGED <<op, at, resources, committed, error, search, sent, restarts>>

-----------------------------------------------------------------------------
(* The environment *)

\* The database restarts: open connections die unnoticed, transactions and
\* their locks are gone.
DatabaseRestart ==
  /\ restarts < MaxRestarts
  /\ restarts' = restarts + 1
  /\ held' = [r \in Req |-> IF held[r] = "OPEN" THEN "DEAD" ELSE held[r]]
  /\ lock' = None
  /\ UNCHANGED <<place, op, at, slots, committed, error, search, sent>>

Terminated == (\A r \in Req : place[r] = "done") /\ UNCHANGED vars

Arrival(r) == \E o \in Ops[r] : Arrive(r, o)

\* What a request is owed ...
Advance(r) ==
  \/ NotFound(r) \/ Connect(r) \/ Read(r) \/ EndRead(r) \/ Lock(r) \/ Commit(r)
  \/ StartHash(r) \/ EndHash(r) \/ FailDead(r)
  \/ Respond(r) \/ CloseAfter(r) \/ Unwind(r) \/ Search(r) \/ Translate(r)
  \/ AnswerError(r) \/ Reraise(r)

\* ... and what may befall it instead.
Mishap(r) == Refuse(r) \/ PoolTimeout(r) \/ Fail(r)

Next ==
  \/ \E r \in Req : Arrival(r) \/ Advance(r) \/ Mishap(r)
  \/ DatabaseRestart
  \/ Terminated

Spec == Init /\ [][Next]_vars

\* The event loop resumes a request whose wait is over, threads end, and the
\* database runs a statement whose lock is free and drops one whose connection
\* has died.  Errors on a live connection, pool timeouts, restarts and clients
\* are owed to nobody: no lock_timeout ends the wait for a row.
FairSpec == Spec /\ \A r \in Req : WF_vars(Advance(r))

=============================================================================
