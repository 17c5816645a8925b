------------------------------ MODULE Products ------------------------------
(***************************************************************************)
(* The catalogue: POST, PATCH, DELETE and GET of /products, run            *)
(* concurrently against PostgreSQL at READ COMMITTED.                      *)
(*                                                                         *)
(* As in Sessions, requests are one-shot, the product a request creates is *)
(* named after it, an open transaction's writes are a function of the      *)
(* request's local state, and locks end with the transaction.  The body of *)
(* a product is a function from its updatable columns to values.  A        *)
(* deletion only marks the row.                                            *)
(***************************************************************************)
EXTENDS Integers

CONSTANTS
  Admins,    \* users with role ADMIN
  Req,       \* one-shot HTTP requests
  Skus,      \* stock keeping units, already trimmed and upper-cased
  Columns,   \* the updatable columns of products, is_active among them
  Values,    \* their values
  MaxClock,  \* bound on the clock: model-checking only
  Ops,       \* the operations an instance offers
  None       \* SQL NULL, Python None, a field that is not set, nobody

AllOps == {"CREATE", "UPDATE", "DELETE", "GET"}

ASSUME ConstantsAssumption ==
  /\ "is_active" \in Columns
  /\ TRUE \in Values
  /\ MaxClock \in Nat
  /\ Ops \subseteq AllOps \cup {"SIGN_IN", "ABORT"}

Times   == 0 .. MaxClock
Bodies  == [Columns -> Values]
\* A PATCH body: the columns it sets; the schema rejects one that sets none.
Changes == [Columns -> Values \cup {None}]
Rows    == [sku : Skus, body : Bodies, deleted : BOOLEAN, updated : Times]

Places  == {"idle", "precheck", "insert", "creator", "lock", "flush",
            "refresh", "commit", "done"}
Answers == {"CREATED", "UPDATED", "DELETED", "FOUND", "SKU_ALREADY_EXISTS",
            "PRODUCT_NOT_FOUND", "UNAUTHENTICATED", "FORBIDDEN", "ERROR"}

ASSUME NoneAssumption ==
  None \notin Admins \cup Req \cup Skus \cup Values \cup Changes \cup Rows \cup Answers

VARIABLES
  clock,    \* now() of the database
  products, \* committed rows, None where there is none
  rowLock,  \* the request whose transaction holds a product row FOR UPDATE
  skuLock,  \* the request with an uncommitted entry in the unique index on sku
  signing,  \* admins whose users row a sign-in transaction holds FOR UPDATE
  pc,       \* where each request is
  req,      \* what it was asked
  read,     \* the row that its SELECT ... FOR UPDATE loaded
  shown,    \* the row its response shows
  answer    \* its answer: None until it has one

locks == <<rowLock, skuLock>>
local == <<pc, req, read, shown, answer>>
vars  == <<clock, products, rowLock, skuLock, signing, pc, req, read, shown, answer>>

Requests == [op : AllOps \cup {None}, admin : Admins \cup {None},
             product : Req \cup {None}, sku : Skus \cup {None},
             body : Changes \cup {None}, began : Times]

NoRequest == [op |-> None, admin |-> None, product |-> None, sku |-> None,
              body |-> None, began |-> 0]

Init ==
  /\ clock    = 0
  /\ products = [p \in Req |-> None]
  /\ rowLock  = [p \in Req |-> None]
  /\ skuLock  = [s \in Skus |-> None]
  /\ signing  = {}
  /\ pc       = [r \in Req |-> "idle"]
  /\ req      = [r \in Req |-> NoRequest]
  /\ read     = [r \in Req |-> None]
  /\ shown    = [r \in Req |-> None]
  /\ answer   = [r \in Req |-> None]

-----------------------------------------------------------------------------
(* Helpers *)

Exists(p) == products[p] # None

TakenByPublic(s) ==          \* mutant: a partial index, WHERE deleted_at IS NULL
  \E p \in Req : Exists(p) /\ products[p].sku = s /\ ~products[p].deleted

\* uq_products_sku, and the WHERE clause of get_by_sku: deleted rows count.
Taken(s) == \E p \in Req : Exists(p) /\ products[p].sku = s

SelectableAny(p) == Exists(p)  \* mutant: the locking SELECT takes deleted rows

\* The WHERE clause of the locking SELECTs.
Selectable(p) == Exists(p) /\ ~products[p].deleted

\* The WHERE clause of get_public_by_id.
Public(p) == Selectable(p) /\ products[p].body["is_active"] = TRUE

Goto(r, place) == pc' = [pc EXCEPT ![r] = place]

Arrive(r, op, u, p, s, body) ==
  /\ op \in Ops
  /\ pc[r] = "idle"
  /\ req' = [req EXCEPT ![r] = [op |-> op, admin |-> u, product |-> p, sku |-> s,
                                body |-> body, began |-> clock]]

ReleaseLocks(r) ==
  /\ rowLock' = [p \in Req |-> IF rowLock[p] = r THEN None ELSE rowLock[p]]
  /\ skuLock' = [s \in Skus |-> IF skuLock[s] = r THEN None ELSE skuLock[s]]

Reply(r, code) ==
  /\ Goto(r, "done")
  /\ answer' = [answer EXCEPT ![r] = code]

RollbackForgotten(r, code) ==  \* mutant: the transaction stays open
  /\ Reply(r, code)
  /\ UNCHANGED <<products, locks, shown>>

Rollback(r, code) ==
  /\ ReleaseLocks(r)
  /\ Reply(r, code)
  /\ shown' = [shown EXCEPT ![r] = None]
  /\ UNCHANGED products

-----------------------------------------------------------------------------
(* Arrivals.  get_current_user reads the caller's row: this begins the      *)
(* transaction whose now() the database stores, see NewRow.                 *)

\* require_admin refuses a caller without a valid token, or who is no admin.
Refuse(r, op) ==
  /\ op # "GET"
  /\ Arrive(r, op, None, None, None, None)
  /\ \E code \in {"UNAUTHENTICATED", "FORBIDDEN"} : Reply(r, code)
  /\ UNCHANGED <<clock, products, locks, signing, read, shown>>

CreateStart(r, u, s, body) ==
  /\ Arrive(r, "CREATE", u, r, s, body)
  /\ Goto(r, "precheck")
  /\ UNCHANGED <<clock, products, locks, signing, read, shown, answer>>

\* An id that names no product is answered like that of a deleted one.
UnknownProduct(r, op) ==
  /\ op # "CREATE"
  /\ Arrive(r, op, None, None, None, None)
  /\ Reply(r, "PRODUCT_NOT_FOUND")
  /\ UNCHANGED <<clock, products, locks, signing, read, shown>>

UpdateStart(r, u, p, changes) ==
  /\ Exists(p)
  /\ \E c \in Columns : changes[c] # None
  /\ Arrive(r, "UPDATE", u, p, None, changes)
  /\ Goto(r, "lock")
  /\ UNCHANGED <<clock, products, locks, signing, read, shown, answer>>

DeleteStart(r, u, p) ==
  /\ Exists(p)
  /\ Arrive(r, "DELETE", u, p, None, None)
  /\ Goto(r, "lock")
  /\ UNCHANGED <<clock, products, locks, signing, read, shown, answer>>

\* get_public is one statement, of anybody.
GetPublic(r, p) ==
  /\ Exists(p)
  /\ Arrive(r, "GET", None, p, None, None)
  /\ IF Public(p)
       THEN Reply(r, "FOUND") /\ shown' = [shown EXCEPT ![r] = products[p]]
       ELSE Reply(r, "PRODUCT_NOT_FOUND") /\ UNCHANGED shown
  /\ UNCHANGED <<clock, products, locks, signing, read>>

-----------------------------------------------------------------------------
(* create *)

\* get_by_sku, without a lock.
Precheck(r) ==
  /\ pc[r] = "precheck"
  /\ IF Taken(req[r].sku)
       THEN Rollback(r, "SKU_ALREADY_EXISTS")
       ELSE Goto(r, "insert") /\ UNCHANGED <<products, locks, shown, answer>>
  /\ UNCHANGED <<clock, signing, req, read>>

InsertBlind(r) ==            \* mutant: nothing is unique, the precheck decides
  /\ pc[r] = "insert"
  /\ Goto(r, "creator")
  /\ UNCHANGED <<clock, products, locks, signing, req, read, shown, answer>>

InsertImpatient(r) ==        \* mutant: an uncommitted entry refuses at once
  /\ pc[r] = "insert"
  /\ IF Taken(req[r].sku) \/ skuLock[req[r].sku] # None
       THEN Rollback(r, "SKU_ALREADY_EXISTS")
       ELSE /\ skuLock' = [skuLock EXCEPT ![req[r].sku] = r]
            /\ Goto(r, "creator")
            /\ UNCHANGED <<products, rowLock, shown, answer>>
  /\ UNCHANGED <<clock, signing, req, read>>

\* INSERT waits for whoever has an uncommitted entry of this SKU; if that
\* commits, the unique violation is recognised by its constraint's name.
Insert(r) ==
  LET s == req[r].sku
  IN /\ pc[r] = "insert"
     /\ skuLock[s] = None
     /\ IF Taken(s)
          THEN Rollback(r, "SKU_ALREADY_EXISTS")
          ELSE /\ skuLock' = [skuLock EXCEPT ![s] = r]
               /\ Goto(r, "creator")
               /\ UNCHANGED <<products, rowLock, shown, answer>>
     /\ UNCHANGED <<clock, signing, req, read>>

\* The foreign key created_by_id locks the creator's users row FOR KEY SHARE:
\* it waits for a sign-in of that account, holding the index entry.
CheckCreator(r) ==
  /\ pc[r] = "creator"
  /\ req[r].admin \notin signing
  /\ Goto(r, "refresh")
  /\ UNCHANGED <<clock, products, locks, signing, req, read, shown, answer>>

-----------------------------------------------------------------------------
(* update and delete *)

LockProductUnlocked(r) ==    \* mutant: SELECT without FOR UPDATE
  LET p == req[r].product
  IN /\ pc[r] = "lock"
     /\ IF Selectable(p)
          THEN /\ read' = [read EXCEPT ![r] = products[p]]
               /\ Goto(r, "flush")
               /\ UNCHANGED <<products, locks, shown, answer>>
          ELSE Rollback(r, "PRODUCT_NOT_FOUND") /\ UNCHANGED read
     /\ UNCHANGED <<clock, signing, req>>

\* SELECT ... WHERE deleted_at IS NULL FOR UPDATE: waits for the row and then
\* evaluates the condition again on its last committed version.
LockProduct(r) ==
  LET p == req[r].product
  IN /\ pc[r] = "lock"
     /\ rowLock[p] = None
     /\ IF Selectable(p)
          THEN /\ rowLock' = [rowLock EXCEPT ![p] = r]
               /\ read' = [read EXCEPT ![r] = products[p]]
               /\ Goto(r, "flush")
               /\ UNCHANGED <<products, skuLock, shown, answer>>
          ELSE Rollback(r, "PRODUCT_NOT_FOUND") /\ UNCHANGED read
     /\ UNCHANGED <<clock, signing, req>>

DirtyUnset(r) ==             \* mutant: model_dump() without exclude_unset
  {c \in Columns : req[r].op = "UPDATE" /\ req[r].body[c] # read[r].body[c]}

\* The columns that the unit of work finds changed against the loaded row.
Dirty(r) == {c \in Columns : /\ req[r].op = "UPDATE"
                             /\ req[r].body[c] # None
                             /\ req[r].body[c] # read[r].body[c]}

\* Does the flush emit an UPDATE?  Not for a PATCH that changes nothing.
Writes(r) == req[r].op = "DELETE" \/ Dirty(r) # {}

Flush(r) ==
  LET p == req[r].product
  IN /\ pc[r] = "flush"
     /\ IF Writes(r)
          THEN /\ rowLock[p] \in {None, r}
               /\ rowLock' = [rowLock EXCEPT ![p] = r]
          ELSE UNCHANGED rowLock
     /\ Goto(r, IF req[r].op = "DELETE" THEN "commit" ELSE "refresh")
     /\ UNCHANGED <<clock, products, skuLock, signing, req, read, shown, answer>>

-----------------------------------------------------------------------------
(* The end of a write *)

\* The row as r's transaction has written it.  updated_at is now(), the time
\* at which the transaction began, and onupdate sets it with any UPDATE.
NewRow(r) ==
  LET old == products[req[r].product]
  IN IF req[r].op = "CREATE"
       THEN [sku |-> req[r].sku, body |-> req[r].body,
             deleted |-> FALSE, updated |-> req[r].began]
       ELSE [sku |-> old.sku,
             body |-> [c \in Columns |-> IF c \in Dirty(r) THEN req[r].body[c]
                                                           ELSE old.body[c]],
             deleted |-> old.deleted \/ req[r].op = "DELETE",
             updated |-> IF Writes(r) THEN req[r].began ELSE old.updated]

\* create and update read the row back, for the response, before they commit.
Refresh(r) ==
  /\ pc[r] = "refresh"
  /\ shown' = [shown EXCEPT ![r] = NewRow(r)]
  /\ Goto(r, "commit")
  /\ UNCHANGED <<clock, products, locks, signing, req, read, answer>>

Verdict(r) == CASE req[r].op = "CREATE" -> "CREATED"
                [] req[r].op = "UPDATE" -> "UPDATED"
                [] req[r].op = "DELETE" -> "DELETED"

Commit(r) ==
  /\ pc[r] = "commit"
  /\ products' = [products EXCEPT ![req[r].product] = NewRow(r)]
  /\ ReleaseLocks(r)
  /\ Reply(r, Verdict(r))
  /\ UNCHANGED <<clock, signing, req, read, shown>>

\* A statement fails or the worker dies.
Abort(r) ==
  /\ "ABORT" \in Ops
  /\ pc[r] \notin {"idle", "done"}
  /\ Rollback(r, "ERROR")
  /\ UNCHANGED <<clock, signing, req, read>>

-----------------------------------------------------------------------------
(* The environment *)

\* Another transaction locks an admin's users row: a login, a password change.
\* It waits for the foreign-key locks of uncommitted products.
SignIn(u) ==
  /\ "SIGN_IN" \in Ops
  /\ u \notin signing
  /\ ~\E r \in Req : /\ req[r].op = "CREATE" /\ req[r].admin = u
                     /\ pc[r] \in {"refresh", "commit"}
  /\ signing' = signing \cup {u}
  /\ UNCHANGED <<clock, products, locks, local>>

SignedIn(u) ==
  /\ u \in signing
  /\ signing' = signing \ {u}
  /\ UNCHANGED <<clock, products, locks, local>>

Tick ==
  /\ clock < MaxClock
  /\ clock' = clock + 1
  /\ UNCHANGED <<products, locks, signing, local>>

Terminated ==
  /\ \A r \in Req : pc[r] = "done"
  /\ UNCHANGED vars

-----------------------------------------------------------------------------

Arrival(r) ==
  \/ \E op \in AllOps : Refuse(r, op) \/ UnknownProduct(r, op)
  \/ \E u \in Admins :
       \/ \E s \in Skus, body \in Bodies : CreateStart(r, u, s, body)
       \/ \E p \in Req, changes \in Changes : UpdateStart(r, u, p, changes)
       \/ \E p \in Req : DeleteStart(r, u, p)
  \/ \E p \in Req : GetPublic(r, p)

Advance(r) ==
  \/ Precheck(r) \/ Insert(r) \/ CheckCreator(r)
  \/ LockProduct(r) \/ Flush(r)
  \/ Refresh(r) \/ Commit(r)

Next ==
  \/ \E r \in Req : Arrival(r) \/ Advance(r) \/ Abort(r)
  \/ \E u \in Admins : SignIn(u) \/ SignedIn(u)
  \/ Tick
  \/ Terminated

Spec == Init /\ [][Next]_vars

\* PostgreSQL grants a lock to its waiters in turn, so a statement that can
\* run again and again does run; sign-ins end.
FairSpec == /\ Spec
            /\ \A r \in Req : SF_vars(Advance(r))
            /\ \A u \in Admins : WF_vars(SignedIn(u))
=============================================================================
