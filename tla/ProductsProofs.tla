--------------------------- MODULE ProductsProofs ---------------------------
(***************************************************************************)
(* Proofs about Products, for any admins, requests, SKUs, columns and      *)
(* values.  A step before the commit changes the local state of one        *)
(* request and takes or releases that request's locks: QuietStep shows     *)
(* once that such a step keeps what IInv says of the others.  Commit is    *)
(* the one step that changes a row.                                        *)
(***************************************************************************)
EXTENDS ProductsProperties, TLAPS

\* Nobody else's local state or locks change, and no row.
Quiet(r) ==
  /\ UNCHANGED products
  /\ \A s \in Req \ {r} : /\ pc'[s] = pc[s] /\ req'[s] = req[s]
                          /\ read'[s] = read[s] /\ shown'[s] = shown[s]
                          /\ answer'[s] = answer[s]
                          /\ \A p \in Req : rowLock[p] = s => rowLock'[p] = s
                          /\ \A k \in Skus : skuLock[k] = s => skuLock'[k] = s

\* A quiet step keeps IInv if it keeps what IInv says of the request itself.
LEMMA QuietStep ==
  ASSUME IInv, NEW r \in Req, Quiet(r), TypeOK', ReqOK(r)', answer'[r] # "DELETED"
  PROVE  IInv'
<1>1. ASSUME NEW s \in Req, s # r PROVE ReqOK(s)'
  <2>1. /\ ReqOK(s) /\ products' = products
        /\ pc'[s] = pc[s] /\ req'[s] = req[s] /\ read'[s] = read[s]
        /\ shown'[s] = shown[s] /\ answer'[s] = answer[s]
        /\ \A p \in Req : rowLock[p] = s => rowLock'[p] = s
        /\ \A k \in Skus : skuLock[k] = s => skuLock'[k] = s
    BY <1>1 DEF IInv, Quiet
  <2>2. (Running(s) => Asked(s))'
    BY <2>1 DEF ReqOK, Asked, Running, Exists
  <2>3. HoldsSku(s)'
    BY <2>1 DEF ReqOK, HoldsSku, Taken, Exists, Asked, Running
  <2>4. HoldsRow(s)'
    BY <2>1 DEF ReqOK, HoldsRow, Exists, Asked, Running
  <2>5. ShowsRow(s)'
    BY <2>1 DEF ReqOK, ShowsRow, NewRow, Writes, Dirty
  <2>6. Answered(s)'
    BY <2>1 DEF ReqOK, Answered, Taken, Exists
  <2> QED BY <2>2, <2>3, <2>4, <2>5, <2>6 DEF ReqOK
<1>2. \A s \in Req : ReqOK(s)'
  BY <1>1
<1>3. SkuUnique'
  BY DEF IInv, SkuUnique, Exists, Quiet
<1>4. DeletedOnce'
  BY DEF IInv, DeletedOnce, Quiet
<1> QED BY <1>2, <1>3, <1>4 DEF IInv

\* The end of r's transaction takes no lock from anybody else.
LEMMA ReleaseLocksFacts ==
  ASSUME TypeOK, NEW r \in Req, ReleaseLocks(r)
  PROVE  /\ rowLock' \in [Req -> Req \cup {None}]
         /\ skuLock' \in [Skus -> Req \cup {None}]
         /\ \A s \in Req \ {r} : /\ \A p \in Req : rowLock[p] = s => rowLock'[p] = s
                                 /\ \A k \in Skus : skuLock[k] = s => skuLock'[k] = s
BY DEF TypeOK, ReleaseLocks

\* A rollback leaves the committed rows alone and answers the request.
LEMMA RollbackStep ==
  ASSUME IInv, NEW r \in Req, Running(r),
         NEW code \in {"SKU_ALREADY_EXISTS", "PRODUCT_NOT_FOUND", "ERROR"},
         code = "SKU_ALREADY_EXISTS" => Taken(req[r].sku),
         Rollback(r, code), UNCHANGED <<clock, signing, req, read>>
  PROVE  IInv'
<1>1. TypeOK'
  BY ReleaseLocksFacts DEF IInv, TypeOK, Rollback, Reply, Goto, Places, Answers
<1>2. /\ UNCHANGED <<products, req, read>>
      /\ pc' = [pc EXCEPT ![r] = "done"] /\ answer' = [answer EXCEPT ![r] = code]
      /\ shown' = [shown EXCEPT ![r] = None]
  BY DEF Rollback, Reply, Goto
<1>3. pc'[r] = "done" /\ answer'[r] = code
  BY <1>2 DEF IInv, TypeOK
<1>4. Quiet(r)
  BY <1>2, ReleaseLocksFacts DEF IInv, Quiet, Rollback, TypeOK
<1>5. ReqOK(r)'
  BY <1>2, <1>3, NoneAssumption
     DEF ReqOK, Running, HoldsSku, HoldsRow, ShowsRow, Answered, Taken, Exists, Answers
<1> QED BY <1>1, <1>3, <1>4, <1>5, QuietStep

-----------------------------------------------------------------------------
(* Arrivals *)

\* Requests that are answered on arrival: refused, or for an unknown product.
LEMMA AnsweredArrival ==
  ASSUME IInv, NEW r \in Req, NEW op \in AllOps,
         NEW code \in Answers \ {"DELETED", "SKU_ALREADY_EXISTS"},
         Arrive(r, op, None, None, None, None), Reply(r, code),
         UNCHANGED <<clock, products, locks, signing, read, shown>>
  PROVE  IInv'
<1> USE DEF Arrive, Reply, Goto, locks
<1>1. [op |-> op, admin |-> None, product |-> None, sku |-> None,
       body |-> None, began |-> clock] \in Requests
  BY DEF IInv, TypeOK, Requests
<1>2. TypeOK'
  BY <1>1 DEF IInv, TypeOK, Places
<1>3. Quiet(r)
  BY DEF IInv, TypeOK, Quiet
<1>4. pc[r] = "idle" /\ pc'[r] = "done" /\ answer'[r] = code
  BY DEF IInv, TypeOK
<1>5. ReqOK(r)'
  BY <1>4, NoneAssumption
     DEF IInv, ReqOK, Running, HoldsSku, HoldsRow, ShowsRow, Answered, Exists
<1> QED BY <1>2, <1>3, <1>4, <1>5, QuietStep

\* GET of a product that exists.
LEMMA GetPublicStep ==
  ASSUME IInv, NEW r \in Req, NEW p \in Req, GetPublic(r, p)
  PROVE  IInv'
<1> USE DEF Arrive, Reply, Goto, locks
<1>1. [op |-> "GET", admin |-> None, product |-> p, sku |-> None,
       body |-> None, began |-> clock] \in Requests
  BY DEF IInv, TypeOK, Requests, AllOps
<1>2. products[p] \in Rows
  BY DEF GetPublic, Exists, IInv, TypeOK
<1>3. PICK code \in {"FOUND", "PRODUCT_NOT_FOUND"} :
        pc[r] = "idle" /\ pc' = [pc EXCEPT ![r] = "done"]
        /\ answer' = [answer EXCEPT ![r] = code]
  BY DEF GetPublic
<1>4. shown' \in [Req -> Rows \cup {None}]
      /\ \A s \in Req \ {r} : shown'[s] = shown[s]
  BY <1>2 DEF GetPublic, IInv, TypeOK
<1>5. req' = [req EXCEPT ![r] = [op |-> "GET", admin |-> None, product |-> p,
                sku |-> None, body |-> None, began |-> clock]]
      /\ UNCHANGED <<clock, products, rowLock, skuLock, signing, read>>
  BY DEF GetPublic
<1>6. TypeOK'
  BY <1>1, <1>3, <1>4, <1>5 DEF IInv, TypeOK, Places, Answers
<1>7. Quiet(r)
  BY <1>3, <1>4, <1>5 DEF IInv, TypeOK, Quiet
<1>8. pc'[r] = "done" /\ answer'[r] = code
  BY <1>3 DEF IInv, TypeOK
<1>9. ReqOK(r)'
  BY <1>3, <1>5, <1>8, NoneAssumption
     DEF IInv, ReqOK, Running, HoldsSku, HoldsRow, ShowsRow, Answered, Answers, Exists
<1> QED BY <1>6, <1>7, <1>8, <1>9, QuietStep

\* Writing requests that arrive and go on to their first statement.
LEMMA WriterArrival ==
  ASSUME IInv, NEW r \in Req, NEW u \in Admins,
         NEW op \in {"CREATE", "UPDATE", "DELETE"}, NEW p \in Req,
         NEW s \in Skus \cup {None}, NEW body \in Changes \cup {None},
         Arrive(r, op, u, p, s, body),
         op = "CREATE" => p = r /\ s \in Skus /\ body \in Bodies /\ Goto(r, "precheck"),
         op = "UPDATE" => Exists(p) /\ body \in Changes /\ Goto(r, "lock"),
         op = "DELETE" => Exists(p) /\ Goto(r, "lock"),
         UNCHANGED <<clock, products, locks, signing, read, shown, answer>>
  PROVE  IInv'
<1> USE DEF Arrive, Goto, locks
<1> DEFINE asked == [op |-> op, admin |-> u, product |-> p, sku |-> s,
                     body |-> body, began |-> clock]
<1>1. asked \in Requests
  BY DEF IInv, TypeOK, Requests, AllOps
<1>2. /\ req' = [req EXCEPT ![r] = asked] /\ pc[r] = "idle"
      /\ pc' = [pc EXCEPT ![r] = IF op = "CREATE" THEN "precheck" ELSE "lock"]
      /\ UNCHANGED <<clock, products, rowLock, skuLock, signing, read, shown, answer>>
  OBVIOUS
<1>3. TypeOK'
  BY <1>1, <1>2 DEF IInv, TypeOK, Places
<1>4. Quiet(r)
  BY <1>2 DEF IInv, TypeOK, Quiet
<1>5. /\ req'[r] = asked /\ answer'[r] = None
      /\ pc'[r] = IF op = "CREATE" THEN "precheck" ELSE "lock"
  BY <1>2 DEF IInv, TypeOK, ReqOK, Answered
<1>6. asked.op = op /\ asked.product = p /\ asked.sku = s /\ asked.body = body
  OBVIOUS
<1> HIDE DEF asked
<1>7. ~Exists(r)
  BY <1>2 DEF IInv, ReqOK, Answered
<1>8. ReqOK(r)'
  <2>1. Asked(r)'
    BY <1>2, <1>5, <1>6 DEF Asked, Exists
  <2>2. HoldsSku(r)' /\ HoldsRow(r)' /\ ShowsRow(r)'
    BY <1>5 DEF HoldsSku, HoldsRow, ShowsRow
  <2>3. Answered(r)'
    BY <1>2, <1>5, <1>7, NoneAssumption DEF Answered, Exists, Answers
  <2> QED BY <2>1, <2>2, <2>3 DEF ReqOK
<1>9. answer'[r] # "DELETED"
  BY <1>5, NoneAssumption DEF Answers
<1> QED BY <1>3, <1>4, <1>8, <1>9, QuietStep

\* A complete body is one of the partial ones.
LEMMA BodiesAreChanges == Bodies \subseteq Changes
BY DEF Bodies, Changes

\* Every arrival.
LEMMA ArrivalStep ==
  ASSUME IInv, NEW r \in Req, Arrival(r)
  PROVE  IInv'
<1>1. ASSUME NEW op \in AllOps, Refuse(r, op) PROVE IInv'
  <2>1. PICK code \in {"UNAUTHENTICATED", "FORBIDDEN"} : Reply(r, code)
    BY <1>1 DEF Refuse
  <2> QED BY <1>1, <2>1, AnsweredArrival DEF Refuse, Answers
<1>2. ASSUME NEW op \in AllOps, UnknownProduct(r, op) PROVE IInv'
  BY <1>2, AnsweredArrival DEF UnknownProduct, Answers
<1>3. ASSUME NEW u \in Admins, NEW s \in Skus, NEW body \in Bodies,
             CreateStart(r, u, s, body)
      PROVE  IInv'
  BY <1>3, WriterArrival, BodiesAreChanges DEF CreateStart
<1>4. ASSUME NEW u \in Admins, NEW p \in Req, NEW changes \in Changes,
             UpdateStart(r, u, p, changes)
      PROVE  IInv'
  BY <1>4, WriterArrival DEF UpdateStart
<1>5. ASSUME NEW u \in Admins, NEW p \in Req, DeleteStart(r, u, p) PROVE IInv'
  BY <1>5, WriterArrival DEF DeleteStart
<1> QED BY <1>1, <1>2, <1>3, <1>4, <1>5, GetPublicStep DEF Arrival

-----------------------------------------------------------------------------
(* Statements before the commit *)

\* get_by_sku, without a lock.
LEMMA PrecheckStep ==
  ASSUME IInv, NEW r \in Req, Precheck(r)
  PROVE  IInv'
<1>0. Running(r) /\ UNCHANGED <<clock, signing, req, read>>
  BY DEF Precheck, Running
<1>1. CASE Taken(req[r].sku)
  BY <1>0, <1>1, RollbackStep DEF Precheck
<1>2. CASE ~Taken(req[r].sku)
  <2>1. /\ pc[r] = "precheck" /\ pc' = [pc EXCEPT ![r] = "insert"]
        /\ UNCHANGED <<clock, products, rowLock, skuLock, signing, req, read, shown, answer>>
    BY <1>2 DEF Precheck, Goto, locks
  <2>2. TypeOK' /\ Quiet(r) /\ pc'[r] = "insert"
    BY <2>1 DEF IInv, TypeOK, Places, Quiet
  <2>3. ReqOK(r)' /\ answer'[r] # "DELETED"
    BY <2>1, <2>2, NoneAssumption
       DEF IInv, ReqOK, Running, Asked, HoldsSku, HoldsRow, ShowsRow, Answered,
           Taken, Exists, Answers
  <2> QED BY <2>2, <2>3, QuietStep
<1> QED BY <1>1, <1>2

\* INSERT enters the SKU in the unique index.
LEMMA InsertStep ==
  ASSUME IInv, NEW r \in Req, Insert(r)
  PROVE  IInv'
<1>0. Running(r) /\ UNCHANGED <<clock, signing, req, read>>
  BY DEF Insert, Running
<1>1. CASE Taken(req[r].sku)
  BY <1>0, <1>1, RollbackStep DEF Insert
<1>2. CASE ~Taken(req[r].sku)
  <2>1. /\ pc[r] = "insert" /\ pc' = [pc EXCEPT ![r] = "creator"]
        /\ skuLock[req[r].sku] = None
        /\ skuLock' = [skuLock EXCEPT ![req[r].sku] = r]
        /\ UNCHANGED <<clock, products, rowLock, signing, req, read, shown, answer>>
    BY <1>2 DEF Insert, Goto
  <2>2. /\ req[r].op = "CREATE" /\ req[r].product = r
        /\ req[r].sku \in Skus /\ req[r].body \in Bodies
    BY <1>0, <2>1 DEF IInv, ReqOK, Asked
  <2>3. TypeOK' /\ pc'[r] = "creator" /\ skuLock'[req[r].sku] = r
    BY <2>1, <2>2 DEF IInv, TypeOK, Places
  <2>4. Quiet(r)
    BY <2>1, <2>2, NoneAssumption DEF IInv, TypeOK, Quiet
  <2>5. ReqOK(r)' /\ answer'[r] # "DELETED"
    BY <1>2, <2>1, <2>2, <2>3, NoneAssumption
       DEF IInv, ReqOK, Running, Asked, HoldsSku, HoldsRow, ShowsRow, Answered,
           Taken, Exists, Answers
  <2> QED BY <2>3, <2>4, <2>5, QuietStep
<1> QED BY <1>1, <1>2

\* The foreign key of the creator.
LEMMA CheckCreatorStep ==
  ASSUME IInv, NEW r \in Req, CheckCreator(r)
  PROVE  IInv'
<1>1. /\ pc[r] = "creator" /\ pc' = [pc EXCEPT ![r] = "refresh"]
      /\ UNCHANGED <<clock, products, rowLock, skuLock, signing, req, read, shown, answer>>
  BY DEF CheckCreator, Goto, locks
<1>2. TypeOK' /\ Quiet(r) /\ pc'[r] = "refresh"
  BY <1>1 DEF IInv, TypeOK, Places, Quiet
<1>3. ReqOK(r)' /\ answer'[r] # "DELETED"
  BY <1>1, <1>2, NoneAssumption
     DEF IInv, ReqOK, Running, Asked, HoldsSku, HoldsRow, ShowsRow, Answered,
         Taken, Exists, Answers
<1> QED BY <1>2, <1>3, QuietStep

\* The locking SELECT of update and delete.
LEMMA LockProductStep ==
  ASSUME IInv, NEW r \in Req, LockProduct(r)
  PROVE  IInv'
<1> DEFINE p == req[r].product
<1>0. /\ Running(r) /\ UNCHANGED <<clock, signing, req>>
      /\ pc[r] = "lock" /\ req[r].op \in {"UPDATE", "DELETE"}
      /\ p \in Req /\ products[p] \in Rows
  BY DEF LockProduct, Running, IInv, ReqOK, Asked, Exists, TypeOK
<1>1. CASE Selectable(p)
  <2>1. /\ rowLock[p] = None /\ rowLock' = [rowLock EXCEPT ![p] = r]
        /\ read' = [read EXCEPT ![r] = products[p]]
        /\ pc' = [pc EXCEPT ![r] = "flush"]
        /\ UNCHANGED <<products, skuLock, shown, answer>>
    BY <1>1 DEF LockProduct, Goto
  <2>2. TypeOK' /\ pc'[r] = "flush" /\ rowLock'[p] = r /\ read'[r] = products[p]
    BY <1>0, <2>1 DEF IInv, TypeOK, Places
  <2>3. Quiet(r)
    BY <1>0, <2>1, NoneAssumption DEF IInv, TypeOK, Quiet
  <2>4. ReqOK(r)' /\ answer'[r] # "DELETED"
    BY <1>0, <1>1, <2>1, <2>2, NoneAssumption
       DEF IInv, ReqOK, Running, Asked, HoldsSku, HoldsRow, ShowsRow, Answered,
           Exists, Selectable, Answers
  <2> QED BY <2>2, <2>3, <2>4, QuietStep
<1>2. CASE ~Selectable(p)
  BY <1>0, <1>2, RollbackStep DEF LockProduct
<1> QED BY <1>1, <1>2

\* The UPDATE statement, or none.
LEMMA FlushStep ==
  ASSUME IInv, NEW r \in Req, Flush(r)
  PROVE  IInv'
<1> DEFINE p == req[r].product
<1>1. /\ pc[r] = "flush" /\ pc' = [pc EXCEPT ![r] = IF req[r].op = "DELETE"
                                                THEN "commit" ELSE "refresh"]
      /\ UNCHANGED <<clock, products, skuLock, signing, req, read, shown, answer>>
      /\ rowLock' = [rowLock EXCEPT ![p] = r] \/ rowLock' = rowLock
  BY DEF Flush, Goto
<1>2. p \in Req /\ rowLock[p] = r /\ req[r].op \in {"UPDATE", "DELETE"}
  BY <1>1 DEF IInv, ReqOK, Running, Asked, HoldsRow
<1>3. rowLock' = rowLock
  BY <1>1, <1>2 DEF IInv, TypeOK
<1>4. TypeOK' /\ Quiet(r)
      /\ pc'[r] = IF req[r].op = "DELETE" THEN "commit" ELSE "refresh"
  BY <1>1, <1>3 DEF IInv, TypeOK, Places, Quiet
<1>5. ReqOK(r)' /\ answer'[r] # "DELETED"
  BY <1>1, <1>2, <1>3, <1>4, NoneAssumption
     DEF IInv, ReqOK, Running, Asked, HoldsSku, HoldsRow, ShowsRow, Answered,
         Exists, Answers
<1> QED BY <1>4, <1>5, QuietStep

\* What a committing request writes is a row.
LEMMA NewRowType ==
  ASSUME IInv, NEW r \in Req, pc[r] \in {"refresh", "commit"}
  PROVE  NewRow(r) \in Rows
<1> DEFINE p == req[r].product
<1>1. Asked(r) /\ TypeOK
  BY DEF IInv, ReqOK, Running
<1>2. req[r].began \in Times
  BY <1>1 DEF TypeOK, Requests
<1>3. CASE req[r].op = "CREATE"
  BY <1>1, <1>2, <1>3 DEF NewRow, Rows, Asked
<1>4. CASE req[r].op # "CREATE"
  <2>1. products[p] \in Rows /\ req[r].op \in {"UPDATE", "DELETE"}
    BY <1>1, <1>4 DEF Asked, TypeOK, Exists
  <2>2. ASSUME NEW c \in Dirty(r) PROVE req[r].body[c] \in Values
    BY <1>1 DEF Dirty, Asked, Changes
  <2>3. [c \in Columns |-> IF c \in Dirty(r) THEN req[r].body[c]
                                             ELSE products[p].body[c]] \in Bodies
    BY <2>1, <2>2 DEF Bodies, Rows
  <2>4. (products[p].deleted \/ req[r].op = "DELETE") \in BOOLEAN
    OBVIOUS
  <2>5. (IF Writes(r) THEN req[r].began ELSE products[p].updated) \in Times
    BY <1>2, <2>1 DEF Rows
  <2>6. products[p].sku \in Skus
    BY <2>1 DEF Rows
  <2> QED BY <1>4, <2>3, <2>4, <2>5, <2>6 DEF NewRow, Rows
<1> QED BY <1>3, <1>4

\* create and update read back what they have written.
LEMMA RefreshStep ==
  ASSUME IInv, NEW r \in Req, Refresh(r)
  PROVE  IInv'
<1>1. /\ pc[r] = "refresh" /\ pc' = [pc EXCEPT ![r] = "commit"]
      /\ shown' = [shown EXCEPT ![r] = NewRow(r)]
      /\ UNCHANGED <<clock, products, rowLock, skuLock, signing, req, read, answer>>
  BY DEF Refresh, Goto, locks
<1>2. NewRow(r) \in Rows /\ NewRow(r)' = NewRow(r)
  BY <1>1, NewRowType DEF NewRow, Writes, Dirty
<1>3. TypeOK' /\ Quiet(r) /\ pc'[r] = "commit" /\ shown'[r] = NewRow(r)
  BY <1>1, <1>2 DEF IInv, TypeOK, Places, Quiet
<1>4. ReqOK(r)' /\ answer'[r] # "DELETED"
  <2>1. Asked(r)' /\ HoldsSku(r)' /\ HoldsRow(r)'
    BY <1>1, <1>3 DEF IInv, ReqOK, Running, Asked, HoldsSku, HoldsRow, Taken, Exists
  <2>2. ShowsRow(r)'
    BY <1>2, <1>3 DEF ShowsRow
  <2>3. Answered(r)' /\ answer'[r] # "DELETED"
    BY <1>1, <1>3, NoneAssumption DEF IInv, ReqOK, Answered, Exists, Answers
  <2> QED BY <2>1, <2>2, <2>3 DEF ReqOK
<1> QED BY <1>3, <1>4, QuietStep

-----------------------------------------------------------------------------
(* The commit *)

\* What is known of a request that is about to commit, and of its row.
LEMMA CommitFacts ==
  ASSUME IInv, NEW r \in Req, Commit(r)
  PROVE  LET p == req[r].product
         IN /\ pc[r] = "commit" /\ p \in Req /\ NewRow(r) \in Rows
            /\ req[r].op \in {"CREATE", "UPDATE", "DELETE"}
            /\ req[r].op = "CREATE" =>
                 /\ p = r /\ ~Exists(p) /\ req[r].sku \in Skus
                 /\ skuLock[req[r].sku] = r /\ ~Taken(req[r].sku)
                 /\ NewRow(r).sku = req[r].sku /\ ~NewRow(r).deleted
            /\ req[r].op # "CREATE" =>
                 /\ Exists(p) /\ ~products[p].deleted /\ rowLock[p] = r
                 /\ NewRow(r).sku = products[p].sku
                 /\ NewRow(r).deleted = (req[r].op = "DELETE")
<1> DEFINE p == req[r].product
<1>1. pc[r] = "commit" /\ ReqOK(r) /\ TypeOK /\ Asked(r)
  BY DEF Commit, IInv, ReqOK, Running
<1>2. NewRow(r) \in Rows
  BY <1>1, NewRowType
<1>3. CASE req[r].op = "CREATE"
  <2>1. NewRow(r).sku = req[r].sku /\ ~NewRow(r).deleted
    BY <1>3 DEF NewRow
  <2> QED BY <1>1, <1>2, <1>3, <2>1 DEF ReqOK, Asked, HoldsSku, Answered
<1>4. CASE req[r].op # "CREATE"
  <2>1. /\ req[r].op \in {"UPDATE", "DELETE"} /\ p \in Req /\ Exists(p)
        /\ ~products[p].deleted /\ rowLock[p] = r /\ products[p] \in Rows
    BY <1>1, <1>4 DEF ReqOK, Asked, HoldsRow, TypeOK, Exists
  <2>2. NewRow(r).sku = products[p].sku
    BY <1>4 DEF NewRow
  <2>3. NewRow(r).deleted = (products[p].deleted \/ req[r].op = "DELETE")
    BY <1>4 DEF NewRow
  <2> QED BY <1>1, <1>2, <1>4, <2>1, <2>2, <2>3
<1> QED BY <1>3, <1>4

\* COMMIT keeps IInv: whoever else works on the row or the SKU would hold the
\* lock that r holds.
LEMMA CommitStep ==
  ASSUME IInv, NEW r \in Req, Commit(r)
  PROVE  IInv'
<1> DEFINE p == req[r].product
<1> DEFINE row == NewRow(r)
<1> USE NoneAssumption
<1>1. /\ pc[r] = "commit" /\ p \in Req /\ row \in Rows /\ row # None
      /\ req[r].op \in {"CREATE", "UPDATE", "DELETE"}
      /\ req[r].op = "CREATE" =>
           /\ p = r /\ ~Exists(p) /\ req[r].sku \in Skus
           /\ skuLock[req[r].sku] = r /\ ~Taken(req[r].sku)
           /\ row.sku = req[r].sku /\ ~row.deleted
      /\ req[r].op # "CREATE" =>
           /\ Exists(p) /\ ~products[p].deleted /\ rowLock[p] = r
           /\ row.sku = products[p].sku /\ row.deleted = (req[r].op = "DELETE")
  BY CommitFacts
<1>2. /\ products' = [products EXCEPT ![p] = row]
      /\ pc' = [pc EXCEPT ![r] = "done"]
      /\ answer' = [answer EXCEPT ![r] = Verdict(r)]
      /\ UNCHANGED <<clock, signing, req, read, shown>>
  BY DEF Commit, Reply, Goto
<1> HIDE DEF row
<1>3. Verdict(r) = CASE req[r].op = "CREATE" -> "CREATED"
                     [] req[r].op = "UPDATE" -> "UPDATED"
                     [] req[r].op = "DELETE" -> "DELETED"
  BY DEF Verdict
<1>4. /\ Verdict(r) \in {"CREATED", "UPDATED", "DELETED"}
      /\ Verdict(r) = "DELETED" <=> req[r].op = "DELETE"
  BY <1>1, <1>3
<1>5. TypeOK'
  BY <1>1, <1>2, <1>4, ReleaseLocksFacts DEF Commit, IInv, TypeOK, Places, Answers
<1>6. /\ \A q \in Req \ {p} : products'[q] = products[q]
      /\ products'[p] = row
      /\ \A q \in Req : Exists(q) => Exists(q)'
      /\ \A q \in Req : Exists(q)' <=> Exists(q) \/ q = p
      /\ \A s \in Req \ {r} : pc'[s] = pc[s] /\ answer'[s] = answer[s]
      /\ pc'[r] = "done" /\ answer'[r] = Verdict(r)
  BY <1>1, <1>2 DEF IInv, TypeOK, Exists
<1>7. /\ \A k : Taken(k) => Taken(k)'
      /\ \A k : Taken(k)' => Taken(k) \/ (req[r].op = "CREATE" /\ k = req[r].sku)
  BY <1>1, <1>6 DEF Taken, Exists
\* Nobody else has locked the row, and it is not one that was deleted.
<1>8. ASSUME NEW s \in Req, s # r,
             req[s].op \in {"UPDATE", "DELETE"}, pc[s] \in {"flush", "refresh", "commit"}
      PROVE  req[s].product # p /\ req[s].product \in Req
  <2>1. Exists(req[s].product) /\ rowLock[req[s].product] = s /\ req[s].product \in Req
    BY <1>8 DEF IInv, ReqOK, Running, Asked, HoldsRow
  <2> QED BY <1>1, <1>8, <2>1
<1>9. ASSUME NEW s \in Req, s # r PROVE ReqOK(s)'
  <2>0. /\ ReqOK(s) /\ pc'[s] = pc[s] /\ answer'[s] = answer[s]
        /\ req'[s] = req[s] /\ read'[s] = read[s] /\ shown'[s] = shown[s]
        /\ \A q \in Req : rowLock[q] = s => rowLock'[q] = s
        /\ \A k \in Skus : skuLock[k] = s => skuLock'[k] = s
    BY <1>2, <1>6, <1>9, ReleaseLocksFacts DEF Commit, IInv
  <2>1. (Running(s) => Asked(s))'
    BY <1>6, <2>0 DEF ReqOK, Running, Asked
  <2>2. HoldsSku(s)'
    BY <1>1, <1>7, <1>9, <2>0 DEF ReqOK, HoldsSku, Running, Asked
  <2>3. HoldsRow(s)'
    BY <1>6, <1>8, <1>9, <2>0 DEF ReqOK, HoldsRow
  <2>4. ShowsRow(s)'
    <3>1. SUFFICES ASSUME pc[s] = "commit", req[s].op # "DELETE"
                   PROVE  NewRow(s)' = NewRow(s)
      BY <2>0 DEF ReqOK, ShowsRow
    <3>2. req[s].op = "CREATE" \/ products'[req[s].product] = products[req[s].product]
      BY <1>6, <1>8, <1>9, <2>0, <3>1 DEF ReqOK, Running, Asked
    <3>3. Dirty(s)' = Dirty(s) /\ Writes(s)' = Writes(s)
      BY <2>0 DEF Dirty, Writes
    <3> QED BY <2>0, <3>2, <3>3 DEF NewRow
  <2>5. Answered(s)'
    BY <1>1, <1>6, <1>7, <1>9, <2>0 DEF ReqOK, Answered
  <2> QED BY <2>1, <2>2, <2>3, <2>4, <2>5 DEF ReqOK
<1>10. ReqOK(r)'
  <2>1. (Running(r) => Asked(r))' /\ HoldsSku(r)' /\ HoldsRow(r)' /\ ShowsRow(r)'
    BY <1>6 DEF Running, HoldsSku, HoldsRow, ShowsRow
  <2>2. Answered(r)'
    <3>1. answer'[r] \notin {None, "SKU_ALREADY_EXISTS"} /\ pc'[r] = "done"
      BY <1>4, <1>6 DEF Answers
    <3>2. answer'[r] = "DELETED" => products'[p] # None /\ products'[p].deleted
      <4>1. answer'[r] = "DELETED" => req[r].op = "DELETE"
        BY <1>4, <1>6
      <4>2. req[r].op = "DELETE" => row.deleted
        BY <1>1
      <4> QED BY <1>1, <1>6, <4>1, <4>2
    <3>3. req'[r].product = p
      BY <1>2
    <3> QED BY <1>1, <3>1, <3>2, <3>3 DEF Answered, Exists
  <2> QED BY <2>1, <2>2 DEF ReqOK
<1>11. SkuUnique'
  <2>1. ASSUME NEW q \in Req, q # p, Exists(q) PROVE products[q].sku # row.sku
    BY <1>1, <2>1 DEF IInv, SkuUnique, Taken
  <2> QED BY <1>6, <2>1 DEF IInv, SkuUnique
<1>12. DeletedOnce'
  <2>1. ASSUME NEW s \in Req, s # r, answer[s] = "DELETED", req[r].op = "DELETE"
        PROVE  req[s].product # p
    BY <1>1, <2>1 DEF IInv, ReqOK, Answered
  <2> QED BY <1>2, <1>4, <1>6, <2>1 DEF IInv, DeletedOnce
<1>13. \A s \in Req : ReqOK(s)'
  BY <1>9, <1>10
<1> QED BY <1>5, <1>11, <1>12, <1>13 DEF IInv

-----------------------------------------------------------------------------
(* The inductive invariant *)

\* Init establishes it.
LEMMA InitIInv == Init => IInv
<1> SUFFICES ASSUME Init PROVE IInv
  OBVIOUS
<1>1. TypeOK
  BY ConstantsAssumption DEF Init, TypeOK, Times, Requests, NoRequest, Places
<1>2. \A r \in Req : ReqOK(r)
  BY NoneAssumption DEF Init, ReqOK, Running, HoldsSku, HoldsRow, ShowsRow, Answered,
                        Exists, Answers
<1>3. SkuUnique /\ DeletedOnce
  BY NoneAssumption DEF Init, SkuUnique, DeletedOnce, Exists, Answers
<1> QED BY <1>1, <1>2, <1>3 DEF IInv

\* A failure rolls back.
LEMMA AbortStep ==
  ASSUME IInv, NEW r \in Req, Abort(r)
  PROVE  IInv'
BY RollbackStep DEF Abort, Running

\* Neither the clock nor sign-ins touch what IInv says of requests and rows.
LEMMA EnvironmentStep ==
  ASSUME IInv, UNCHANGED <<products, locks, local>>,
         clock' \in Times, signing' \subseteq Admins
  PROVE  IInv'
BY DEF IInv, locks, local, TypeOK, ReqOK, Running, Asked, HoldsSku, HoldsRow, ShowsRow,
       NewRow, Writes, Dirty, Answered, Taken, Exists, SkuUnique, DeletedOnce

\* Every step preserves it.
LEMMA NextIInv == IInv /\ [Next]_vars => IInv'
<1> SUFFICES ASSUME IInv, [Next]_vars PROVE IInv'
  OBVIOUS
<1>1. ASSUME NEW r \in Req, Advance(r) PROVE IInv'
  BY <1>1, PrecheckStep, InsertStep, CheckCreatorStep, LockProductStep, FlushStep,
     RefreshStep, CommitStep DEF Advance
<1>2. ASSUME NEW u \in Admins, SignIn(u) \/ SignedIn(u) PROVE IInv'
  BY <1>2, EnvironmentStep DEF SignIn, SignedIn, IInv, TypeOK
<1>3. CASE Tick
  <2>1. clock' \in Times
    BY <1>3, ConstantsAssumption DEF Tick, IInv, TypeOK, Times
  <2> QED BY <1>3, <2>1, EnvironmentStep DEF Tick, IInv, TypeOK
<1>4. CASE UNCHANGED vars
  BY <1>4, EnvironmentStep DEF vars, locks, local, IInv, TypeOK
<1> QED BY <1>1, <1>2, <1>3, <1>4, ArrivalStep, AbortStep DEF Next, Terminated

\* IInv holds in every reachable state.
THEOREM Invariance == Spec => []IInv
BY InitIInv, NextIInv, PTL DEF Spec

\* Every reachable state is well typed.
THEOREM TypeCorrect == Spec => []TypeOK
<1>1. IInv => TypeOK
  BY DEF IInv
<1> QED BY <1>1, Invariance, PTL

\* No SKU is ever given to two products, deleted ones included (create's
\* INSERT against uq_products_sku, whatever its precheck saw).
THEOREM SkuNamesOneProduct == Spec => []SkuUnique
<1>1. IInv => SkuUnique
  BY DEF IInv
<1> QED BY <1>1, Invariance, PTL

\* A creation is refused only for a SKU that a committed product has.
THEOREM RefusalsAreJustified == Spec => []RefusedSkuIsTaken
<1>1. IInv => RefusedSkuIsTaken
  BY DEF IInv, ReqOK, Answered, RefusedSkuIsTaken
<1> QED BY <1>1, Invariance, PTL

\* At most one DELETE of a product is answered 204.
THEOREM OneDeletion == Spec => []DeletedOnce
<1>1. IInv => DeletedOnce
  BY DEF IInv
<1> QED BY <1>1, Invariance, PTL

-----------------------------------------------------------------------------
(* What a step may answer *)

\* A step answers the request it is a step of and no other; before the commit
\* it refuses, or shows a public product.
LEMMA AnswerStep ==
  ASSUME IInv, NEW s \in Req, Arrival(s) \/ Advance(s) \/ Abort(s)
  PROVE  /\ \A r \in Req \ {s} : answer'[r] = answer[r]
         /\ \/ answer'[s] = answer[s]
            \/ answer'[s] \in {"UNAUTHENTICATED", "FORBIDDEN", "PRODUCT_NOT_FOUND", "ERROR"}
            \/ answer'[s] = "FOUND" /\ ~products[req'[s].product].deleted
            \/ answer'[s] = "SKU_ALREADY_EXISTS" /\ req' = req /\ ~Exists(req[s].product)
            \/ Commit(s)
<1> USE DEF Reply, Goto, Rollback, Arrive
<1>0. TypeOK /\ ReqOK(s)
  BY DEF IInv
<1>1. ASSUME NEW op \in AllOps, Refuse(s, op) \/ UnknownProduct(s, op)
      PROVE  /\ \A r \in Req \ {s} : answer'[r] = answer[r]
             /\ answer'[s] \in {"UNAUTHENTICATED", "FORBIDDEN", "PRODUCT_NOT_FOUND"}
  BY <1>0, <1>1 DEF Refuse, UnknownProduct, TypeOK
<1>2. ASSUME NEW p \in Req, GetPublic(s, p)
      PROVE  /\ \A r \in Req \ {s} : answer'[r] = answer[r]
             /\ \/ answer'[s] = "PRODUCT_NOT_FOUND"
                \/ answer'[s] = "FOUND" /\ ~products[req'[s].product].deleted
  <2>1. req'[s].product = p
    BY <1>0, <1>2 DEF GetPublic, TypeOK
  <2> QED BY <1>0, <1>2, <2>1 DEF GetPublic, Public, Selectable, TypeOK
<1>3. ASSUME NEW u \in Admins, NEW p \in Req,
             \/ \E k \in Skus, body \in Bodies : CreateStart(s, u, k, body)
             \/ \E changes \in Changes : UpdateStart(s, u, p, changes)
             \/ DeleteStart(s, u, p)
      PROVE  answer' = answer
  BY <1>3 DEF CreateStart, UpdateStart, DeleteStart
<1>4. ASSUME Precheck(s) \/ Insert(s)
      PROVE  /\ \A r \in Req \ {s} : answer'[r] = answer[r]
             /\ \/ answer'[s] = answer[s]
                \/ answer'[s] = "SKU_ALREADY_EXISTS" /\ req' = req /\ ~Exists(req[s].product)
  <2>1. ~Exists(req[s].product)
    BY <1>0, <1>4 DEF ReqOK, Running, Asked, Answered, Precheck, Insert
  <2> QED BY <1>0, <1>4, <2>1 DEF Precheck, Insert, TypeOK
<1>5. ASSUME LockProduct(s)
      PROVE  /\ \A r \in Req \ {s} : answer'[r] = answer[r]
             /\ answer'[s] \in {answer[s], "PRODUCT_NOT_FOUND"}
  BY <1>0, <1>5 DEF LockProduct, TypeOK
<1>6. ASSUME CheckCreator(s) \/ Flush(s) \/ Refresh(s)
      PROVE  answer' = answer
  BY <1>6 DEF CheckCreator, Flush, Refresh
<1>7. ASSUME Commit(s)
      PROVE  \A r \in Req \ {s} : answer'[r] = answer[r]
  BY <1>0, <1>7 DEF Commit, TypeOK
<1>8. ASSUME Abort(s)
      PROVE  /\ \A r \in Req \ {s} : answer'[r] = answer[r]
             /\ answer'[s] = "ERROR"
  BY <1>0, <1>8 DEF Abort, TypeOK
<1>9. CASE Arrival(s)
  BY <1>1, <1>2, <1>3, <1>9 DEF Arrival
<1>10. CASE Advance(s)
  BY <1>4, <1>5, <1>6, <1>7, <1>10 DEF Advance
<1> QED BY <1>8, <1>9, <1>10

\* The environment answers nobody.
LEMMA NextCases ==
  ASSUME [Next]_vars
  PROVE  \/ \E s \in Req : Arrival(s) \/ Advance(s) \/ Abort(s)
         \/ UNCHANGED <<products, answer>>
BY DEF Next, vars, SignIn, SignedIn, Tick, Terminated, local

\* An answered PATCH has taken effect, column by column, and its response
\* shows the committed row (ProductService.update).
LEMMA UpdateCommit ==
  ASSUME IInv, NEW r \in Req, Commit(r), req[r].op = "UPDATE", NEW c \in Columns
  PROVE  LET p == req[r].product
         IN /\ products'[p].body[c] = IF req[r].body[c] # None THEN req[r].body[c]
                                                               ELSE products[p].body[c]
            /\ shown[r] = products'[p]
<1> DEFINE p == req[r].product
<1>1. /\ p \in Req /\ read[r] = products[p] /\ shown[r] = NewRow(r)
      /\ pc[r] = "commit"
  BY DEF Commit, IInv, ReqOK, Running, Asked, HoldsRow, ShowsRow
<1>2. products'[p] = NewRow(r)
  BY <1>1 DEF Commit, IInv, TypeOK
<1>3. NewRow(r).body[c] = IF c \in Dirty(r) THEN req[r].body[c] ELSE products[p].body[c]
  BY DEF NewRow
<1>4. c \in Dirty(r) <=> req[r].body[c] # None /\ req[r].body[c] # products[p].body[c]
  BY <1>1 DEF Dirty
<1> QED BY <1>1, <1>2, <1>3, <1>4

\* UpdateTakesEffect holds of every step: only a commit answers UPDATED.
THEOREM UpdatesTakeEffect == Spec => UpdateTakesEffect
<1> DEFINE Effect == \A r \in Req :
       answer[r] = None /\ answer'[r] = "UPDATED" =>
         LET p == req[r].product
         IN /\ \A c \in Columns :
                 products'[p].body[c] = IF req[r].body[c] # None
                                          THEN req[r].body[c]
                                          ELSE products[p].body[c]
            /\ shown[r] = products'[p]
<1>1. ASSUME IInv, [Next]_vars PROVE Effect
  <2> SUFFICES ASSUME NEW r \in Req, answer[r] = None, answer'[r] = "UPDATED"
               PROVE  /\ Commit(r) /\ req[r].op = "UPDATE"
    BY <1>1, UpdateCommit, ConstantsAssumption
  <2>1. PICK s \in Req : Arrival(s) \/ Advance(s) \/ Abort(s)
    BY <1>1, NextCases, NoneAssumption DEF Answers
  <2>2. Commit(r)
    BY <1>1, <2>1, AnswerStep, NoneAssumption DEF Answers
  <2>3. answer'[r] = Verdict(r)
    BY <1>1, <2>2 DEF Commit, Reply, IInv, TypeOK
  <2>4. req[r].op \in {"CREATE", "UPDATE", "DELETE"}
    BY <1>1, <2>2, CommitFacts
  <2>5. req[r].op = "UPDATE"
    <3>1. CASE req[r].op = "CREATE"
      BY <2>3, <3>1, Zenon DEF Verdict
    <3>2. CASE req[r].op = "DELETE"
      BY <2>3, <3>2, Zenon DEF Verdict
    <3> QED BY <2>4, <3>1, <3>2
  <2> QED BY <2>2, <2>5
<1> QED BY <1>1, Invariance, PTL DEF Spec, UpdateTakesEffect

\* Once a DELETE has been answered, every other request on the product is
\* answered that there is no such product, or fails.
THEOREM NothingFollowsDeletion == Spec => NothingAfterDeletion
<1> DEFINE Gone == \A r, d \in Req :
       /\ answer[d] = "DELETED"
       /\ answer[r] = None
       /\ req'[r].product = req[d].product
       => answer'[r] \in {None, "PRODUCT_NOT_FOUND", "FORBIDDEN",
                          "UNAUTHENTICATED", "ERROR"}
<1>1. ASSUME IInv, [Next]_vars PROVE Gone
  <2> SUFFICES ASSUME NEW r \in Req, NEW d \in Req, answer[d] = "DELETED",
                      answer[r] = None, req'[r].product = req[d].product,
                      answer'[r] # None
               PROVE  answer'[r] \in {"PRODUCT_NOT_FOUND", "FORBIDDEN",
                                      "UNAUTHENTICATED", "ERROR"}
    BY <1>1
  <2> DEFINE p == req[d].product
  <2>1. p \in Req /\ Exists(p) /\ products[p].deleted
    BY <1>1 DEF IInv, ReqOK, Answered
  <2>2. PICK s \in Req : Arrival(s) \/ Advance(s) \/ Abort(s)
    BY <1>1, NextCases
  <2>3. s = r
    BY <1>1, <2>2, AnswerStep
  <2>4. ~Commit(r)
    <3>1. SUFFICES ASSUME Commit(r) PROVE FALSE
      OBVIOUS
    <3>2. req[r].product = p
      BY <3>1 DEF Commit
    <3> QED BY <1>1, <2>1, <3>1, <3>2, CommitFacts
  <2> QED BY <1>1, <2>1, <2>2, <2>3, <2>4, AnswerStep
<1> QED BY <1>1, Invariance, PTL DEF Spec, NothingAfterDeletion

-----------------------------------------------------------------------------
(* Refinement *)

\* The catalogue that ProductsAbs sees.
Catalogue == [p \in Req |-> IF Exists(p)
                              THEN [sku |-> products[p].sku, body |-> products[p].body,
                                    deleted |-> products[p].deleted]
                              ELSE None]

\* A commit is one atomic operation of the catalogue.
LEMMA CommitImplements ==
  ASSUME IInv, NEW r \in Req, Commit(r),
         NEW p \in Req, p = req[r].product,
         NEW k, k = req[r].sku, NEW b, b = req[r].body
  PROVE  Abs!Next
<1> DEFINE row == NewRow(r)
<1> DEFINE old == products[p]
<1> USE NoneAssumption
<1>1. row \in Rows /\ req[r].op \in {"CREATE", "UPDATE", "DELETE"}
  BY CommitFacts
<1>2. products' = [products EXCEPT ![p] = row] /\ products \in [Req -> Rows \cup {None}]
  BY DEF Commit, IInv, TypeOK
<1>3. ReqOK(r) /\ Asked(r) /\ pc[r] = "commit"
  BY DEF Commit, IInv, ReqOK, Running
<1>4. Catalogue' = [Catalogue EXCEPT
        ![p] = [sku |-> row.sku, body |-> row.body, deleted |-> row.deleted]]
  BY <1>1, <1>2 DEF Catalogue, Exists
<1>5. Catalogue[p] = IF Exists(p)
                       THEN [sku |-> old.sku, body |-> old.body, deleted |-> old.deleted]
                       ELSE None
  BY DEF Catalogue
<1>6. CASE req[r].op = "CREATE"
  <2>1. row = [sku |-> k, body |-> b, deleted |-> FALSE, updated |-> req[r].began]
    BY <1>6 DEF NewRow
  <2>2. Catalogue[p] = None /\ k \in Skus /\ b \in Bodies /\ ~Taken(k)
    BY <1>3, <1>5, <1>6, CommitFacts DEF Asked
  <2>3. ~Abs!Used(k)
    BY <2>2 DEF Abs!Used, Taken, Exists
  <2>4. Catalogue' = [Catalogue EXCEPT ![p] = [sku |-> k, body |-> b, deleted |-> FALSE]]
    BY <1>4, <2>1
  <2>5. Abs!Create(p, k, b)
    BY <2>2, <2>3, <2>4 DEF Abs!Create, Abs!Product, Catalogue
  <2> QED BY <2>2, <2>5 DEF Abs!Next, Abs!Bodies, Bodies
<1>7. CASE req[r].op # "CREATE"
  <2>1. Exists(p) /\ old.deleted = FALSE /\ read[r] = old /\ old \in Rows
    BY <1>2, <1>3, <1>7, CommitFacts DEF ReqOK, HoldsRow, Exists, Rows
  <2>2. Catalogue[p] = [sku |-> old.sku, body |-> old.body, deleted |-> FALSE]
    BY <1>5, <2>1
  <2>3. Abs!OnSale(p)
    <3>1. old.sku \in Skus /\ old.body \in Bodies
      BY <2>1 DEF Rows
    <3>2. Catalogue[p] # None /\ ~Catalogue[p].deleted
      <4> HIDE DEF old
      <4>1. [sku |-> old.sku, body |-> old.body, deleted |-> FALSE] # None
        <5> DEFINE cell == [sku |-> old.sku, body |-> old.body, deleted |-> FALSE]
        <5>1. cell \in [sku : Skus, body : Bodies, deleted : BOOLEAN]
          BY <3>1
        <5>2. cell # None
          <6> HIDE DEF cell
          <6> QED BY <5>1, AbsNoneAssumption
        <5> QED BY <5>2
      <4>2. Catalogue[p].deleted = FALSE
        BY <2>2
      <4> QED BY <2>2, <4>1, <4>2, Zenon
    <3> QED BY <3>2 DEF Abs!OnSale, Catalogue
  <2>4. row.sku = old.sku
    BY <1>7 DEF NewRow
  <2>5. CASE req[r].op = "UPDATE"
    <3>1. b \in Changes
      BY <1>3, <2>5 DEF Asked
    <3>2. row.body = Abs!Merge(old.body, b)
      <4>1. row.body = [c \in Columns |-> IF c \in Dirty(r) THEN b[c] ELSE old.body[c]]
        BY <1>7 DEF NewRow
      <4>2. ASSUME NEW c \in Columns
            PROVE  (IF c \in Dirty(r) THEN b[c] ELSE old.body[c])
                   = (IF b[c] = None THEN old.body[c] ELSE b[c])
        BY <2>1, <2>5 DEF Dirty
      <4> QED BY <4>1, <4>2 DEF Abs!Merge
    <3>3. row.deleted = FALSE
      BY <1>7, <2>1, <2>5 DEF NewRow
    <3>4. Catalogue' = [Catalogue EXCEPT
            ![p] = Abs!Product(Catalogue[p].sku, Abs!Merge(Catalogue[p].body, b), FALSE)]
      <4> HIDE DEF row, old
      <4>1. Catalogue[p].sku = row.sku /\ Catalogue[p].body = old.body
        BY <2>2, <2>4
      <4> QED BY <1>4, <3>2, <3>3, <4>1 DEF Abs!Product
    <3>5. Abs!Update(p, b)
      BY <2>3, <3>4 DEF Abs!Update, Abs!Product, Catalogue
    <3> QED BY <3>1, <3>5 DEF Abs!Next, Abs!Changes, Changes
  <2>6. CASE req[r].op = "DELETE"
    <3>1. row.body = old.body
      BY <1>7, <2>1, <2>6 DEF NewRow, Dirty, Rows, Bodies
    <3>2. row.deleted = TRUE
      BY <1>7, <2>6 DEF NewRow
    <3>3. Catalogue' = [Catalogue EXCEPT
            ![p] = Abs!Product(Catalogue[p].sku, Catalogue[p].body, TRUE)]
      <4> HIDE DEF row, old
      <4>1. Catalogue[p].sku = row.sku /\ Catalogue[p].body = row.body
        BY <2>2, <2>4, <3>1
      <4> QED BY <1>4, <3>2, <4>1 DEF Abs!Product
    <3>4. Abs!Delete(p)
      BY <2>3, <3>3 DEF Abs!Delete, Abs!Product, Catalogue
    <3> QED BY <3>4 DEF Abs!Next
  <2> QED BY <1>1, <1>7, <2>5, <2>6
<1> QED BY <1>6, <1>7

\* Every other step leaves the table alone.
LEMMA OnlyCommitWrites ==
  ASSUME [Next]_vars
  PROVE  (\E r \in Req : Commit(r)) \/ UNCHANGED products
<1>1. ASSUME NEW r \in Req, Arrival(r) PROVE UNCHANGED products
  BY <1>1 DEF Arrival, Refuse, UnknownProduct, CreateStart, UpdateStart, DeleteStart,
              GetPublic
<1>2. ASSUME NEW r \in Req, Advance(r) PROVE Commit(r) \/ UNCHANGED products
  BY <1>2 DEF Advance, Precheck, Insert, CheckCreator, LockProduct, Flush, Refresh,
              Rollback
<1>3. ASSUME NEW r \in Req, Abort(r) PROVE UNCHANGED products
  BY <1>3 DEF Abort, Rollback
<1> QED BY <1>1, <1>2, <1>3 DEF Next, vars, SignIn, SignedIn, Tick, Terminated

\* The statement-by-statement catalogue implements the atomic one.
THEOREM Refinement == Spec => ImplementsAbs
<1>1. Init => Abs!Init
  BY DEF Init, Abs!Init, Exists
<1>2. ASSUME IInv, [Next]_vars PROVE [Abs!Next]_Catalogue
  <2>1. CASE \E r \in Req : Commit(r)
    <3>1. PICK r \in Req : Commit(r)
      BY <2>1
    <3>2. req[r].product \in Req
      BY <1>2, <3>1, CommitFacts
    <3> QED BY <1>2, <3>1, <3>2, CommitImplements
  <2>2. CASE UNCHANGED products
    BY <2>2 DEF Catalogue, Exists
  <2> QED BY <1>2, <2>1, <2>2, OnlyCommitWrites
<1> QED BY <1>1, <1>2, Invariance, PTL DEF Spec, ImplementsAbs, Abs!Spec, Catalogue
=============================================================================
