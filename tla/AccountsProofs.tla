--------------------------- MODULE AccountsProofs ---------------------------
(***************************************************************************)
(* Proofs about Accounts, for any requests, spellings and names.  Steps    *)
(* before the commit change one request's local state only (QuietStep);    *)
(* Commit and SetActive change one row, which leaves alone whoever does    *)
(* not hold it (OthersKeep).                                               *)
(***************************************************************************)
EXTENDS AccountsProperties, TLAPS

\* Nobody else's local state or locks change.
Private(r) ==
  \A s \in Req \ {r} : /\ pc'[s] = pc[s] /\ req'[s] = req[s]
                       /\ read'[s] = read[s] /\ shown'[s] = shown[s]
                       /\ answer'[s] = answer[s]
                       /\ \A u \in Req : userLock[u] = s => userLock'[u] = s
                       /\ \A e \in Spellings : mailLock[e] = s => mailLock'[e] = s

\* What the addresses in lower case are.
LEMMA AddressType ==
  ASSUME NEW r \in Req, req[r].email \in Spellings
  PROVE  Address(r) \in Spellings /\ Lower[Address(r)] = Address(r)
BY ConstantsAssumption DEF Address

\* A step that changes no row keeps IInv if it keeps what IInv says of the
\* request itself.
LEMMA QuietStep ==
  ASSUME IInv, NEW r \in Req, Private(r), UNCHANGED accounts, TypeOK', ReqOK(r)'
  PROVE  IInv'
<1>1. ASSUME NEW s \in Req, s # r PROVE ReqOK(s)'
  <2>1. /\ ReqOK(s) /\ accounts' = accounts
        /\ pc'[s] = pc[s] /\ req'[s] = req[s] /\ read'[s] = read[s]
        /\ shown'[s] = shown[s] /\ answer'[s] = answer[s]
        /\ \A u \in Req : userLock[u] = s => userLock'[u] = s
        /\ \A e \in Spellings : mailLock[e] = s => mailLock'[e] = s
    BY <1>1 DEF IInv, Private
  <2>2. (Running(s) => Asked(s))'
    BY <2>1 DEF ReqOK, Asked, Running, Exists
  <2>3. HoldsMail(s)'
    BY <2>1, AddressType DEF ReqOK, HoldsMail, Taken, Exists, Asked, Running, Address
  <2>4. HoldsRow(s)'
    BY <2>1 DEF ReqOK, HoldsRow, Asked, Running
  <2>5. ShowsRow(s)'
    BY <2>1 DEF ReqOK, ShowsRow, NewRow
  <2>6. Answered(s)'
    BY <2>1 DEF ReqOK, Answered, Taken, Exists
  <2> QED BY <2>2, <2>3, <2>4, <2>5, <2>6 DEF ReqOK
<1>2. \A s \in Req : ReqOK(s)'
  BY <1>1
<1>3. Stored'
  BY DEF IInv, Stored, Exists
<1> QED BY <1>2, <1>3 DEF IInv

\* The end of r's transaction takes no lock from anybody else.
LEMMA ReleaseLocksFacts ==
  ASSUME TypeOK, NEW r \in Req, ReleaseLocks(r)
  PROVE  /\ userLock' \in [Req -> Req \cup {None}]
         /\ mailLock' \in [Spellings -> Req \cup {None}]
         /\ \A s \in Req \ {r} :
              /\ \A u \in Req : userLock[u] = s => userLock'[u] = s
              /\ \A e \in Spellings : mailLock[e] = s => mailLock'[e] = s
BY DEF TypeOK, ReleaseLocks

\* A rollback leaves the committed rows alone and answers the request.
LEMMA RollbackStep ==
  ASSUME IInv, NEW r \in Req, Running(r),
         NEW code \in {"ALREADY_EXISTS", "UNAUTHENTICATED", "ERROR"},
         code = "ALREADY_EXISTS" => Taken(Lower[req[r].email]),
         Rollback(r, code), UNCHANGED req,
         read' \in [Req -> Rows \cup {None}],
         \A s \in Req \ {r} : read'[s] = read[s]
  PROVE  IInv'
<1>1. TypeOK'
  BY ReleaseLocksFacts DEF IInv, TypeOK, Rollback, Reply, Goto, Places, Answers
<1>2. /\ UNCHANGED <<accounts, req>>
      /\ pc' = [pc EXCEPT ![r] = "done"] /\ answer' = [answer EXCEPT ![r] = code]
      /\ shown' = [shown EXCEPT ![r] = None]
  BY DEF Rollback, Reply, Goto
<1>3. pc'[r] = "done" /\ answer'[r] = code
  BY <1>2 DEF IInv, TypeOK
<1>4. Private(r)
  BY <1>2, ReleaseLocksFacts DEF IInv, Private, Rollback, TypeOK
<1>5. ReqOK(r)'
  BY <1>2, <1>3, NoneAssumption
     DEF ReqOK, Running, HoldsMail, HoldsRow, ShowsRow, Answered, Taken, Exists, Answers
<1> QED BY <1>1, <1>2, <1>4, <1>5, QuietStep

\* A request that runs on is not answered yet.
LEMMA RunsOn ==
  ASSUME IInv, NEW r \in Req, Running(r), Running(r)',
         UNCHANGED accounts, answer'[r] = answer[r]
  PROVE  Answered(r)'
<1>1. answer[r] = None /\ accounts[r] = None
  BY DEF IInv, ReqOK, Answered, Running, Exists
<1>2. pc'[r] # "done" /\ answer'[r] = None /\ accounts'[r] = None
  BY <1>1 DEF Running
<1>3. answer'[r] # "ALREADY_EXISTS"
  BY <1>2, NoneAssumption DEF Answers
<1> QED BY <1>2, <1>3 DEF Answered, Exists

-----------------------------------------------------------------------------
(* Arrivals *)

\* Requests that begin to run, on an existing account or to open one.
LEMMA RunningArrival ==
  ASSUME IInv, NEW r \in Req, NEW op \in AllOps, NEW u \in Req,
         NEW e \in Spellings \cup {None}, NEW n \in Names,
         Arrive(r, op, u, e, n),
         read' \in [Req -> Rows \cup {None}],
         \A s \in Req \ {r} : read'[s] = read[s],
         IF op = "UPDATE_PROFILE" THEN Exists(u) /\ Goto(r, "lock")
                                  ELSE u = r /\ e \in Spellings /\ Goto(r, "precheck"),
         UNCHANGED <<accounts, locks, shown, answer>>
  PROVE  IInv'
<1> USE DEF Arrive, Goto, locks
<1> DEFINE asked == [op |-> op, user |-> u, email |-> e, name |-> n]
<1>1. asked \in Requests
  BY DEF Requests
<1>2. /\ req' = [req EXCEPT ![r] = asked] /\ pc[r] = "idle"
      /\ pc' = [pc EXCEPT ![r] = IF op = "UPDATE_PROFILE" THEN "lock" ELSE "precheck"]
      /\ UNCHANGED <<accounts, userLock, mailLock, shown, answer>>
  OBVIOUS
<1>3. TypeOK' /\ Private(r)
  BY <1>1, <1>2 DEF IInv, TypeOK, Places, Private
<1>4. /\ req'[r] = asked /\ answer'[r] = None
      /\ pc'[r] = IF op = "UPDATE_PROFILE" THEN "lock" ELSE "precheck"
      /\ ~Exists(r)
  BY <1>2 DEF IInv, TypeOK, ReqOK, Answered
<1>5. asked.op = op /\ asked.user = u /\ asked.email = e /\ asked.name = n
  OBVIOUS
<1> HIDE DEF asked
<1>6. Asked(r)'
  BY <1>2, <1>4, <1>5 DEF Asked, Exists, AllOps
<1>7. HoldsMail(r)' /\ HoldsRow(r)' /\ ShowsRow(r)'
  BY <1>4 DEF HoldsMail, HoldsRow, ShowsRow
<1>8. Answered(r)'
  BY <1>2, <1>4, NoneAssumption DEF Answered, Exists, Answers
<1> QED BY <1>2, <1>3, <1>6, <1>7, <1>8, QuietStep DEF ReqOK

\* A caller that is refused.
LEMMA RefuseStep ==
  ASSUME IInv, NEW r \in Req, Refuse(r)
  PROVE  IInv'
<1> USE DEF Refuse, Arrive, Reply, Goto, locks
<1>1. [op |-> "UPDATE_PROFILE", user |-> None, email |-> None, name |-> None] \in Requests
  BY DEF Requests, AllOps
<1>2. TypeOK' /\ Private(r)
  BY <1>1 DEF IInv, TypeOK, Places, Answers, Private
<1>3. pc[r] = "idle" /\ pc'[r] = "done" /\ answer'[r] = "UNAUTHENTICATED"
  BY DEF IInv, TypeOK
<1>4. ReqOK(r)'
  BY <1>3, NoneAssumption
     DEF ReqOK, Running, HoldsMail, HoldsRow, ShowsRow, Answered, Answers
<1> QED BY <1>2, <1>4, QuietStep

\* Every arrival.
LEMMA ArrivalStep ==
  ASSUME IInv, NEW r \in Req, Arrival(r)
  PROVE  IInv'
<1>1. ASSUME NEW op \in AllOps, NEW e \in Spellings, NEW n \in Names,
             CreateStart(r, op, e, n)
      PROVE  IInv'
  BY <1>1, RunningArrival DEF CreateStart, IInv, TypeOK
<1>2. ASSUME NEW u \in Req, NEW n \in Names, UpdateProfileStart(r, u, n) PROVE IInv'
  <2>1. accounts[u] \in Rows
    BY <1>2 DEF UpdateProfileStart, Active, Exists, IInv, TypeOK
  <2>2. read' \in [Req -> Rows \cup {None}] /\ \A s \in Req \ {r} : read'[s] = read[s]
    BY <1>2, <2>1 DEF UpdateProfileStart, IInv, TypeOK
  <2> QED BY <1>2, <2>2, RunningArrival DEF UpdateProfileStart, Active, AllOps
<1> QED BY <1>1, <1>2, RefuseStep DEF Arrival

-----------------------------------------------------------------------------
(* Statements before the commit *)

\* get_user_by_email, once or twice.
LEMMA PrecheckStep ==
  ASSUME IInv, NEW r \in Req, Precheck(r)
  PROVE  IInv'
<1>0. Running(r) /\ UNCHANGED <<req, read>> /\ read \in [Req -> Rows \cup {None}]
      /\ Asked(r) /\ TypeOK /\ ReqOK(r)
  BY DEF Precheck, Running, IInv, ReqOK, TypeOK
<1>1. CASE Taken(Address(r))
  BY <1>0, <1>1, RollbackStep DEF Precheck, Address
<1>2. CASE ~Taken(Address(r))
  <2>1. PICK next \in {"again", "insert"} :
          /\ pc[r] \in {"precheck", "again"} /\ pc' = [pc EXCEPT ![r] = next]
          /\ UNCHANGED <<accounts, userLock, mailLock, req, read, shown, answer>>
    BY <1>2 DEF Precheck, Goto, locks
  <2>2. TypeOK' /\ Private(r) /\ pc'[r] = next
    BY <1>0, <2>1 DEF TypeOK, Places, Private
  <2>3. Answered(r)'
    BY <1>0, <2>1, <2>2, RunsOn DEF Running
  <2>4. (Asked(r) /\ HoldsMail(r) /\ HoldsRow(r) /\ ShowsRow(r))'
    BY <1>0, <2>1, <2>2 DEF Asked, HoldsMail, HoldsRow, ShowsRow, Exists
  <2> QED BY <2>1, <2>2, <2>3, <2>4, QuietStep DEF ReqOK
<1> QED BY <1>1, <1>2

\* INSERT enters the address in the unique index.
LEMMA InsertStep ==
  ASSUME IInv, NEW r \in Req, Insert(r)
  PROVE  IInv'
<1>0. Running(r) /\ UNCHANGED <<req, read>> /\ read \in [Req -> Rows \cup {None}]
      /\ Asked(r) /\ TypeOK /\ ReqOK(r) /\ pc[r] = "insert"
  BY DEF Insert, Running, IInv, ReqOK, TypeOK
<1>1. CASE Taken(Address(r))
  BY <1>0, <1>1, RollbackStep DEF Insert, Address
<1>2. CASE ~Taken(Address(r))
  <2>1. /\ pc' = [pc EXCEPT ![r] = "commit"]
        /\ mailLock[Address(r)] = None
        /\ mailLock' = [mailLock EXCEPT ![Address(r)] = r]
        /\ UNCHANGED <<accounts, userLock, req, read, shown, answer>>
    BY <1>2 DEF Insert, Goto
  <2>2. /\ req[r].op \in {"REGISTER", "CREATE_ADMIN"} /\ req[r].user = r
        /\ req[r].email \in Spellings /\ req[r].name \in Names
        /\ Address(r) \in Spellings
    BY <1>0, AddressType DEF Asked
  <2>3. TypeOK' /\ pc'[r] = "commit" /\ mailLock'[Address(r)] = r
    BY <1>0, <2>1, <2>2 DEF TypeOK, Places
  <2>4. Private(r)
    BY <1>0, <2>1, <2>2, NoneAssumption DEF TypeOK, Private
  <2>5. Address(r)' = Address(r) /\ ~Taken(Address(r))'
    BY <1>2, <2>1 DEF Address, Taken, Exists
  <2>6. Answered(r)'
    BY <1>0, <2>1, <2>3, RunsOn DEF Running
  <2>7. (Asked(r) /\ HoldsRow(r) /\ ShowsRow(r))'
    BY <2>1, <2>2, <2>3 DEF Asked, HoldsRow, ShowsRow
  <2>8. HoldsMail(r)'
    BY <2>1, <2>3, <2>5 DEF HoldsMail
  <2> QED BY <2>1, <2>3, <2>4, <2>6, <2>7, <2>8, QuietStep DEF ReqOK
<1> QED BY <1>1, <1>2

\* The locking SELECT of update_profile.
LEMMA LockRowStep ==
  ASSUME IInv, NEW r \in Req, LockRow(r)
  PROVE  IInv'
<1> DEFINE u == req[r].user
<1>0. /\ Running(r) /\ req' = req /\ Asked(r) /\ TypeOK /\ ReqOK(r)
      /\ pc[r] = "lock" /\ req[r].op = "UPDATE_PROFILE"
      /\ u \in Req /\ accounts[u] \in Rows
      /\ read' = [read EXCEPT ![r] = accounts[u]]
  BY DEF LockRow, Running, IInv, ReqOK, Asked, Exists, TypeOK
<1>1. /\ read' \in [Req -> Rows \cup {None}] /\ read'[r] = accounts[u]
      /\ \A s \in Req \ {r} : read'[s] = read[s]
  BY <1>0 DEF TypeOK
<1>2. CASE Active(u)
  <2>1. /\ userLock[u] = None /\ userLock' = [userLock EXCEPT ![u] = r]
        /\ pc' = [pc EXCEPT ![r] = "refresh"]
        /\ UNCHANGED <<accounts, mailLock, req, shown, answer>>
    BY <1>0, <1>2 DEF LockRow, Goto
  <2>2. TypeOK' /\ pc'[r] = "refresh" /\ userLock'[u] = r
    BY <1>0, <1>1, <2>1 DEF TypeOK, Places
  <2>3. Private(r)
    BY <1>0, <1>1, <2>1, NoneAssumption DEF TypeOK, Private
  <2>4. Answered(r)'
    BY <1>0, <2>1, <2>2, RunsOn DEF Running
  <2>5. (Asked(r) /\ HoldsMail(r) /\ HoldsRow(r) /\ ShowsRow(r))'
    BY <1>0, <1>1, <1>2, <2>1, <2>2
       DEF Asked, HoldsMail, HoldsRow, ShowsRow, Exists, Active
  <2> QED BY <2>1, <2>2, <2>3, <2>4, <2>5, QuietStep DEF ReqOK
<1>3. CASE ~Active(u)
  BY <1>0, <1>1, <1>3, RollbackStep DEF LockRow
<1> QED BY <1>2, <1>3

\* What a committing request writes is a row.
LEMMA NewRowType ==
  ASSUME IInv, NEW r \in Req, pc[r] \in {"refresh", "commit"}
  PROVE  NewRow(r) \in Rows
<1>1. Asked(r) /\ TypeOK
  BY DEF IInv, ReqOK, Running
<1>2. CASE req[r].op = "UPDATE_PROFILE"
  BY <1>1, <1>2 DEF NewRow, Rows, Asked, TypeOK, Exists
<1>3. CASE req[r].op # "UPDATE_PROFILE"
  <2>1. Address(r) \in Spellings /\ req[r].name \in Names
    BY <1>1, <1>3, AddressType DEF Asked
  <2> QED BY <1>3, <2>1 DEF NewRow, Rows, Roles
<1> QED BY <1>2, <1>3

\* flush and refresh of update_profile.
LEMMA RefreshStep ==
  ASSUME IInv, NEW r \in Req, Refresh(r)
  PROVE  IInv'
<1>1. /\ pc[r] = "refresh" /\ pc' = [pc EXCEPT ![r] = "commit"]
      /\ shown' = [shown EXCEPT ![r] = NewRow(r)]
      /\ UNCHANGED <<accounts, userLock, mailLock, req, read, answer>>
  BY DEF Refresh, Goto, locks
<1>2. NewRow(r) \in Rows /\ NewRow(r)' = NewRow(r)
  BY <1>1, NewRowType DEF NewRow, Address
<1>3. TypeOK' /\ Private(r) /\ pc'[r] = "commit" /\ shown'[r] = NewRow(r)
  BY <1>1, <1>2 DEF IInv, TypeOK, Places, Private
<1>4. ReqOK(r)'
  <2>1. Asked(r)' /\ HoldsMail(r)' /\ HoldsRow(r)'
    BY <1>1, <1>3 DEF IInv, ReqOK, Running, Asked, HoldsMail, HoldsRow, Exists
  <2>2. ShowsRow(r)'
    BY <1>2, <1>3 DEF ShowsRow
  <2>3. Answered(r)'
    BY <1>1, <1>3, RunsOn DEF Running
  <2> QED BY <2>1, <2>2, <2>3 DEF ReqOK
<1> QED BY <1>1, <1>3, <1>4, QuietStep

-----------------------------------------------------------------------------
(* Steps that write a row *)

\* A row that is new, with an address of its own, or keeps the one it has.
Fits(u, row) ==
  /\ Lower[row.email] = row.email
  /\ IF Exists(u) THEN row.email = accounts[u].email ELSE ~Taken(row.email)

\* Writing row u leaves alone a request that holds neither it nor the address.
LEMMA OthersKeep ==
  ASSUME IInv, NEW s \in Req, NEW u \in Req, NEW row \in Rows,
         accounts' = [accounts EXCEPT ![u] = row], Fits(u, row),
         IF Exists(u) THEN userLock[u] # s ELSE mailLock[row.email] # s /\ u # s,
         pc'[s] = pc[s], req'[s] = req[s], read'[s] = read[s],
         shown'[s] = shown[s], answer'[s] = answer[s],
         \A v \in Req : userLock[v] = s => userLock'[v] = s,
         \A e \in Spellings : mailLock[e] = s => mailLock'[e] = s
  PROVE  ReqOK(s)'
<1>1. /\ accounts \in [Req -> Rows \cup {None}] /\ row # None
      /\ accounts'[u] = row
      /\ \A v \in Req \ {u} : accounts'[v] = accounts[v]
  BY NoneAssumption DEF IInv, TypeOK
<1>2. \A v \in Req : Exists(v) => Exists(v)' /\ accounts'[v].email = accounts[v].email
  BY <1>1 DEF Exists, Fits
<1>3. ASSUME NEW e, Taken(e) PROVE Taken(e)'
  BY <1>2, <1>3 DEF Taken
<1>4. ASSUME NEW e, ~Taken(e), Exists(u) \/ e # row.email PROVE ~Taken(e)'
  BY <1>1, <1>4 DEF Taken, Exists, Fits
<1>5. (Running(s) => Asked(s))'
  BY <1>2 DEF IInv, ReqOK, Running, Asked
<1>6. HoldsMail(s)'
  <2>1. SUFFICES ASSUME req[s].op \in {"REGISTER", "CREATE_ADMIN"}, pc[s] = "commit"
                 PROVE  mailLock'[Address(s)] = s /\ ~Taken(Address(s))'
    BY DEF HoldsMail, Taken, Address
  <2>2. req[s].email \in Spellings /\ mailLock[Address(s)] = s /\ ~Taken(Address(s))
    BY <2>1 DEF IInv, ReqOK, Running, Asked, HoldsMail
  <2>3. Address(s) \in Spellings /\ (Exists(u) \/ Address(s) # row.email)
    BY <2>2, AddressType
  <2>4. Address(s)' = Address(s)
    BY DEF Address
  <2>5. ~Taken(Address(s))'
    BY <1>1, <2>2, <2>3, <2>4 DEF Taken, Exists, Fits
  <2> QED BY <2>2, <2>3, <2>5
<1>7. ASSUME req[s].op = "UPDATE_PROFILE", pc[s] \in {"refresh", "commit"}
      PROVE  /\ req[s].user \in Req /\ userLock[req[s].user] = s
             /\ accounts'[req[s].user] = accounts[req[s].user]
  <2>1. req[s].user \in Req /\ Exists(req[s].user) /\ userLock[req[s].user] = s
    BY <1>7 DEF IInv, ReqOK, Running, Asked, HoldsRow
  <2> QED BY <1>1, <2>1
<1>8. HoldsRow(s)'
  BY <1>7 DEF IInv, ReqOK, HoldsRow
<1>9. ShowsRow(s)'
  BY <1>7 DEF IInv, ReqOK, ShowsRow, NewRow
<1>10. Answered(s)'
  <2>1. answer[s] = "ALREADY_EXISTS" => Taken(Lower[req[s].email])'
    BY <1>3 DEF IInv, ReqOK, Answered
  <2>2. Exists(s)' => Exists(s)
    BY <1>1 DEF Exists, Fits
  <2> QED BY <2>1, <2>2 DEF IInv, ReqOK, Answered
<1> QED BY <1>5, <1>6, <1>8, <1>9, <1>10 DEF ReqOK

\* Addresses stay in lower case and apart.
LEMMA StoredKept ==
  ASSUME IInv, NEW u \in Req, NEW row \in Rows,
         accounts' = [accounts EXCEPT ![u] = row], Fits(u, row)
  PROVE  Stored'
<1>1. /\ accounts'[u] = row
      /\ \A v \in Req \ {u} : accounts'[v] = accounts[v]
  BY DEF IInv, TypeOK
<1>2. ASSUME NEW v \in Req, v # u, Exists(v) PROVE accounts[v].email # row.email
  BY <1>2 DEF IInv, Stored, Fits, Taken
<1> QED BY <1>1, <1>2 DEF IInv, Stored, Exists, Fits

\* What holds when a transaction commits.
LEMMA CommitFacts ==
  ASSUME IInv, NEW r \in Req, Commit(r)
  PROVE  LET u == req[r].user
         IN /\ u \in Req /\ NewRow(r) \in Rows /\ Fits(u, NewRow(r))
            /\ IF req[r].op = "UPDATE_PROFILE"
                 THEN /\ Exists(u) /\ userLock[u] = r /\ accounts[u].active
                      /\ read[r] = accounts[u] /\ shown[r] = NewRow(r)
                 ELSE u = r /\ ~Exists(u) /\ mailLock[NewRow(r).email] = r
            /\ req[r].name \in Names
<1> DEFINE u == req[r].user
<1>1. /\ TypeOK /\ ReqOK(r) /\ Asked(r) /\ pc[r] = "commit" /\ ~Exists(r)
      /\ NewRow(r) \in Rows
  BY NewRowType DEF Commit, IInv, ReqOK, Running, Answered
<1>2. CASE req[r].op = "UPDATE_PROFILE"
  <2>1. /\ u \in Req /\ Exists(u) /\ userLock[u] = r /\ accounts[u].active
        /\ read[r] = accounts[u] /\ shown[r] = NewRow(r) /\ req[r].name \in Names
    BY <1>1, <1>2 DEF ReqOK, Asked, HoldsRow, ShowsRow
  <2>2. NewRow(r).email = accounts[u].email
    BY <1>2 DEF NewRow
  <2> QED BY <1>1, <1>2, <2>1, <2>2 DEF Fits, IInv, Stored
<1>3. CASE req[r].op # "UPDATE_PROFILE"
  <2>1. u = r /\ req[r].email \in Spellings /\ req[r].name \in Names
        /\ mailLock[Address(r)] = r /\ ~Taken(Address(r))
    BY <1>1, <1>3 DEF ReqOK, Asked, HoldsMail
  <2>2. NewRow(r).email = Address(r)
    BY <1>3 DEF NewRow
  <2> QED BY <1>1, <1>3, <2>1, <2>2, AddressType DEF Fits
<1> QED BY <1>2, <1>3

\* COMMIT makes the row visible and lets the waiting requests go on.
LEMMA CommitStep ==
  ASSUME IInv, NEW r \in Req, Commit(r)
  PROVE  IInv'
<1> DEFINE u == req[r].user
<1> DEFINE row == NewRow(r)
<1> DEFINE code == IF req[r].op = "UPDATE_PROFILE" THEN "UPDATED" ELSE "CREATED"
<1>1. /\ u \in Req /\ row \in Rows /\ Fits(u, row)
      /\ Exists(u) => userLock[u] = r
      /\ ~Exists(u) => u = r /\ mailLock[row.email] = r
  BY CommitFacts
<1>2. /\ accounts' = [accounts EXCEPT ![u] = row]
      /\ pc' = [pc EXCEPT ![r] = "done"] /\ answer' = [answer EXCEPT ![r] = code]
      /\ UNCHANGED <<req, read, shown>>
  BY DEF Commit, Reply, Goto
<1> HIDE DEF u, row
<1>3. TypeOK
  BY DEF IInv
<1>4. /\ userLock' \in [Req -> Req \cup {None}]
      /\ mailLock' \in [Spellings -> Req \cup {None}]
      /\ \A s \in Req \ {r} :
           /\ \A v \in Req : userLock[v] = s => userLock'[v] = s
           /\ \A e \in Spellings : mailLock[e] = s => mailLock'[e] = s
  BY <1>3, ReleaseLocksFacts DEF Commit
<1>5. pc'[r] = "done" /\ answer'[r] = code /\ TypeOK'
  BY <1>1, <1>2, <1>3, <1>4 DEF TypeOK, Places, Answers
<1>6. ASSUME NEW s \in Req, s # r PROVE ReqOK(s)'
  BY <1>1, <1>2, <1>3, <1>4, <1>6, OthersKeep DEF TypeOK
<1>7. ReqOK(r)'
  BY <1>2, <1>5, NoneAssumption
     DEF ReqOK, Running, HoldsMail, HoldsRow, ShowsRow, Answered, Answers
<1>8. Stored'
  BY <1>1, <1>2, StoredKept
<1> QED BY <1>5, <1>6, <1>7, <1>8 DEF IInv

\* The operator's UPDATE waits for whoever holds the row.
LEMMA SetActiveStep ==
  ASSUME IInv, NEW u \in Req, SetActive(u)
  PROVE  IInv'
<1> DEFINE row == [accounts[u] EXCEPT !.active = ~accounts[u].active]
<1>1. /\ Exists(u) /\ userLock[u] = None /\ accounts' = [accounts EXCEPT ![u] = row]
      /\ UNCHANGED <<userLock, mailLock, pc, req, read, shown, answer>>
  BY DEF SetActive, locks
<1>2. row \in Rows /\ row.email = accounts[u].email
  <2>1. accounts[u] \in Rows
    BY <1>1 DEF IInv, TypeOK, Exists
  <2>2. (~accounts[u].active) \in BOOLEAN
    OBVIOUS
  <2> QED BY <2>1, <2>2 DEF Rows
<1>3. Fits(u, row)
  BY <1>1, <1>2 DEF Fits, IInv, Stored
<1> HIDE DEF row
<1>4. TypeOK'
  BY <1>1, <1>2 DEF IInv, TypeOK
<1>5. ASSUME NEW s \in Req PROVE ReqOK(s)'
  BY <1>1, <1>2, <1>3, OthersKeep, NoneAssumption
<1> QED BY <1>1, <1>2, <1>3, <1>4, <1>5, StoredKept DEF IInv

-----------------------------------------------------------------------------
(* The invariant *)

\* The empty table.
LEMMA InitIInv == Init => IInv
<1> SUFFICES ASSUME Init PROVE IInv
  OBVIOUS
<1>1. TypeOK
  BY DEF Init, TypeOK, Places, Requests, NoRequest
<1>2. \A r \in Req : ReqOK(r)
  BY NoneAssumption DEF Init, ReqOK, Running, HoldsMail, HoldsRow, ShowsRow, Answered,
                        Exists, Answers
<1>3. Stored
  BY DEF Init, Stored, Exists
<1> QED BY <1>1, <1>2, <1>3 DEF IInv

\* A failure, wherever the request is.
LEMMA AbortStep ==
  ASSUME IInv, NEW r \in Req, Abort(r)
  PROVE  IInv'
BY RollbackStep DEF Abort, Running, IInv, TypeOK

\* Every step keeps IInv.
LEMMA NextIInv == IInv /\ [Next]_vars => IInv'
<1> SUFFICES ASSUME IInv, [Next]_vars PROVE IInv'
  OBVIOUS
<1>1. ASSUME NEW r \in Req, Advance(r) PROVE IInv'
  BY <1>1, PrecheckStep, InsertStep, LockRowStep, RefreshStep, CommitStep DEF Advance
<1>2. CASE UNCHANGED vars
  BY <1>2 DEF vars, IInv, TypeOK, ReqOK, Running, Asked, HoldsMail, HoldsRow, ShowsRow,
              Answered, Stored, Taken, Exists, Address, NewRow
<1> QED BY <1>1, <1>2, ArrivalStep, AbortStep, SetActiveStep DEF Next, Terminated

\* IInv holds in every reachable state.
THEOREM Invariance == Spec => []IInv
BY InitIInv, NextIInv, PTL DEF Spec

\* Every reachable state is well typed.
THEOREM TypeCorrect == Spec => []TypeOK
<1>1. IInv => TypeOK
  BY DEF IInv
<1> QED BY <1>1, Invariance, PTL

\* No address, however it is spelled, ever has two accounts (register's and
\* create_admin's INSERT against uq_users_email, whatever their prechecks saw).
THEOREM OneAccountPerAddress == Spec => []AddressUnique
<1>1. IInv => AddressUnique
  BY DEF IInv, Stored, AddressUnique
<1> QED BY <1>1, Invariance, PTL

\* An address is refused only if a committed account has it.
THEOREM RefusalsAreJustified == Spec => []RefusedAddressIsTaken
<1>1. IInv => RefusedAddressIsTaken
  BY DEF IInv, ReqOK, Answered, RefusedAddressIsTaken
<1> QED BY <1>1, Invariance, PTL

-----------------------------------------------------------------------------
(* What a step may answer, and what it writes *)

\* A step leaves the table and the answers of others alone, answers its own
\* request at most with a refusal, or is a commit; only an operator writes
\* besides.
LEMMA StepCases ==
  ASSUME IInv, [Next]_vars
  PROVE  \/ \E s \in Req : Commit(s)
         \/ \E u \in Req : SetActive(u) /\ answer' = answer
         \/ /\ UNCHANGED accounts
            /\ \A r \in Req : answer'[r] \in
                 {answer[r], "ALREADY_EXISTS", "UNAUTHENTICATED", "ERROR"}
<1> USE DEF Reply, Goto, Rollback
<1> DEFINE Quiet == /\ UNCHANGED accounts
                    /\ \A r \in Req : answer'[r] \in
                         {answer[r], "ALREADY_EXISTS", "UNAUTHENTICATED", "ERROR"}
<1>0. TypeOK
  BY DEF IInv
<1>1. ASSUME NEW s \in Req, Arrival(s) PROVE Quiet
  BY <1>0, <1>1 DEF Arrival, CreateStart, Refuse, UpdateProfileStart, TypeOK
<1>2. ASSUME NEW s \in Req, Precheck(s) \/ Insert(s) \/ LockRow(s) \/ Refresh(s)
      PROVE  Quiet
  BY <1>0, <1>2 DEF Precheck, Insert, LockRow, Refresh, TypeOK
<1>3. ASSUME NEW s \in Req, Abort(s) PROVE Quiet
  BY <1>0, <1>3 DEF Abort, TypeOK
<1>4. ASSUME NEW u \in Req, SetActive(u) PROVE answer' = answer
  BY <1>4 DEF SetActive
<1>5. ASSUME UNCHANGED vars PROVE Quiet
  BY <1>5 DEF vars
<1> HIDE DEF Quiet
<1>6. \/ Quiet
      \/ \E s \in Req : Commit(s)
      \/ \E u \in Req : SetActive(u) /\ answer' = answer
  BY <1>1, <1>2, <1>3, <1>4, <1>5 DEF Next, Advance, Terminated
<1> QED BY <1>6 DEF Quiet

\* What an update commits is the row with the requested name, whether the unit
\* of work found the name different or not.
LEMMA UpdateCommit ==
  ASSUME IInv, NEW r \in Req, Commit(r), req[r].op = "UPDATE_PROFILE"
  PROVE  LET u == req[r].user
         IN /\ accounts'[u] = [accounts[u] EXCEPT !.name = req[r].name]
            /\ shown[r] = accounts'[u]
<1> DEFINE u == req[r].user
<1> DEFINE old == accounts[u]
<1>1. /\ u \in Req /\ Exists(u) /\ read[r] = old /\ shown[r] = NewRow(r)
  BY CommitFacts
<1>2. accounts'[u] = NewRow(r)
  BY <1>1 DEF Commit, IInv, TypeOK
<1>3. old \in Rows
  BY <1>1 DEF IInv, TypeOK, Exists
<1>4. NewRow(r) = [email |-> old.email, role |-> old.role, active |-> old.active,
                   name |-> req[r].name]
  BY <1>1 DEF NewRow
<1> HIDE DEF old
<1>5. [old EXCEPT !.name = req[r].name]
        = [email |-> old.email, role |-> old.role, active |-> old.active,
           name |-> req[r].name]
  BY <1>3 DEF Rows
<1> QED BY <1>1, <1>2, <1>4, <1>5 DEF old

\* ProfileTakesEffect holds of every step: only a commit answers UPDATED.
THEOREM UpdatesTakeEffect == Spec => ProfileTakesEffect
<1> DEFINE Effect == \A r \in Req :
       answer[r] = None /\ answer'[r] = "UPDATED" =>
         LET u == req[r].user
         IN /\ accounts'[u] = [accounts[u] EXCEPT !.name = req[r].name]
            /\ shown[r] = accounts'[u]
<1>1. ASSUME IInv, [Next]_vars PROVE Effect
  <2> SUFFICES ASSUME NEW r \in Req, answer[r] = None, answer'[r] = "UPDATED"
               PROVE  Commit(r) /\ req[r].op = "UPDATE_PROFILE"
    BY <1>1, UpdateCommit
  <2>1. answer'[r] # None
    BY NoneAssumption DEF Answers
  <2>2. PICK s \in Req : Commit(s)
    BY <1>1, <2>1, StepCases
  <2>3. answer' = [answer EXCEPT ![s] = IF req[s].op = "UPDATE_PROFILE"
                                          THEN "UPDATED" ELSE "CREATED"]
    BY <2>2 DEF Commit, Reply
  <2>4. s = r
    BY <1>1, <2>1, <2>3 DEF IInv, TypeOK
  <2> QED BY <1>1, <2>2, <2>3, <2>4 DEF IInv, TypeOK
<1> QED BY <1>1, Invariance, PTL DEF Spec, ProfileTakesEffect

-----------------------------------------------------------------------------
(* Refinement *)

\* A commit is one atomic operation on accounts.
LEMMA CommitImplements ==
  ASSUME IInv, NEW r \in Req, Commit(r)
  PROVE  Abs!Next
<1> DEFINE u == req[r].user
<1> DEFINE old == accounts[u]
<1> DEFINE n == req[r].name
<1>1. /\ u \in Req /\ n \in Names /\ Fits(u, NewRow(r))
      /\ IF req[r].op = "UPDATE_PROFILE"
           THEN Exists(u) /\ old.active /\ read[r] = old
           ELSE u = r /\ ~Exists(u)
      /\ accounts' = [accounts EXCEPT ![u] = NewRow(r)]
      /\ Asked(r)
  BY CommitFacts DEF Commit, IInv, ReqOK, Running
<1>2. CASE req[r].op = "UPDATE_PROFILE"
  <2>1. old \in Rows /\ old # None /\ old.active = TRUE
    BY <1>1, <1>2 DEF IInv, TypeOK, Exists, Rows
  <2>2. NewRow(r) = Abs!Account(old.email, old.role, n, TRUE)
    BY <1>1, <1>2, <2>1 DEF NewRow, Abs!Account
  <2>3. Abs!Rename(u, n)
    BY <1>1, <2>1, <2>2 DEF Abs!Rename
  <2> QED BY <1>1, <2>3 DEF Abs!Next
<1>3. CASE req[r].op # "UPDATE_PROFILE"
  <2> DEFINE a == Address(r)
  <2> DEFINE role == IF req[r].op = "REGISTER" THEN "USER" ELSE "ADMIN"
  <2>1. NewRow(r) = Abs!Account(a, role, n, TRUE)
    BY <1>3 DEF NewRow, Abs!Account
  <2>2. a \in {Lower[e] : e \in Spellings} /\ role \in Roles
    BY <1>1, <1>3 DEF Asked, Address, Roles
  <2>3. accounts[u] = None /\ ~Abs!Used(a)
    BY <1>1, <1>3, <2>1 DEF Fits, Exists, Taken, Abs!Used, Abs!Account
  <2>4. Abs!Open(u, a, role, n)
    BY <1>1, <2>1, <2>3 DEF Abs!Open
  <2> QED BY <1>1, <2>2, <2>4 DEF Abs!Next
<1> QED BY <1>2, <1>3

\* So is an operator's statement.
LEMMA SetActiveImplements ==
  ASSUME IInv, NEW u \in Req, SetActive(u)
  PROVE  Abs!Next
<1> DEFINE old == accounts[u]
<1>1. /\ old # None /\ old \in Rows
      /\ accounts' = [accounts EXCEPT ![u] = [old EXCEPT !.active = ~old.active]]
  BY DEF SetActive, Exists, IInv, TypeOK
<1> HIDE DEF old
<1>2. [old EXCEPT !.active = ~old.active]
        = Abs!Account(old.email, old.role, old.name, ~old.active)
  BY <1>1 DEF Rows, Abs!Account
<1>3. Abs!SetActive(u)
  BY <1>1, <1>2 DEF old, Abs!SetActive
<1> QED BY <1>3 DEF Abs!Next

\* The statement-by-statement operations implement the atomic ones.
THEOREM Refinement == Spec => ImplementsAbs
<1>1. Init => Abs!Init
  BY DEF Init, Abs!Init
<1>2. ASSUME IInv, [Next]_vars PROVE [Abs!Next]_accounts
  BY <1>2, StepCases, CommitImplements, SetActiveImplements
<1> QED BY <1>1, <1>2, Invariance, PTL DEF Spec, ImplementsAbs, Abs!Spec
=============================================================================
