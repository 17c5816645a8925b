------------------------ MODULE RequestPathProperties ------------------------
(***************************************************************************)
(* What must hold of RequestPath whatever fails and in whatever order.     *)
(***************************************************************************)
EXTENDS RequestPath

\* Every variable keeps to the values the code can give it.
TypeOK ==
  /\ place \in [Req -> Places] /\ op \in [Req -> (DOMAIN Script) \cup {None}]
  /\ at \in [Req -> 1 .. 8]
  /\ held \in [Req -> {"NONE", "OPEN", "DEAD"}]
  /\ slots \in SUBSET Req /\ lock \in Req \cup {None} /\ committed \in SUBSET Req
  /\ error \in [Req -> Exceptions \cup {None}]
  /\ search \in [Req -> Searches \cup {None}]
  /\ sent \in [Req -> Seq(Answers)] /\ restarts \in 0 .. MaxRestarts

\* A request holds none of what others may be waiting for.
HoldsNothing(r) == held[r] = "NONE" /\ r \notin slots /\ lock # r

\* Whoever waits for a connection or for a slot holds nothing others wait for,
\* and password work runs outside transactions (the split transactions of login
\* and register, the rollback in change_password): seconds of hashing never
\* keep a connection from the other requests, and no cycle of waits can form.
WaitersHoldNothing ==
  \A r \in Req :
    /\ WantsConnection(r) \/ WantsSlot(r) => HoldsNothing(r)
    /\ r \in slots => held[r] = "NONE" /\ lock # r

\* Nothing leaks, whatever raised where: a lock lives in an open transaction, a
\* connection in a request that has not ended, and an error is answered only
\* after its session has been closed (get_session, session.begin()).
NothingKept ==
  /\ lock # None => held[lock] = "OPEN"
  /\ \A r \in Req :
       /\ place[r] \in {"search", "raise", "done"} => HoldsNothing(r)
       /\ sent[r] # <<>> /\ sent[r] # <<"OK">> => HoldsNothing(r)

\* No request is answered twice, in particular not when closing its session
\* fails after the response has started (UnexpectedErrorMiddleware).
AnsweredOnce ==
  [][\A r \in Req : sent[r] # <<>> => sent'[r] = sent[r]]_vars

Writers == {"UPDATE", "REFRESH", "CREATE", "REGISTER", "LOGIN", "PASSWORD"}

\* A refresh, and no other request, reports an AppError after its commit: the
\* reused token, with the revocation of the family committed.
ReportsReuse(r, a) == op[r] = "REFRESH" /\ a = "APP_ERROR"

\* A success has been committed; a refusal (any answer but a success or a 500)
\* has changed nothing, a reused refresh token apart.
AnswersTellTheOutcome ==
  \A r \in Req : \A i \in 1 .. Len(sent[r]) :
    /\ sent[r][i] = "OK" /\ op[r] \in Writers => r \in committed
    /\ sent[r][i] \notin {"OK", "INTERNAL_SERVER_ERROR"} /\ r \in committed
         => ReportsReuse(r, sent[r][i])

\* The outcome of a creation's search fits the names it could find.
Named(r) ==
  LET names == NamesIn(search[r].graph)
  IN IF error[r] = "APP" THEN SkuConstraint \in names ELSE names # {SkuConstraint}

\* create answers SKU_ALREADY_EXISTS only if the violated constraint is linked
\* from the error, and gives up only if there is another name or none: the
\* search (get_constraint_name) reaches every linked exception.
ConflictIsNamed ==
  \A r \in Req : search[r] # None /\ place[r] \in {"raise", "done"} => Named(r)

\* Every request that arrives ends with an answer: connections, slots and locks
\* come round without an error or a timeout to help, and the search ends on
\* cyclic exceptions.  Requests are one-shot, so it is enough that again and
\* again none is under way.
EveryRequestAnswered ==
  []<>(\A r \in Req : \/ place[r] = "idle"
                      \/ place[r] = "done" /\ sent[r] # <<>>)

-----------------------------------------------------------------------------
(* The inductive invariant: what holds of one request and protects the rest *)

\* What the search knows: nothing it has seen is unreachable from the raised
\* error, and while it has found no name, what it has visited has none and
\* links only to what it has visited or will visit.
SearchOK(s) ==
  LET pending == Elements(s.pending)
  IN /\ pending \cup s.visited \subseteq Reachable(s.graph)
     /\ Raised \in pending \cup s.visited
     /\ s.found # None => s.found \in NamesIn(s.graph)
     /\ s.found = None => \A e \in s.visited :
          /\ s.graph[e].name = None
          /\ Elements(s.graph[e].links) \subseteq pending \cup s.visited

\* A search belongs to a creation on its way out.
Searching(r) ==
  /\ search[r] # None => place[r] \in {"search", "raise", "done"}
  /\ place[r] = "search" =>
       search[r] \in Searches /\ SearchOK(search[r]) /\ error[r] = "INTEGRITY"
  /\ search[r] # None /\ place[r] # "search" => Named(r)

\* Where a request can be in its script, and what it has to show for it.
Placed(r) ==
  /\ place[r] # "idle" => op[r] \in DOMAIN Script
  /\ place[r] = "idle" => r \notin committed /\ at[r] = 1
  /\ place[r] = "run" => at[r] <= Len(Script[op[r]]) + 1
  /\ place[r] \in {"fail", "search", "raise"} => error[r] \in Exceptions
  /\ place[r] \in {"idle", "run", "fail", "search"} => sent[r] = <<>>
  /\ place[r] = "sent" => sent[r] = <<"OK">>
  /\ place[r] = "raise" => sent[r] \in {<<>>, <<"OK">>}
  /\ place[r] = "done" => \E a \in Answers : sent[r] = <<a>>

\* A request that hashes has no connection, and one on its way out nothing.
Holds(r) ==
  /\ r \in slots => Step(r) = "hash"
  /\ Step(r) = "hash" => held[r] = "NONE"
  /\ lock = r => held[r] = "OPEN"
  /\ place[r] \in {"idle", "search", "raise", "done"} => HoldsNothing(r)

\* The exceptions a request may end with although it has committed.
AfterCommit(r, e) == e = "UNEXPECTED" \/ (op[r] = "REFRESH" /\ e = "APP")

\* The commit is the last wait of a writer; an exception after it is no refusal,
\* but for a refresh's.
Outcome(r) ==
  /\ place[r] = "run" =>
       (r \in committed <=> op[r] \in Writers /\ at[r] > Len(Script[op[r]]))
  /\ place[r] \in {"fail", "search", "raise"} /\ sent[r] = <<>> /\ r \in committed =>
       AfterCommit(r, error[r])
  /\ sent[r] = <<"OK">> /\ op[r] \in Writers => r \in committed
  /\ place[r] = "done" /\ r \in committed =>
       \/ sent[r] \in {<<"OK">>, <<"INTERNAL_SERVER_ERROR">>}
       \/ op[r] = "REFRESH" /\ sent[r] = <<"APP_ERROR">>

ReqOK(r) == Searching(r) /\ Placed(r) /\ Holds(r) /\ Outcome(r)

IInv == TypeOK /\ \A r \in Req : ReqOK(r)

=============================================================================
