------------------------- MODULE AccountsProperties -------------------------
(***************************************************************************)
(* What must hold of Accounts whatever the interleaving.                   *)
(***************************************************************************)
EXTENDS Accounts

\* Every variable keeps to the values the code can give it.
TypeOK ==
  /\ accounts \in [Req -> Rows \cup {None}]
  /\ userLock \in [Req -> Req \cup {None}]
  /\ mailLock \in [Spellings -> Req \cup {None}]
  /\ pc \in [Req -> Places]
  /\ req \in [Req -> Requests]
  /\ read \in [Req -> Rows \cup {None}]
  /\ shown \in [Req -> Rows \cup {None}]
  /\ answer \in [Req -> Answers \cup {None}]

\* However it is spelled and whichever way it came in, a form or the command,
\* an address has one account, although registrations and commands that race
\* all find it free while they hash.
AddressUnique ==
  \A u, v \in Req :
    /\ Exists(u) /\ Exists(v)
    /\ Lower[accounts[u].email] = Lower[accounts[v].email]
    => u = v

\* Nobody is told that there is an account with an address unless there is:
\* not by a failure, nor by a competitor that is rolled back.
RefusedAddressIsTaken ==
  \A r \in Req : answer[r] = "ALREADY_EXISTS" => Taken(Lower[req[r].email])

\* An answered PATCH of the profile has taken effect: its commit gives the row
\* the requested name, whatever other requests and the request's own first
\* read of the row had made of it, and leaves the other columns as they are;
\* the response shows this row.
ProfileTakesEffect ==
  [][\A r \in Req :
       answer[r] = None /\ answer'[r] = "UPDATED" =>
         LET u == req[r].user
         IN /\ accounts'[u] = [accounts[u] EXCEPT !.name = req[r].name]
            /\ shown[r] = accounts'[u]]_vars

\* Every request is answered in the end, one that waits for an uncommitted
\* account with its address too.
EveryRequestAnswered == \A r \in Req : pc[r] # "idle" ~> pc[r] = "done"

-----------------------------------------------------------------------------

Abs == INSTANCE AccountsAbs WITH Ids <- Req, Addresses <- {Lower[e] : e \in Spellings}

\* The two-transaction registration, the command and the profile update each
\* take effect as one atomic operation on accounts.
ImplementsAbs == Abs!Spec

-----------------------------------------------------------------------------
(* The inductive invariant behind them *)

Running(r) == pc[r] \notin {"idle", "done"}

\* Where a running request can be follows from its operation, and with it what
\* it was asked.
Asked(r) ==
  \/ /\ req[r].op \in {"REGISTER", "CREATE_ADMIN"} /\ req[r].user = r
     /\ req[r].email \in Spellings /\ req[r].name \in Names
     /\ pc[r] \in {"precheck", "again", "insert", "commit"}
  \/ /\ req[r].op = "UPDATE_PROFILE" /\ req[r].name \in Names
     /\ req[r].user \in Req /\ Exists(req[r].user)
     /\ pc[r] \in {"lock", "refresh", "commit"}

\* From its INSERT on, a new account keeps its address to itself.
HoldsMail(r) ==
  req[r].op \in {"REGISTER", "CREATE_ADMIN"} /\ pc[r] = "commit" =>
    mailLock[Address(r)] = r /\ ~Taken(Address(r))

\* From its locking SELECT on, what an update has loaded stays the row.
HoldsRow(r) ==
  req[r].op = "UPDATE_PROFILE" /\ pc[r] \in {"refresh", "commit"} =>
    LET u == req[r].user
    IN userLock[u] = r /\ read[r] = accounts[u] /\ accounts[u].active

ShowsRow(r) ==
  req[r].op = "UPDATE_PROFILE" /\ pc[r] = "commit" => shown[r] = NewRow(r)

\* Answers are given at the end, and a refusal stays true.
Answered(r) ==
  /\ answer[r] # None <=> pc[r] = "done"
  /\ Exists(r) => pc[r] = "done"
  /\ answer[r] = "ALREADY_EXISTS" => Taken(Lower[req[r].email])

ReqOK(r) == /\ Running(r) => Asked(r)
            /\ HoldsMail(r)
            /\ HoldsRow(r)
            /\ ShowsRow(r)
            /\ Answered(r)

\* Addresses are stored in lower case, each once.
Stored ==
  \A u, v \in Req :
    /\ Exists(u) => Lower[accounts[u].email] = accounts[u].email
    /\ Exists(u) /\ Exists(v) /\ accounts[u].email = accounts[v].email => u = v

IInv ==
  /\ TypeOK
  /\ \A r \in Req : ReqOK(r)
  /\ Stored
=============================================================================
