---------------------------- MODULE AccountsAbs ----------------------------
(***************************************************************************)
(* What accounts promise, with every operation atomic: an address has one  *)
(* account, for ever, and only an active account is renamed.               *)
(***************************************************************************)
CONSTANTS Ids, Addresses, Roles, Names, None

VARIABLE accounts  \* the accounts, None where there is none

Account(a, role, name, active) ==
  [email |-> a, role |-> role, name |-> name, active |-> active]

Init == accounts = [u \in Ids |-> None]

Used(a) == \E u \in Ids : accounts[u] # None /\ accounts[u].email = a

Open(u, a, role, name) ==
  /\ accounts[u] = None
  /\ ~Used(a)
  /\ accounts' = [accounts EXCEPT ![u] = Account(a, role, name, TRUE)]

Rename(u, name) ==
  LET old == accounts[u]
  IN /\ old # None /\ old.active
     /\ accounts' = [accounts EXCEPT ![u] = Account(old.email, old.role, name, TRUE)]

SetActive(u) ==
  LET old == accounts[u]
  IN /\ old # None
     /\ accounts' = [accounts EXCEPT
          ![u] = Account(old.email, old.role, old.name, ~old.active)]

Next ==
  \E u \in Ids :
    \/ \E a \in Addresses, role \in Roles, name \in Names : Open(u, a, role, name)
    \/ \E name \in Names : Rename(u, name)
    \/ SetActive(u)

Spec == Init /\ [][Next]_accounts
=============================================================================
