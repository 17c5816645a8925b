---------------------------- MODULE SessionsAbs ----------------------------
(***************************************************************************)
(* What the sign-in sessions promise, with every operation atomic: no      *)
(* locks, no statements, no clock.  A session is opened with the account's *)
(* current credential while the account is active, is carried by exactly   *)
(* one refresh token at a time, and is closed for good by a logout, a      *)
(* detected reuse, a logout of all devices or a password change; a         *)
(* password change replaces the credential and closes all the account's    *)
(* sessions in one step.                                                   *)
(***************************************************************************)
CONSTANTS Users, Sessions, Tokens, Credentials, Initial, None

VARIABLES
  credential,  \* what each account signs in with
  active,      \* whether it may
  owner,       \* the account of each session, None before it is opened
  key,         \* the credential it was opened with
  holder       \* the one token that carries it, None before and after

vars == <<credential, active, owner, key, holder>>

Init ==
  /\ credential = [u \in Users |-> Initial]
  /\ active     = [u \in Users |-> TRUE]
  /\ owner      = [s \in Sessions |-> None]
  /\ key        = [s \in Sessions |-> None]
  /\ holder     = [s \in Sessions |-> None]

\* The session remembers the credential the account has when it is opened.
Open(s, u, t) ==
  /\ owner[s] = None
  /\ active[u]
  /\ owner'  = [owner EXCEPT ![s] = u]
  /\ key'    = [key EXCEPT ![s] = credential[u]]
  /\ holder' = [holder EXCEPT ![s] = t]
  /\ UNCHANGED <<credential, active>>

\* Rotation hands the session from its holder to a new token.
Rotate(s, t) ==
  /\ holder[s] # None /\ holder[s] # t
  /\ active[owner[s]]
  /\ holder' = [holder EXCEPT ![s] = t]
  /\ UNCHANGED <<credential, active, owner, key>>

Close(S) == /\ holder' = [s \in Sessions |-> IF s \in S THEN None ELSE holder[s]]
            /\ UNCHANGED <<active, owner, key>>

CloseOne(s) == Close({s}) /\ UNCHANGED credential

SessionsOf(u) == {s \in Sessions : owner[s] = u}

CloseAll(u) == Close(SessionsOf(u)) /\ UNCHANGED credential

ChangeCredential(u, c) ==
  /\ active[u]
  /\ Close(SessionsOf(u))
  /\ credential' = [credential EXCEPT ![u] = c]

SetActive(u) == /\ active' = [active EXCEPT ![u] = ~active[u]]
                /\ UNCHANGED <<credential, owner, key, holder>>

Next ==
  \/ \E s \in Sessions, u \in Users, t \in Tokens : Open(s, u, t)
  \/ \E s \in Sessions, t \in Tokens : Rotate(s, t)
  \/ \E s \in Sessions : CloseOne(s)
  \/ \E u \in Users : CloseAll(u) \/ SetActive(u)
  \/ \E u \in Users, c \in Credentials : ChangeCredential(u, c)

Spec == Init /\ [][Next]_vars
=============================================================================
