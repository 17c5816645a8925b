---------------------------- MODULE MCAccounts ----------------------------
(* Small instances of Accounts: two spellings of one address. *)
EXTENDS AccountsProperties

CONSTANTS upper, lower

ToLower == [e \in {upper, lower} |-> lower]
=============================================================================
