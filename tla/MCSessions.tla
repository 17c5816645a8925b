---------------------------- MODULE MCSessions ----------------------------
(* Small instances of Sessions: model values, and the symmetry of requests. *)
EXTENDS SessionsProperties, TLC

ReqSymmetry == Permutations(Req)
Symmetry == ReqSymmetry \cup Permutations(Users)
=============================================================================
