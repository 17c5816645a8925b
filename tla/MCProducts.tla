---------------------------- MODULE MCProducts ----------------------------
(* Small instances of Products: two values of a column, interchangeable      *)
(* requests and SKUs.                                                        *)
EXTENDS ProductsProperties, TLC

Symmetry == Permutations(Req) \cup Permutations(Skus)
=============================================================================
