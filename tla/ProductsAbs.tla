---------------------------- MODULE ProductsAbs ----------------------------
(***************************************************************************)
(* What the catalogue promises, with every operation atomic: a SKU names   *)
(* one product for ever, a PATCH replaces exactly the columns it sets, and *)
(* a deleted product never changes again.                                  *)
(***************************************************************************)
CONSTANTS Ids, Skus, Columns, Values, None

VARIABLE catalogue  \* the products, None where there is none

Bodies  == [Columns -> Values]
Changes == [Columns -> Values \cup {None}]

Init == catalogue = [p \in Ids |-> None]

Product(s, body, deleted) == [sku |-> s, body |-> body, deleted |-> deleted]

Used(s) == \E p \in Ids : catalogue[p] # None /\ catalogue[p].sku = s

Create(p, s, body) ==
  /\ catalogue[p] = None
  /\ ~Used(s)
  /\ catalogue' = [catalogue EXCEPT ![p] = Product(s, body, FALSE)]

OnSale(p) == catalogue[p] # None /\ ~catalogue[p].deleted

Merge(body, changes) ==
  [c \in Columns |-> IF changes[c] = None THEN body[c] ELSE changes[c]]

Update(p, changes) ==
  /\ OnSale(p)
  /\ catalogue' = [catalogue EXCEPT
       ![p] = Product(catalogue[p].sku, Merge(catalogue[p].body, changes), FALSE)]

Delete(p) ==
  /\ OnSale(p)
  /\ catalogue' = [catalogue EXCEPT
       ![p] = Product(catalogue[p].sku, catalogue[p].body, TRUE)]

Next ==
  \E p \in Ids :
    \/ \E s \in Skus, body \in Bodies : Create(p, s, body)
    \/ \E changes \in Changes : Update(p, changes)
    \/ Delete(p)

Spec == Init /\ [][Next]_catalogue
=============================================================================
