------------------------- MODULE ProductsProperties -------------------------
(***************************************************************************)
(* What must hold of Products whatever the interleaving.                   *)
(***************************************************************************)
EXTENDS Products

\* Every variable keeps to the values the code can give it.
TypeOK ==
  /\ clock \in Times
  /\ products \in [Req -> Rows \cup {None}]
  /\ rowLock \in [Req -> Req \cup {None}]
  /\ skuLock \in [Skus -> Req \cup {None}]
  /\ signing \subseteq Admins
  /\ pc \in [Req -> Places]
  /\ req \in [Req -> Requests]
  /\ read \in [Req -> Rows \cup {None}]
  /\ shown \in [Req -> Rows \cup {None}]
  /\ answer \in [Req -> Answers \cup {None}]

\* A SKU is never given to a second product, not even after the first one was
\* deleted, and however many creations of it race past their prechecks.
SkuUnique ==
  \A p, q \in Req : Exists(p) /\ Exists(q) /\ products[p].sku = products[q].sku
                    => p = q

\* Nobody is refused a SKU that is free: a creation that loses against one
\* which is rolled back after all goes ahead.
RefusedSkuIsTaken ==
  \A r \in Req : answer[r] = "SKU_ALREADY_EXISTS" => Taken(req[r].sku)

\* Of all the requests that delete a product, at most one is told that it did.
DeletedOnce ==
  \A r, s \in Req : /\ answer[r] = "DELETED" /\ answer[s] = "DELETED"
                    /\ req[r].product = req[s].product
                    => r = s

\* Once a deletion has been answered, whatever else is under way on the
\* product or arrives later is answered that there is no such product.
NothingAfterDeletion ==
  [][\A r, d \in Req :
       /\ answer[d] = "DELETED"
       /\ answer[r] = None
       /\ req'[r].product = req[d].product
       => answer'[r] \in {None, "PRODUCT_NOT_FOUND", "FORBIDDEN",
                          "UNAUTHENTICATED", "ERROR"}]_vars

\* An answered PATCH has taken effect: at its commit the row has the values of
\* the columns it sets, whatever it had when the request arrived, the other
\* columns are what concurrent requests have made of them, and the response
\* shows exactly this row.
UpdateTakesEffect ==
  [][\A r \in Req :
       answer[r] = None /\ answer'[r] = "UPDATED" =>
         LET p == req[r].product
         IN /\ \A c \in Columns :
                 products'[p].body[c] = IF req[r].body[c] # None
                                          THEN req[r].body[c]
                                          ELSE products[p].body[c]
            /\ shown[r] = products'[p]]_vars

\* Every request that has arrived is answered in the end, a creation too that
\* waits for an uncommitted product with its SKU or for its creator's sign-in.
EveryRequestAnswered == \A r \in Req : pc[r] # "idle" ~> pc[r] = "done"

-----------------------------------------------------------------------------
(* The catalogue as ProductsAbs sees it: rows without updated_at. *)

ASSUME AbsNoneAssumption == None \notin [sku : Skus, body : Bodies, deleted : BOOLEAN]

Abs == INSTANCE ProductsAbs WITH
  Ids       <- Req,
  catalogue <- [p \in Req |->
                  IF Exists(p)
                    THEN [sku |-> products[p].sku, body |-> products[p].body,
                          deleted |-> products[p].deleted]
                    ELSE None]

\* The service implements the atomic catalogue: what a request read before it
\* waited never shows in what it writes.
ImplementsAbs == Abs!Spec

-----------------------------------------------------------------------------
(* The inductive invariant behind them *)

Running(r) == pc[r] \notin {"idle", "done"}

\* Where a running request can be follows from its operation, and with it what
\* it was asked: products are only named after their row exists.
Asked(r) ==
  \/ /\ req[r].op = "CREATE" /\ req[r].product = r
     /\ req[r].sku \in Skus /\ req[r].body \in Bodies
     /\ pc[r] \in {"precheck", "insert", "creator", "refresh", "commit"}
  \/ /\ req[r].op = "UPDATE" /\ req[r].body \in Changes
     /\ req[r].product \in Req /\ Exists(req[r].product)
     /\ pc[r] \in {"lock", "flush", "refresh", "commit"}
  \/ /\ req[r].op = "DELETE"
     /\ req[r].product \in Req /\ Exists(req[r].product)
     /\ pc[r] \in {"lock", "flush", "commit"}

\* From its INSERT on, a creation keeps its SKU to itself.
HoldsSku(r) ==
  req[r].op = "CREATE" /\ pc[r] \in {"creator", "refresh", "commit"} =>
    skuLock[req[r].sku] = r /\ ~Taken(req[r].sku)

\* From its locking SELECT on, what a request has loaded stays the row.
HoldsRow(r) ==
  req[r].op \in {"UPDATE", "DELETE"} /\ pc[r] \in {"flush", "refresh", "commit"} =>
    LET p == req[r].product
    IN rowLock[p] = r /\ read[r] = products[p] /\ ~products[p].deleted

ShowsRow(r) ==
  pc[r] = "commit" /\ req[r].op # "DELETE" => shown[r] = NewRow(r)

\* Answers are given at the end, and what they say of the table stays true.
Answered(r) ==
  /\ answer[r] # None <=> pc[r] = "done"
  /\ Exists(r) => pc[r] = "done"
  /\ answer[r] = "SKU_ALREADY_EXISTS" => Taken(req[r].sku)
  /\ answer[r] = "DELETED" =>
       LET p == req[r].product IN p \in Req /\ Exists(p) /\ products[p].deleted

ReqOK(r) == /\ Running(r) => Asked(r)
            /\ HoldsSku(r)
            /\ HoldsRow(r)
            /\ ShowsRow(r)
            /\ Answered(r)

IInv ==
  /\ TypeOK
  /\ \A r \in Req : ReqOK(r)
  /\ SkuUnique
  /\ DeletedOnce

-----------------------------------------------------------------------------
(* What the design document says of updated_at *)

\* "UTC modification time": a later modification has no earlier time.
UpdatedAtFollowsCommits ==
  [][\A p \in Req : Exists(p) => products[p].updated <= products'[p].updated]_vars
=============================================================================
