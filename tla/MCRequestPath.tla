---------------------------- MODULE MCRequestPath ----------------------------
(* A small instance of RequestPath and the shapes of exception graphs.     *)
EXTENDS RequestPathProperties

Linked(name, links) == [name |-> name, links |-> links]

\* SQLAlchemy's error with the adapter's exception as orig and cause; that one
\* with the driver's as its cause; and that one named, unnamed, named after
\* another constraint, or linked back to the first.
MCErrorGraphs ==
  {[sqlalchemy |-> Linked(None, <<"adapter", "adapter">>),
    adapter    |-> Linked(None, <<"driver", "sqlalchemy">>),
    driver     |-> Linked(name, links)] :
      name \in {None, "uq_products_sku", "fk_products_created_by_id_users"},
      links \in {<<"sqlalchemy">>}}

\* One request asks for anything else; the others for what it meets in a lock, in
\* the pool and at the hashing slots.
MCOps == [r1 |-> DOMAIN Script \ {"UPDATE", "PASSWORD"},
          r2 |-> {"UPDATE"}, r3 |-> {"PASSWORD"}]
=============================================================================
