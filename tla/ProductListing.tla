--------------------------- MODULE ProductListing ---------------------------
(***************************************************************************)
(* GET /products while the catalogue changes.  A client walks through the  *)
(* pages of one listing from the first to the last the answers announce.   *)
(* Each page is a request of two statements, a COUNT and a SELECT, which   *)
(* at READ COMMITTED see two states of the table; the administrators'      *)
(* commits (Products) fall between any two statements.                     *)
(***************************************************************************)
EXTENDS LikePattern, FiniteSets

CONSTANTS
  Ids,       \* primary keys, ordered
  Rows,      \* product rows: value of the sort column, SKU and name, is_active
             \* with deleted_at IS NULL
  Terms,     \* values of the query parameter
  Sizes,     \* values of page_size
  MaxPage,   \* MAX_PRODUCT_PAGE
  MaxWrites, \* bound on the writes during a walk: model-checking only
  None       \* no row; no query parameter

ASSUME ListingAssumption ==
  /\ Ids \subseteq Nat /\ IsFiniteSet(Ids) /\ Sizes \subseteq Nat \ {0}
  /\ MaxPage \in Nat \ {0} /\ MaxWrites \in Nat
  /\ \A row \in Rows : /\ row.key \in Int /\ row.public \in BOOLEAN
                       /\ row.sku \in Seq(STRING) /\ row.name \in Seq(STRING)
  /\ Terms \subseteq Seq(STRING)
  /\ None \notin Rows /\ None \notin Terms

VARIABLES
  products, \* the committed table: a row or None for each key
  asked,    \* the client's ProductListQuery, but for the page
  at,       \* the statement its request is at: "count", "page", "done"
  total,    \* what the COUNT of the current request returned
  pages,    \* the pages answered so far: their items, total and total_pages
  since,    \* writes committed since that COUNT
  entered,  \* rows that came into the listing, or moved in it, during the walk
  left,     \* rows that went out of it, or moved
  writes    \* writes committed so far

vars == <<products, asked, at, total, pages, since, entered, left, writes>>

Table == [Ids -> Rows \cup {None}]

Init ==
  /\ products \in Table
  /\ asked \in [query : Terms \cup {None}, order : {"asc", "desc"}, page_size : Sizes]
  /\ at = "count" /\ total = 0 /\ pages = <<>> /\ since = 0
  /\ entered = {} /\ left = {} /\ writes = 0

-----------------------------------------------------------------------------
(* The two statements *)

\* Mutant: the second argument of or_ is lost.
SelectedBySku(row) ==
  /\ row # None /\ row.public
  /\ asked.query = None \/ ILike(row.sku, Pattern(asked.query))

\* The WHERE clause: public, and the term in the SKU or in the name.
Selected(row) ==
  /\ row # None /\ row.public
  /\ asked.query = None \/ ILike(row.sku, Pattern(asked.query))
                        \/ ILike(row.name, Pattern(asked.query))

Matching(table) == {i \in Ids : Selected(table[i])}

KeyBefore(a, b) == IF asked.order = "asc" THEN a.key < b.key ELSE a.key > b.key

\* Mutant: ORDER BY the sort column only.
BeforeUntied(table, i, j) == KeyBefore(table[i], table[j])

\* ORDER BY the sort column in the order asked for, then id ASC.
Before(table, i, j) ==
  \/ KeyBefore(table[i], table[j])
  \/ table[i].key = table[j].key /\ i < j

\* The orders in which the database may return the rows: any that ORDER BY
\* does not exclude.
Orders(table) ==
  {q \in SetToSeqs(Matching(table)) :
     \A m, n \in 1 .. Len(q) : m < n => ~Before(table, q[n], q[m])}

\* Mutants: OFFSET page * page_size; LIMIT one more, to see if there is more.
OffsetOneBased(page) == page * asked.page_size
LimitLookahead(page) == asked.page_size + 1

Offset(page) == (page - 1) * asked.page_size
Limit(page)  == asked.page_size

\* Mutant: rounded down.
TotalPagesFloor(n, size) == n \div size

TotalPages(n, size) == IF n = 0 THEN 0 ELSE (n + size - 1) \div size

Page == Len(pages) + 1

Count ==
  /\ at = "count"
  /\ total' = Cardinality(Matching(products))
  /\ since' = 0
  /\ at' = "page"
  /\ UNCHANGED <<products, asked, pages, entered, left, writes>>

\* The items, and the answer.  The client goes on to the next page if there is
\* one; a page beyond the cap would be refused.
Select ==
  /\ at = "page"
  /\ \E q \in Orders(products) :
       pages' = Append(pages,
         [items |-> SubSeq(q, Offset(Page) + 1,
                           IF Offset(Page) + Limit(Page) < Len(q)
                           THEN Offset(Page) + Limit(Page) ELSE Len(q)),
          total |-> total, total_pages |-> TotalPages(total, asked.page_size)])
  /\ at' = IF Page < TotalPages(total, asked.page_size) /\ Page < MaxPage
           THEN "count" ELSE "done"
  /\ UNCHANGED <<products, asked, total, since, entered, left, writes>>

\* A commit of an administrator's request: a product is created, changed,
\* unpublished or deleted.
Write(i, row) ==
  /\ at # "done" /\ writes < MaxWrites
  /\ row # products[i]
  /\ products' = [products EXCEPT ![i] = row]
  /\ LET moves == products[i] # None /\ products[i].key # row.key
     IN /\ entered' = IF Selected(row) /\ (Selected(products[i]) => moves)
                      THEN entered \cup {i} ELSE entered
        /\ left'    = IF Selected(products[i]) /\ (Selected(row) => moves)
                      THEN left \cup {i} ELSE left
  /\ writes' = writes + 1 /\ since' = since + 1
  /\ UNCHANGED <<asked, at, total, pages>>

Terminated == at = "done" /\ UNCHANGED vars

Next ==
  \/ Count \/ Select
  \/ \E i \in Ids, row \in Rows : Write(i, row)
  \/ Terminated

Spec == Init /\ [][Next]_vars

=============================================================================
