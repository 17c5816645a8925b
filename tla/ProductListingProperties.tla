---------------------- MODULE ProductListingProperties ----------------------
(***************************************************************************)
(* What a client may conclude from the pages of a listing.                 *)
(***************************************************************************)
EXTENDS ProductListing

\* What a client is answered: at most page_size rows, and the numbers with them.
Answers == [items : Seq(Ids), total : 0 .. Cardinality(Ids), total_pages : Nat]

\* Every variable keeps to the values the code can give it.
TypeOK ==
  /\ products \in Table
  /\ asked \in [query : Terms \cup {None}, order : {"asc", "desc"}, page_size : Sizes]
  /\ at \in {"count", "page", "done"} /\ total \in 0 .. Cardinality(Ids)
  /\ pages \in Seq(Answers) /\ Len(pages) <= MaxPage
  /\ \A p \in 1 .. Len(pages) : Len(pages[p].items) <= asked.page_size
  /\ since \in 0 .. writes /\ writes \in 0 .. MaxWrites
  /\ entered \subseteq Ids /\ left \subseteq Ids

-----------------------------------------------------------------------------

Least(m, n) == IF m < n THEN m ELSE n
Distance(m, n) == IF m < n THEN n - m ELSE m - n

\* The items a page should have, by the total answered with it.
Announced(p) ==
  LET rest == pages[p].total - (p - 1) * asked.page_size
  IN IF rest < 0 THEN 0 ELSE Least(rest, asked.page_size)

\* Items and total come from two snapshots (list_public), but they disagree by
\* no more rows than were written in between: without a write they agree, page
\* sizes, the last page and the first page of nothing included.
TotalFitsPage ==
  LET p == Len(pages)
  IN p > 0 /\ at # "page" => Distance(Len(pages[p].items), Announced(p)) <= since

\* Page p has items exactly if p <= total_pages (build_page_response).
PagesAnnounced ==
  \A p \in 1 .. Len(pages) : Announced(p) > 0 <=> p <= pages[p].total_pages

\* Row i is the n-th item of page p of the walk.
ShownAt(p, n, i) ==
  /\ p \in 1 .. Len(pages) /\ n \in 1 .. Len(pages[p].items)
  /\ pages[p].items[n] = i

Shown(i) == \E p \in 1 .. Len(pages) : \E n \in 1 .. Len(pages[p].items) : ShownAt(p, n, i)

\* Where row i stands among the rows ids.
Rank(ids, i) == Cardinality({j \in ids : j = i \/ Before(products, j, i)})

\* What a client is looking for: public, with the term in the SKU or the name,
\* letter case apart, every other character standing for itself.
Wanted(row) ==
  row # None /\ row.public
    /\ (asked.query = None \/ \E text \in {row.sku, row.name} : ContainsTerm(text, asked.query))

\* While nothing is written, the walk lists each product it is looking for once,
\* sorted, ties by id, up to the page cap; and it lists no other.
QuietWalkIsComplete ==
  at = "done" /\ writes = 0 =>
    LET wanted == {i \in Ids : Wanted(products[i])}
    IN /\ \A p \in 1 .. Len(pages) : \A n \in 1 .. Len(pages[p].items) :
            LET i == pages[p].items[n]
            IN i \in wanted /\ Rank(wanted, i) = (p - 1) * asked.page_size + n
       /\ \A i \in wanted : Rank(wanted, i) <= MaxPage * asked.page_size => Shown(i)

\* Products that leave the listing never make the walk show another one twice:
\* a repetition needs a product that came in or moved.
NoRepeatWithoutEntry ==
  entered = {} =>
    \A p, q \in 1 .. Len(pages) :
      \A m \in 1 .. Len(pages[p].items), n \in 1 .. Len(pages[q].items) :
        pages[p].items[m] = pages[q].items[n] => p = q /\ m = n

\* Products that come in never make the walk miss another one: unless something
\* left or moved, a walk that saw its end sees every product that was there from
\* the start.  The end is only seen if no write fell between its two statements;
\* a product pushed onto a new page in that moment is missed.
NoSkipWithoutLeave ==
  at = "done" /\ left = {} /\ since = 0
    /\ pages[Len(pages)].total_pages <= Len(pages) =>
      \A i \in Matching(products) \ entered : Shown(i)

-----------------------------------------------------------------------------
(* The inductive invariant behind them *)

Listing == Matching(products)

\* Every page announces the pages of its total; the walk ends at the cap or
\* where the last page says that nothing follows.
WalkOK ==
  /\ \A p \in 1 .. Len(pages) :
       pages[p].total_pages = TotalPages(pages[p].total, asked.page_size)
  /\ at # "done" => Len(pages) < MaxPage
  /\ at = "done" => /\ Len(pages) > 0
                    /\ \/ pages[Len(pages)].total_pages <= Len(pages)
                       \/ Len(pages) = MaxPage

\* A COUNT is off by no more rows than were written since.
CountOK ==
  /\ at = "page" => Distance(total, Cardinality(Listing)) <= since
  /\ at = "done" /\ since = 0 => pages[Len(pages)].total = Cardinality(Listing)

\* As long as nothing came in, a row that was shown has not moved back.
ShownBehind ==
  entered = {} =>
    \A p \in 1 .. Len(pages) : \A n \in 1 .. Len(pages[p].items) :
      LET i == pages[p].items[n]
      IN i \in Listing => Rank(Listing, i) <= (p - 1) * asked.page_size + n

\* As long as nothing went out, a row that was there has been shown or is ahead.
RestAhead ==
  left = {} =>
    \A i \in Listing \ entered :
      Shown(i) \/ Rank(Listing, i) > Len(pages) * asked.page_size

\* Without a write every row was shown at its own place.
QuietOK ==
  writes = 0 =>
    /\ entered = {} /\ left = {}
    /\ \A p \in 1 .. Len(pages) : \A n \in 1 .. Len(pages[p].items) :
         LET i == pages[p].items[n]
         IN i \in Listing /\ Rank(Listing, i) = (p - 1) * asked.page_size + n

LInv ==
  /\ TypeOK
  /\ WalkOK
  /\ CountOK
  /\ TotalFitsPage
  /\ ShownBehind
  /\ NoRepeatWithoutEntry
  /\ RestAhead
  /\ QuietOK
=============================================================================
