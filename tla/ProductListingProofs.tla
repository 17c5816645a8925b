------------------------ MODULE ProductListingProofs ------------------------
(***************************************************************************)
(* Proofs about ProductListing, for every catalogue, query, page size, page *)
(* cap and number of writes during a walk.                                 *)
(***************************************************************************)
EXTENDS ProductListingProperties, LikePatternProofs, FiniteSetTheorems, SequenceTheorems,
        TLAPS

-----------------------------------------------------------------------------
(* The rows a query selects, and their order *)

\* The query, as TypeOK has it.
AskedOK == asked \in [query : Terms \cup {None}, order : {"asc", "desc"}, page_size : Sizes]

\* Selected rows are rows, with a key to sort by.
LEMMA MatchingRows ==
  ASSUME NEW table \in Table, NEW i \in Matching(table)
  PROVE  i \in Ids /\ i \in Nat /\ table[i] \in Rows /\ table[i].key \in Int
BY ListingAssumption DEF Matching, Selected, Table

\* There are finitely many.
LEMMA MatchingFinite ==
  ASSUME NEW table
  PROVE  /\ IsFiniteSet(Ids) /\ Cardinality(Ids) \in Nat
         /\ IsFiniteSet(Matching(table)) /\ Cardinality(Matching(table)) \in Nat
         /\ Cardinality(Matching(table)) <= Cardinality(Ids)
<1>1. Matching(table) \in SUBSET Ids /\ IsFiniteSet(Ids)
  BY ListingAssumption DEF Matching
<1>2. IsFiniteSet(Matching(table)) /\ Cardinality(Matching(table)) <= Cardinality(Ids)
  BY <1>1, FS_Subset
<1> QED BY <1>1, <1>2, FS_CardinalityType

\* ORDER BY the sort column, then id, puts any two of them in one order.
LEMMA BeforeTotal ==
  ASSUME AskedOK, NEW table \in Table,
         NEW i \in Matching(table), NEW j \in Matching(table), i # j
  PROVE  Before(table, i, j) <=> ~Before(table, j, i)
<1>1. i \in Nat /\ j \in Nat /\ table[i].key \in Int /\ table[j].key \in Int
  BY MatchingRows
<1> QED BY <1>1 DEF Before, KeyBefore

\* It is an order.
LEMMA BeforeTransitive ==
  ASSUME AskedOK, NEW table \in Table, NEW i \in Matching(table),
         NEW j \in Matching(table), NEW k \in Matching(table),
         Before(table, i, j), Before(table, j, k)
  PROVE  Before(table, i, k)
<1>1. /\ i \in Nat /\ j \in Nat /\ k \in Nat
      /\ table[i].key \in Int /\ table[j].key \in Int /\ table[k].key \in Int
  BY MatchingRows
<1> QED BY <1>1 DEF Before, KeyBefore

\* The rows up to i.
UpTo(table, i) == {j \in Matching(table) : j = i \/ Before(table, j, i)}

\* A row's place is between the first and the last.
LEMMA RankBounds ==
  ASSUME NEW table, NEW i \in Matching(table)
  PROVE  /\ IsFiniteSet(UpTo(table, i)) /\ Cardinality(UpTo(table, i)) \in Nat
         /\ 1 <= Cardinality(UpTo(table, i))
         /\ Cardinality(UpTo(table, i)) <= Cardinality(Matching(table))
<1>1. UpTo(table, i) \in SUBSET Matching(table) /\ i \in UpTo(table, i)
  BY DEF UpTo
<1>2. /\ IsFiniteSet(UpTo(table, i))
      /\ Cardinality(UpTo(table, i)) <= Cardinality(Matching(table))
  BY <1>1, MatchingFinite, FS_Subset
<1>3. Cardinality(UpTo(table, i)) \in Nat /\ Cardinality(UpTo(table, i)) # 0
  BY <1>1, <1>2, FS_CardinalityType, FS_EmptySet
<1> QED BY <1>2, <1>3

\* What the SELECT may return: every selected row once, in order.
LEMMA OrderShape ==
  ASSUME AskedOK, NEW table \in Table, NEW q \in Orders(table)
  PROVE  LET N == Cardinality(Matching(table))
         IN  /\ q \in [1 .. N -> Matching(table)] /\ Len(q) = N /\ N \in Nat
             /\ \A m, n \in 1 .. N : q[m] = q[n] => m = n
             /\ \A i \in Matching(table) : \E n \in 1 .. N : q[n] = i
             /\ \A m, n \in 1 .. N : m < n => Before(table, q[m], q[n])
<1> DEFINE M == Matching(table)
           N == Cardinality(M)
<1>1. N \in Nat /\ IsFiniteSet(M)
  BY MatchingFinite
<1>2. q \in SetToSeqs(M) /\ \A m, n \in 1 .. Len(q) : m < n => ~Before(table, q[n], q[m])
  BY DEF Orders
<1>3. q \in [1 .. N -> M] /\ \A m, n \in 1 .. N : q[m] = q[n] => m = n
  BY <1>2 DEF SetToSeqs
<1>4. Len(q) = N
  BY <1>1, <1>3
<1>5. \A i \in M : \E n \in 1 .. N : q[n] = i
  <2>1. q \in Injection(1 .. N, M)
    BY <1>3 DEF Injection, IsInjective
  <2>2. Cardinality(1 .. N) = N
    BY <1>1, FS_Interval
  <2>3. q \in Surjection(1 .. N, M)
    BY <1>1, <2>1, <2>2, FS_Injection
  <2> QED BY <2>3 DEF Surjection
<1>6. ASSUME NEW m \in 1 .. N, NEW n \in 1 .. N, m < n
      PROVE  Before(table, q[m], q[n])
  <2>1. q[m] \in M /\ q[n] \in M /\ q[m] # q[n]
    BY <1>1, <1>3, <1>6
  <2>2. ~Before(table, q[n], q[m])
    BY <1>2, <1>4, <1>6
  <2> QED BY <2>1, <2>2, BeforeTotal
<1> QED BY <1>1, <1>3, <1>4, <1>5, <1>6

\* The n-th row of an ordered result is the n-th row.
LEMMA RankOfItem ==
  ASSUME AskedOK, NEW table \in Table, NEW q \in Orders(table),
         NEW n \in 1 .. Cardinality(Matching(table))
  PROVE  Cardinality(UpTo(table, q[n])) = n
<1> DEFINE N == Cardinality(Matching(table))
<1>1. /\ q \in [1 .. N -> Matching(table)] /\ N \in Nat
      /\ \A l, m \in 1 .. N : q[l] = q[m] => l = m
      /\ \A i \in Matching(table) : \E m \in 1 .. N : q[m] = i
      /\ \A l, m \in 1 .. N : l < m => Before(table, q[l], q[m])
  BY OrderShape
<1>2. \A m \in 1 .. N : q[m] \in UpTo(table, q[n]) <=> m <= n
  <2>1. SUFFICES ASSUME NEW m \in 1 .. N PROVE q[m] \in UpTo(table, q[n]) <=> m <= n
    OBVIOUS
  <2>2. m < n => Before(table, q[m], q[n])
    BY <1>1
  <2>3. n < m => ~Before(table, q[m], q[n]) /\ q[m] # q[n]
    BY <1>1, BeforeTotal
  <2>4. m = n \/ m < n \/ n < m
    BY <1>1
  <2> QED BY <1>1, <2>2, <2>3, <2>4 DEF UpTo
<1> DEFINE f == [m \in 1 .. n |-> q[m]]
<1>3. f \in Bijection(1 .. n, UpTo(table, q[n]))
  <2>1. f \in [1 .. n -> UpTo(table, q[n])]
    BY <1>1, <1>2
  <2>2. f \in Injection(1 .. n, UpTo(table, q[n]))
    BY <1>1, <2>1 DEF Injection, IsInjective
  <2>3. \A i \in UpTo(table, q[n]) : \E m \in 1 .. n : f[m] = i
    BY <1>1, <1>2 DEF UpTo
  <2> QED BY <2>1, <2>2, <2>3 DEF Bijection, Surjection
<1>4. IsFiniteSet(1 .. n) /\ Cardinality(1 .. n) = n
  BY <1>1, FS_Interval
<1> QED BY <1>3, <1>4, FS_Bijection DEF ExistsBijection

-----------------------------------------------------------------------------
(* A page of the result *)

\* The rows from off on, at most size of them: SubSeq as Select cuts it.
Cut(q, off, size) == SubSeq(q, off + 1, IF off + size < Len(q) THEN off + size ELSE Len(q))

\* How many rows a page should have when n rows match.
Due(n, off, size) == IF n - off < 0 THEN 0 ELSE Least(n - off, size)

\* A page has the rows that are due, each at its place.
LEMMA ItemsAre ==
  ASSUME AskedOK, NEW table \in Table, NEW q \in Orders(table),
         NEW off \in Nat, NEW size \in Nat \ {0}
  PROVE  LET N == Cardinality(Matching(table))
         IN  /\ Cut(q, off, size) \in Seq(Ids) /\ N \in Nat
             /\ Len(Cut(q, off, size)) = Due(N, off, size)
             /\ \A n \in 1 .. Len(Cut(q, off, size)) :
                  /\ off + n \in 1 .. N /\ Cut(q, off, size)[n] = q[off + n]
                  /\ Cut(q, off, size)[n] \in Matching(table)
                  /\ Cardinality(UpTo(table, Cut(q, off, size)[n])) = off + n
             /\ \A i \in Matching(table) :
                  off < Cardinality(UpTo(table, i)) /\ Cardinality(UpTo(table, i)) <= off + size
                    => \E n \in 1 .. Len(Cut(q, off, size)) : Cut(q, off, size)[n] = i
<1> DEFINE M == Matching(table)
           N == Cardinality(M)
           up == IF off + size < N THEN off + size ELSE N
<1>1. N \in Nat /\ q \in [1 .. N -> M] /\ Len(q) = N /\ M \subseteq Ids
  BY OrderShape DEF Matching
<1>2. Cut(q, off, size) = SubSeq(q, off + 1, up) /\ up \in Int /\ off + 1 \in Int
  BY <1>1 DEF Cut
<1>3. \A n \in (off + 1) .. up : n \in 1 .. N /\ q[n] \in Ids
  BY <1>1
<1> DEFINE c == SubSeq(q, off + 1, up)
<1>4. /\ c \in Seq(Ids)
      /\ Len(c) = IF off + 1 <= up THEN up - (off + 1) + 1 ELSE 0
      /\ \A n \in 1 .. up - (off + 1) + 1 : c[n] = q[off + 1 + n - 1]
  <2> HIDE DEF N, up, M
  <2> QED BY <1>2, <1>3, SubSeqProperties
<1>5. Len(c) = Due(N, off, size)
  <2> HIDE DEF c, N
  <2>1. Len(c) = IF off + 1 <= up THEN up - off ELSE 0
    BY <1>1, <1>4
  <2> QED BY <1>1, <2>1 DEF Due, Least
<1>6. ASSUME NEW n \in 1 .. Len(c)
      PROVE  /\ off + n \in 1 .. N /\ c[n] = q[off + n] /\ c[n] \in M
             /\ Cardinality(UpTo(table, c[n])) = off + n
  <2>1. n \in 1 .. up - (off + 1) + 1 /\ off + n \in 1 .. N /\ off + 1 + n - 1 = off + n
    BY <1>1, <1>4
  <2>2. c[n] = q[off + n]
    <3> HIDE DEF c, up, N, M
    <3> QED BY <1>4, <2>1
  <2>3. q[off + n] \in M
    BY <1>1, <2>1
  <2>4. Cardinality(UpTo(table, q[off + n])) = off + n
    BY <2>1, RankOfItem
  <2> HIDE DEF c
  <2> QED BY <2>1, <2>2, <2>3, <2>4
<1>7. ASSUME NEW i \in M, off < Cardinality(UpTo(table, i)),
             Cardinality(UpTo(table, i)) <= off + size
      PROVE  \E n \in 1 .. Len(c) : c[n] = i
  <2>1. PICK r \in 1 .. N : q[r] = i
    BY OrderShape
  <2>2. Cardinality(UpTo(table, i)) = r
    BY <2>1, RankOfItem
  <2>3. r - off \in 1 .. Due(N, off, size) /\ off + (r - off) = r
    BY <1>1, <1>7, <2>2 DEF Due, Least
  <2> HIDE DEF c
  <2>4. r - off \in 1 .. Len(c)
    BY <1>5, <2>3
  <2>5. c[r - off] = q[off + (r - off)]
    BY <1>6, <2>4
  <2> QED BY <2>1, <2>3, <2>4, <2>5
<1> HIDE DEF c
<1>8. Cut(q, off, size) = c
  BY <1>2 DEF c
<1> QED BY <1>1, <1>4, <1>5, <1>6, <1>7, <1>8

-----------------------------------------------------------------------------
(* total_pages *)

\* Page p has rows exactly if it is one of the pages announced.
LEMMA TotalPagesAre ==
  ASSUME NEW n \in Nat, NEW size \in Nat \ {0}, NEW p \in Nat \ {0}
  PROVE  /\ TotalPages(n, size) \in Nat
         /\ (p - 1) * size < n <=> p <= TotalPages(n, size)
<1>1. CASE n = 0
  <2>1. TotalPages(n, size) = 0
    BY <1>1 DEF TotalPages
  <2>2. (p - 1) * size >= 0
    BY SMT
  <2> QED BY <1>1, <2>1, <2>2
<1>2. CASE n # 0
  <2> DEFINE q == (n + size - 1) \div size
  <2>1. TotalPages(n, size) = q
    BY <1>2 DEF TotalPages
  <2>2. q \in Nat /\ q * size <= n + size - 1 /\ n + size - 1 < q * size + size
    BY <1>2
  <2> HIDE DEF q
  <2>3. CASE p <= q
    <3>1. p * size <= q * size
      BY <2>2, <2>3
    <3>2. (p - 1) * size = p * size - size
      OBVIOUS
    <3>3. p * size \in Int /\ q * size \in Int
      BY <2>2
    <3> QED BY <2>1, <2>2, <2>3, <3>1, <3>2, <3>3
  <2>4. CASE ~ p <= q
    <3>1. q + 1 <= p
      BY <2>2, <2>4
    <3>2. q * size <= (p - 1) * size
      BY <2>2, <3>1
    <3>3. (p - 1) * size \in Int /\ q * size \in Int
      BY <2>2
    <3> QED BY <2>1, <2>2, <2>4, <3>2, <3>3
  <2> QED BY <2>3, <2>4
<1> QED BY <1>1, <1>2

-----------------------------------------------------------------------------
(* What the invariant says of the types *)

\* The parameters and the pages, as TypeOK has them.
LEMMA ListingContext ==
  ASSUME TypeOK
  PROVE  /\ AskedOK /\ products \in Table
         /\ asked.page_size \in Nat \ {0} /\ MaxPage \in Nat \ {0}
         /\ total \in 0 .. Cardinality(Ids) /\ total \in Nat
         /\ since \in Nat /\ writes \in Nat /\ since <= writes
         /\ pages \in Seq(Answers) /\ Len(pages) \in Nat
         /\ \A p \in 1 .. Len(pages) :
              /\ pages[p] \in Answers /\ pages[p].items \in Seq(Ids)
              /\ Len(pages[p].items) \in Nat /\ Len(pages[p].items) <= asked.page_size
              /\ pages[p].total \in Nat
         /\ Cardinality(Listing) \in Nat /\ Cardinality(Listing) <= Cardinality(Ids)
         /\ Cardinality(Ids) \in Nat
<1>1. AskedOK /\ products \in Table /\ total \in 0 .. Cardinality(Ids)
  BY DEF TypeOK, AskedOK
<1>2. asked.page_size \in Nat \ {0} /\ MaxPage \in Nat \ {0}
  BY <1>1, ListingAssumption DEF AskedOK
<1>3. pages \in Seq(Answers) /\ Len(pages) \in Nat
  BY DEF TypeOK
<1>4. since \in Nat /\ writes \in Nat /\ since <= writes
  BY ListingAssumption DEF TypeOK
<1>5. Cardinality(Ids) \in Nat /\ Cardinality(Listing) \in Nat
      /\ Cardinality(Listing) <= Cardinality(Ids)
  BY MatchingFinite DEF Listing
<1>6. total \in Nat
  BY <1>1, <1>5
<1>7. ASSUME NEW p \in 1 .. Len(pages)
      PROVE  /\ pages[p] \in Answers /\ pages[p].items \in Seq(Ids)
             /\ Len(pages[p].items) \in Nat /\ Len(pages[p].items) <= asked.page_size
             /\ pages[p].total \in Nat
  <2>1. pages[p] \in Answers
    BY <1>3
  <2>2. pages[p].items \in Seq(Ids) /\ pages[p].total \in 0 .. Cardinality(Ids)
    BY <2>1 DEF Answers
  <2>3. Len(pages[p].items) <= asked.page_size
    BY DEF TypeOK
  <2> QED BY <1>5, <2>1, <2>2, <2>3
<1> QED BY <1>1, <1>2, <1>3, <1>4, <1>5, <1>6, <1>7

\* A row's rank in the listing is the number of rows up to it.
LEMMA RankIs ==
  ASSUME NEW i
  PROVE  Rank(Listing, i) = Cardinality(UpTo(products, i))
BY DEF Rank, Listing, UpTo

\* It stays while neither the table nor the query changes.
LEMMA ListingKeeps ==
  ASSUME products' = products, asked' = asked
  PROVE  Listing' = Listing /\ \A i : Rank(Listing, i)' = Rank(Listing, i)
<1>1. Listing' = Listing
  BY DEF Listing, Matching, Selected
<1> QED BY <1>1 DEF Rank, Before, KeyBefore

-----------------------------------------------------------------------------
(* The two statements of a request *)

\* Before a walk there is nothing to show.
LEMMA InitHolds ==
  ASSUME Init
  PROVE  LInv
<1>1. pages = <<>> /\ Len(pages) = 0 /\ at = "count" /\ since = 0 /\ writes = 0
      /\ total = 0 /\ entered = {} /\ left = {}
  BY DEF Init
<1>2. Cardinality(Ids) \in Nat
  BY MatchingFinite
<1>3. TypeOK
  BY <1>1, <1>2, ListingAssumption DEF Init, TypeOK
<1>4. WalkOK /\ CountOK /\ TotalFitsPage
  BY <1>1, ListingAssumption DEF WalkOK, CountOK, TotalFitsPage
<1>5. ShownBehind /\ NoRepeatWithoutEntry /\ QuietOK
  BY <1>1 DEF ShownBehind, NoRepeatWithoutEntry, QuietOK
<1>6. RestAhead
  <2>1. SUFFICES ASSUME NEW i \in Listing
                 PROVE  Rank(Listing, i) > Len(pages) * asked.page_size
    BY DEF RestAhead
  <2>2. 1 <= Rank(Listing, i) /\ Rank(Listing, i) \in Nat
    BY RankBounds, RankIs DEF Listing
  <2>3. Len(pages) * asked.page_size = 0
    BY <1>1, <1>3, ListingContext
  <2> QED BY <2>2, <2>3
<1> QED BY <1>3, <1>4, <1>5, <1>6 DEF LInv

\* The COUNT is right when it is taken, and changes nothing else.
LEMMA CountStep ==
  ASSUME LInv, Count
  PROVE  LInv'
<1>1. /\ at = "count" /\ at' = "page" /\ total' = Cardinality(Listing) /\ since' = 0
      /\ products' = products /\ asked' = asked /\ pages' = pages
      /\ entered' = entered /\ left' = left /\ writes' = writes
  BY DEF Count, Listing
<1>2. Listing' = Listing /\ \A i : Rank(Listing, i)' = Rank(Listing, i)
  BY <1>1, ListingKeeps
<1>3. Cardinality(Listing) \in Nat /\ Cardinality(Listing) <= Cardinality(Ids)
      /\ Cardinality(Ids) \in Nat /\ writes \in Nat
  BY ListingContext DEF LInv
<1>4. TypeOK'
  <2>1. total' \in 0 .. Cardinality(Ids) /\ since' \in 0 .. writes'
    BY <1>1, <1>3
  <2> QED BY <1>1, <2>1 DEF LInv, TypeOK, Table
<1>5. WalkOK'
  BY <1>1 DEF LInv, WalkOK
<1>6. CountOK'
  BY <1>1, <1>2, <1>3 DEF CountOK, Distance
<1>7. TotalFitsPage'
  BY <1>1 DEF TotalFitsPage
<1>8. ShownBehind'
  BY <1>1, <1>2 DEF LInv, ShownBehind
<1>9. NoRepeatWithoutEntry'
  BY <1>1 DEF LInv, NoRepeatWithoutEntry
<1>10. RestAhead'
  BY <1>1, <1>2 DEF LInv, RestAhead, Shown, ShownAt
<1>11. QuietOK'
  BY <1>1, <1>2 DEF LInv, QuietOK
<1> QED BY <1>4, <1>5, <1>6, <1>7, <1>8, <1>9, <1>10, <1>11 DEF LInv

\* The SELECT answers the next page: the rows due on it, each at its place, and
\* every row that has its place there.
LEMMA SelectContext ==
  ASSUME LInv, Select
  PROVE  /\ products' = products /\ asked' = asked /\ total' = total /\ since' = since
         /\ entered' = entered /\ left' = left /\ writes' = writes /\ at = "page"
         /\ at' = IF Page < TotalPages(total, asked.page_size) /\ Page < MaxPage
                  THEN "count" ELSE "done"
         /\ Len(pages) * asked.page_size \in Nat
         /\ \E items \in Seq(Ids) :
              /\ pages' = Append(pages, [items |-> items, total |-> total,
                            total_pages |-> TotalPages(total, asked.page_size)])
              /\ Len(items)
                   = Due(Cardinality(Listing), Len(pages) * asked.page_size, asked.page_size)
              /\ \A n \in 1 .. Len(items) :
                   items[n] \in Listing
                     /\ Rank(Listing, items[n]) = Len(pages) * asked.page_size + n
              /\ \A i \in Listing :
                   Rank(Listing, i) \in Len(pages) * asked.page_size + 1
                                         .. Len(pages) * asked.page_size + asked.page_size
                     => \E n \in 1 .. Len(items) : items[n] = i
<1> DEFINE off == Len(pages) * asked.page_size
           size == asked.page_size
<1>1. /\ products' = products /\ asked' = asked /\ total' = total /\ since' = since
      /\ entered' = entered /\ left' = left /\ writes' = writes /\ at = "page"
      /\ at' = IF Page < TotalPages(total, asked.page_size) /\ Page < MaxPage
               THEN "count" ELSE "done"
  BY DEF Select
<1>2. AskedOK /\ products \in Table /\ size \in Nat \ {0} /\ Len(pages) \in Nat
  BY ListingContext DEF LInv
<1>3. off \in Nat
  BY <1>2
<1>4. Offset(Page) = off /\ Limit(Page) = size
  <2>1. (Len(pages) + 1) - 1 = Len(pages)
    BY <1>2
  <2> QED BY <2>1 DEF Offset, Limit, Page
<1>5. PICK q \in Orders(products) :
        pages' = Append(pages, [items |-> Cut(q, off, size), total |-> total,
                                total_pages |-> TotalPages(total, size)])
  BY <1>4 DEF Select, Cut
<1> HIDE DEF off, size
<1>6. /\ Cut(q, off, size) \in Seq(Ids)
      /\ Len(Cut(q, off, size)) = Due(Cardinality(Listing), off, size)
      /\ \A n \in 1 .. Len(Cut(q, off, size)) :
           /\ Cut(q, off, size)[n] \in Listing
           /\ Rank(Listing, Cut(q, off, size)[n]) = off + n
      /\ \A i \in Listing :
           off < Rank(Listing, i) /\ Rank(Listing, i) <= off + size
             => \E n \in 1 .. Len(Cut(q, off, size)) : Cut(q, off, size)[n] = i
  BY <1>2, <1>3, ItemsAre, RankIs DEF Listing
<1>7. \E items \in Seq(Ids) :
        /\ pages' = Append(pages, [items |-> items, total |-> total,
                                   total_pages |-> TotalPages(total, size)])
        /\ Len(items) = Due(Cardinality(Listing), off, size)
        /\ \A n \in 1 .. Len(items) :
             items[n] \in Listing /\ Rank(Listing, items[n]) = off + n
        /\ \A i \in Listing :
             Rank(Listing, i) \in off + 1 .. off + size
               => \E n \in 1 .. Len(items) : items[n] = i
  <2> DEFINE c == Cut(q, off, size)
  <2>1. c \in Seq(Ids)
    BY <1>6
  <2>2. ASSUME NEW i \in Listing, Rank(Listing, i) \in off + 1 .. off + size
        PROVE  \E n \in 1 .. Len(c) : c[n] = i
    BY <1>2, <1>3, <1>6, <2>2 DEF size
  <2> HIDE DEF c
  <2>3. /\ pages' = Append(pages, [items |-> c, total |-> total,
                                   total_pages |-> TotalPages(total, size)])
        /\ Len(c) = Due(Cardinality(Listing), off, size)
        /\ \A n \in 1 .. Len(c) : c[n] \in Listing /\ Rank(Listing, c[n]) = off + n
    BY <1>5, <1>6 DEF c
  <2> QED BY <2>1, <2>2, <2>3
<1> QED BY <1>1, <1>3, <1>7 DEF off, size

\* The pages after it: those before, and the new one.
LEMMA PagesAfter ==
  ASSUME LInv, NEW rec \in Answers, pages' = Append(pages, rec)
  PROVE  /\ pages' \in Seq(Answers) /\ Len(pages') = Len(pages) + 1 /\ Len(pages) \in Nat
         /\ \A p \in 1 .. Len(pages) : pages'[p] = pages[p]
         /\ pages'[Len(pages) + 1] = rec
         /\ \A p \in 1 .. Len(pages') : p \in 1 .. Len(pages) \/ p = Len(pages) + 1
<1>1. pages \in Seq(Answers) /\ Len(pages) \in Nat
  BY ListingContext DEF LInv
<1>2. /\ Append(pages, rec) \in Seq(Answers) /\ Len(Append(pages, rec)) = Len(pages) + 1
      /\ \A p \in 1 .. Len(pages) : Append(pages, rec)[p] = pages[p]
      /\ Append(pages, rec)[Len(pages) + 1] = rec
  BY <1>1, AppendProperties
<1> QED BY <1>1, <1>2

\* Two counts that are close make pages that are.
LEMMA DueClose ==
  ASSUME NEW m \in Nat, NEW n \in Nat, NEW off \in Nat, NEW size \in Nat \ {0},
         NEW d \in Nat, Distance(m, n) <= d
  PROVE  /\ Distance(Due(n, off, size), Due(m, off, size)) <= d
         /\ Due(n, off, size) \in Nat /\ Due(n, off, size) <= size
BY DEF Distance, Due, Least

\* The SELECT keeps the invariant.
LEMMA SelectStep ==
  ASSUME LInv, Select
  PROVE  LInv'
<1> DEFINE P    == Len(pages)
           size == asked.page_size
           off  == P * size
           N    == Cardinality(Listing)
<1>1. /\ products' = products /\ asked' = asked /\ total' = total /\ since' = since
      /\ entered' = entered /\ left' = left /\ writes' = writes
  BY SelectContext
<1>2. /\ at = "page"
      /\ at' = IF P + 1 < TotalPages(total, size) /\ P + 1 < MaxPage
               THEN "count" ELSE "done"
  BY SelectContext DEF Page
<1>3. PICK items \in Seq(Ids) :
        /\ pages' = Append(pages, [items |-> items, total |-> total,
                                   total_pages |-> TotalPages(total, size)])
        /\ Len(items) = Due(N, off, size)
        /\ \A n \in 1 .. Len(items) :
             items[n] \in Listing /\ Rank(Listing, items[n]) = off + n
        /\ \A i \in Listing :
             Rank(Listing, i) \in off + 1 .. off + size
               => \E n \in 1 .. Len(items) : items[n] = i
  BY SelectContext
<1> DEFINE rec == [items |-> items, total |-> total, total_pages |-> TotalPages(total, size)]
<1>4. /\ size \in Nat \ {0} /\ P \in Nat /\ off \in Nat /\ N \in Nat /\ total \in Nat
      /\ total \in 0 .. Cardinality(Ids) /\ since \in Nat /\ MaxPage \in Nat
      /\ Len(items) \in Nat /\ Len(items) <= size
  <2>1. /\ size \in Nat \ {0} /\ P \in Nat /\ N \in Nat /\ total \in Nat
        /\ total \in 0 .. Cardinality(Ids) /\ since \in Nat /\ MaxPage \in Nat
    BY ListingContext DEF LInv
  <2>2. off \in Nat
    BY <2>1
  <2> HIDE DEF P, size, off, N
  <2>3. Len(items) <= size
    BY <1>3, <2>1, <2>2 DEF Due, Least
  <2> QED BY <2>1, <2>2, <2>3
<1>5. TotalPages(total, size) \in Nat
  BY <1>4, TotalPagesAre
<1>6. rec \in Answers /\ rec.items = items /\ rec.total = total
      /\ rec.total_pages = TotalPages(total, size)
  BY <1>4, <1>5 DEF Answers
<1>7. /\ pages' \in Seq(Answers) /\ Len(pages') = P + 1
      /\ \A p \in 1 .. P : pages'[p] = pages[p]
      /\ pages'[P + 1] = rec
      /\ \A p \in 1 .. Len(pages') : p \in 1 .. P \/ p = P + 1
  BY <1>3, <1>6, PagesAfter
<1>8. Listing' = Listing /\ \A i : Rank(Listing, i)' = Rank(Listing, i)
  BY <1>1, ListingKeeps
<1>9. P < MaxPage
  BY <1>2 DEF LInv, WalkOK
<1> HIDE DEF P, size, off, N, rec
<1>10. \A p \in 1 .. P : (p - 1) * size \in Nat /\ (p - 1) * size + size <= off
  <2>1. SUFFICES ASSUME NEW p \in 1 .. P
                 PROVE  (p - 1) * size \in Nat /\ (p - 1) * size + size <= off
    OBVIOUS
  <2>2. (p - 1) * size + size = p * size /\ (p - 1) * size \in Nat /\ p * size <= P * size
    BY <1>4
  <2> QED BY <2>2 DEF off
<1>11. (P + 1 - 1) * size = off
  BY <1>4 DEF off
<1>12. TypeOK'
  <2>1. \A p \in 1 .. Len(pages') : Len(pages'[p].items) <= size
    BY <1>4, <1>6, <1>7, ListingContext DEF LInv, P, size
  <2>2. Len(pages') <= MaxPage
    BY <1>4, <1>7, <1>9
  <2>3. at' \in {"count", "page", "done"}
    BY <1>2
  <2> QED BY <1>1, <1>7, <2>1, <2>2, <2>3 DEF LInv, TypeOK, Table, size
<1>13. WalkOK'
  <2>1. \A p \in 1 .. Len(pages') :
          pages'[p].total_pages = TotalPages(pages'[p].total, size)
    BY <1>6, <1>7 DEF LInv, WalkOK, P, size
  <2>2. at' # "done" => Len(pages') < MaxPage
    BY <1>2, <1>7
  <2>3. at' = "done" => /\ Len(pages') > 0
                        /\ \/ pages'[Len(pages')].total_pages <= Len(pages')
                           \/ Len(pages') = MaxPage
    BY <1>2, <1>4, <1>5, <1>6, <1>7, <1>9
  <2> QED BY <1>1, <2>1, <2>2, <2>3 DEF WalkOK, TotalPages, size
<1>14. CountOK'
  <2>1. Distance(total, N) <= since
    BY <1>2 DEF LInv, CountOK, N
  <2>2. since = 0 => total = N
    BY <1>4, <2>1 DEF Distance
  <2>3. at' # "page"
    BY <1>2
  <2> QED BY <1>1, <1>6, <1>7, <1>8, <2>2, <2>3 DEF CountOK, N
<1>15. TotalFitsPage'
  <2>1. Distance(total, N) <= since
    BY <1>2 DEF LInv, CountOK, N
  <2>2. Distance(Len(items), Due(total, off, size)) <= since
    BY <1>3, <1>4, <2>1, DueClose
  <2>3. Announced(Len(pages))' = Due(total, off, size)
    <3>1. asked'.page_size = size /\ (Len(pages') - 1) * size = off
      BY <1>1, <1>4, <1>7, <1>11 DEF size
    <3>2. pages'[Len(pages')].total = total
      BY <1>6, <1>7
    <3> QED BY <3>1, <3>2 DEF Announced, Due, Least
  <2> QED BY <1>1, <1>6, <1>7, <2>2, <2>3 DEF TotalFitsPage, Distance
<1>16. ShownBehind'
  <2>1. SUFFICES ASSUME entered = {}, NEW p \in 1 .. Len(pages'),
                        NEW n \in 1 .. Len(pages'[p].items),
                        pages'[p].items[n] \in Listing
                 PROVE  Rank(Listing, pages'[p].items[n]) <= (p - 1) * size + n
    BY <1>1, <1>8 DEF ShownBehind, size
  <2>2. CASE p \in 1 .. P
    BY <1>7, <2>1, <2>2 DEF LInv, ShownBehind, P, size
  <2>3. CASE p = P + 1
    BY <1>3, <1>4, <1>6, <1>7, <1>11, <2>3
  <2> QED BY <1>7, <2>2, <2>3
<1>17. NoRepeatWithoutEntry'
  <2>1. ASSUME entered = {}, NEW p \in 1 .. P, NEW m \in 1 .. Len(pages[p].items),
               NEW n \in 1 .. Len(items)
        PROVE  pages[p].items[m] # items[n]
    <3>1. items[n] \in Listing /\ Rank(Listing, items[n]) = off + n
      BY <1>3
    <3>2. pages[p].items[m] \in Listing =>
            Rank(Listing, pages[p].items[m]) <= (p - 1) * size + m
      BY <2>1 DEF LInv, ShownBehind, P, size
    <3>3. m \in Nat /\ m <= size
      BY <2>1, ListingContext DEF LInv, P, size
    <3>4. (p - 1) * size + m <= off
      BY <1>4, <1>10, <3>3
    <3>5. off + n > off
      BY <1>4
    <3> QED BY <1>4, <1>10, <3>1, <3>2, <3>3, <3>4, <3>5
  <2>2. \A m, n \in 1 .. Len(items) : items[m] = items[n] => m = n
    BY <1>3, <1>4
  <2>3. entered = {} =>
          \A p, q \in 1 .. P :
            \A m \in 1 .. Len(pages[p].items), n \in 1 .. Len(pages[q].items) :
              pages[p].items[m] = pages[q].items[n] => p = q /\ m = n
    BY DEF LInv, NoRepeatWithoutEntry, P
  <2>4. SUFFICES ASSUME entered = {},
                        NEW p \in 1 .. Len(pages'), NEW q \in 1 .. Len(pages'),
                        NEW m \in 1 .. Len(pages'[p].items),
                        NEW n \in 1 .. Len(pages'[q].items),
                        pages'[p].items[m] = pages'[q].items[n]
                 PROVE  p = q /\ m = n
    BY <1>1 DEF NoRepeatWithoutEntry
  <2>5. CASE p \in 1 .. P /\ q \in 1 .. P
    BY <1>7, <2>3, <2>4, <2>5
  <2>6. CASE p \in 1 .. P /\ q = P + 1
    BY <1>6, <1>7, <2>1, <2>4, <2>6
  <2>7. CASE p = P + 1 /\ q \in 1 .. P
    BY <1>6, <1>7, <2>1, <2>4, <2>7
  <2>8. CASE p = P + 1 /\ q = P + 1
    BY <1>6, <1>7, <2>2, <2>4, <2>8
  <2> QED BY <1>7, <2>5, <2>6, <2>7, <2>8
<1>18. \A i : (Shown(i) => Shown(i)')
              /\ ((\E n \in 1 .. Len(items) : items[n] = i) => Shown(i)')
  <2>1. ASSUME NEW i, Shown(i)
        PROVE  Shown(i)'
    <3>1. PICK p \in 1 .. P : \E n \in 1 .. Len(pages[p].items) : pages[p].items[n] = i
      BY <2>1 DEF Shown, ShownAt, P
    <3>2. p \in 1 .. Len(pages') /\ pages'[p] = pages[p]
      BY <1>4, <1>7
    <3> QED BY <3>1, <3>2 DEF Shown, ShownAt
  <2>2. ASSUME NEW i, NEW n \in 1 .. Len(items), items[n] = i
        PROVE  Shown(i)'
    <3>1. P + 1 \in 1 .. Len(pages') /\ pages'[P + 1].items = items
      BY <1>4, <1>6, <1>7
    <3> QED BY <2>2, <3>1 DEF Shown, ShownAt
  <2> QED BY <2>1, <2>2
<1>19. RestAhead'
  <2>1. SUFFICES ASSUME left = {}, NEW i \in Listing, i \notin entered, ~Shown(i)'
                 PROVE  Rank(Listing, i) > Len(pages') * size
    BY <1>1, <1>8 DEF RestAhead, size
  <2>2. Rank(Listing, i) > off
    BY <1>18, <2>1 DEF LInv, RestAhead, P, size, off
  <2>3. Rank(Listing, i) \notin off + 1 .. off + size
    BY <1>3, <1>18, <2>1
  <2>4. Rank(Listing, i) \in Nat
    BY RankBounds, RankIs DEF Listing
  <2>5. Len(pages') * size = off + size
    BY <1>4, <1>7 DEF off
  <2> QED BY <1>4, <2>2, <2>3, <2>4, <2>5
<1>20. QuietOK'
  <2>1. SUFFICES ASSUME writes = 0
                 PROVE  /\ entered = {} /\ left = {}
                        /\ \A p \in 1 .. Len(pages') : \A n \in 1 .. Len(pages'[p].items) :
                             /\ pages'[p].items[n] \in Listing
                             /\ Rank(Listing, pages'[p].items[n]) = (p - 1) * size + n
    BY <1>1, <1>8 DEF QuietOK, size
  <2>2. entered = {} /\ left = {}
    BY <2>1 DEF LInv, QuietOK
  <2>3. ASSUME NEW p \in 1 .. Len(pages'), NEW n \in 1 .. Len(pages'[p].items)
        PROVE  /\ pages'[p].items[n] \in Listing
               /\ Rank(Listing, pages'[p].items[n]) = (p - 1) * size + n
    <3>1. CASE p \in 1 .. P
      BY <1>7, <2>1, <2>3, <3>1 DEF LInv, QuietOK, P, size
    <3>2. CASE p = P + 1
      <4>1. pages'[p].items = items /\ (p - 1) * size = off
        BY <1>4, <1>6, <1>7, <1>11, <3>2
      <4> QED BY <1>3, <2>3, <4>1
    <3> QED BY <1>7, <3>1, <3>2
  <2> QED BY <2>2, <2>3
<1> QED BY <1>12, <1>13, <1>14, <1>15, <1>16, <1>17, <1>19, <1>20 DEF LInv

-----------------------------------------------------------------------------
(* A commit in between *)

\* What one write makes of the listing: one row more, one row less, or the same
\* rows.  A row that stays has not moved unless the write says that it came in
\* and that it went out.
LEMMA WriteContext ==
  ASSUME LInv, NEW w \in Ids, NEW row \in Rows, Write(w, row)
  PROVE  /\ asked' = asked /\ at' = at /\ at # "done" /\ total' = total /\ pages' = pages
         /\ writes' = writes + 1 /\ since' = since + 1 /\ writes < MaxWrites
         /\ products' \in Table
         /\ entered \subseteq entered' /\ entered' \subseteq Ids
         /\ left \subseteq left' /\ left' \subseteq Ids
         /\ Listing' = Matching(products')
         /\ Listing' = Listing \/ Listing' = Listing \cup {w} \/ Listing' = Listing \ {w}
         /\ \A i \in Listing' : i \notin entered' =>
              i \in Listing /\ products'[i].key = products[i].key
         /\ left' = {} => \A i \in Listing :
              i \in Listing' /\ products'[i].key = products[i].key
<1>1. /\ asked' = asked /\ at' = at /\ at # "done" /\ total' = total /\ pages' = pages
      /\ writes' = writes + 1 /\ since' = since + 1 /\ writes < MaxWrites
      /\ products' = [products EXCEPT ![w] = row]
  BY DEF Write
<1>2. products \in Table /\ entered \subseteq Ids /\ left \subseteq Ids
  BY DEF LInv, TypeOK
<1>3. products' \in Table
  BY <1>1, <1>2 DEF Table
<1>4. products'[w] = row /\ \A i \in Ids : i # w => products'[i] = products[i]
  BY <1>1, <1>2 DEF Table
<1> DEFINE moves == products[w] # None /\ products[w].key # row.key
<1>5. /\ entered' = IF Selected(row) /\ (Selected(products[w]) => moves)
                    THEN entered \cup {w} ELSE entered
      /\ left' = IF Selected(products[w]) /\ (Selected(row) => moves)
                 THEN left \cup {w} ELSE left
  BY DEF Write
<1>6. /\ entered \subseteq entered' /\ entered' \subseteq Ids
      /\ left \subseteq left' /\ left' \subseteq Ids
  BY <1>2, <1>5
<1>7. Listing' = Matching(products')
  BY <1>1 DEF Listing, Matching, Selected
<1>8. /\ Listing = {i \in Ids : Selected(products[i])}
      /\ Listing' = {i \in Ids : Selected(products'[i])}
  BY <1>7 DEF Listing, Matching
<1>9. \A i \in Ids : i # w => (i \in Listing' <=> i \in Listing)
  BY <1>4, <1>8
<1>10. (w \in Listing <=> Selected(products[w])) /\ (w \in Listing' <=> Selected(row))
  BY <1>4, <1>8
<1>11. Listing' = Listing \/ Listing' = Listing \cup {w} \/ Listing' = Listing \ {w}
  <2>1. Listing \subseteq Ids /\ Listing' \subseteq Ids
    BY <1>8
  <2> QED BY <1>9, <2>1
<1>12. Selected(products[w]) => products[w] # None
  BY DEF Selected
<1>13. ASSUME NEW i \in Listing', i \notin entered'
       PROVE  i \in Listing /\ products'[i].key = products[i].key
  <2>1. i \in Ids
    BY <1>8
  <2>2. CASE i # w
    BY <1>4, <1>9, <2>1, <2>2
  <2>3. CASE i = w
    <3>1. Selected(row) /\ Selected(products[w]) /\ ~moves
      BY <1>5, <1>10, <1>13, <2>3
    <3> QED BY <1>4, <1>10, <1>12, <2>3, <3>1
  <2> QED BY <2>2, <2>3
<1>14. ASSUME left' = {}, NEW i \in Listing
       PROVE  i \in Listing' /\ products'[i].key = products[i].key
  <2>1. i \in Ids
    BY <1>8
  <2>2. CASE i # w
    BY <1>4, <1>9, <2>1, <2>2
  <2>3. CASE i = w
    <3>1. Selected(products[w]) /\ Selected(row) /\ ~moves
      BY <1>5, <1>10, <1>14, <2>3
    <3> QED BY <1>4, <1>10, <1>12, <2>3, <3>1
  <2> QED BY <2>2, <2>3
<1> QED BY <1>1, <1>3, <1>6, <1>7, <1>11, <1>13, <1>14

\* A commit keeps the invariant.
LEMMA WriteStep ==
  ASSUME LInv, NEW w \in Ids, NEW row \in Rows, Write(w, row)
  PROVE  LInv'
<1>1. /\ asked' = asked /\ at' = at /\ at # "done" /\ total' = total /\ pages' = pages
      /\ writes' = writes + 1 /\ since' = since + 1 /\ writes < MaxWrites
      /\ products' \in Table
      /\ entered \subseteq entered' /\ entered' \subseteq Ids
      /\ left \subseteq left' /\ left' \subseteq Ids
      /\ Listing' = Matching(products')
  BY WriteContext
<1>2. Listing' = Listing \/ Listing' = Listing \cup {w} \/ Listing' = Listing \ {w}
  BY WriteContext
<1>3. \A i \in Listing' : i \notin entered' =>
        i \in Listing /\ products'[i].key = products[i].key
  BY WriteContext
<1>4. left' = {} => \A i \in Listing :
        i \in Listing' /\ products'[i].key = products[i].key
  BY WriteContext
<1>5. /\ since \in Nat /\ writes \in Nat /\ since <= writes /\ MaxWrites \in Nat
      /\ asked.page_size \in Nat \ {0} /\ total \in Nat /\ Len(pages) \in Nat
      /\ Cardinality(Listing) \in Nat
  BY ListingContext, ListingAssumption DEF LInv
<1>6. \A i : Rank(Listing, i)' = Cardinality(UpTo(products', i))
  BY <1>1 DEF Rank, UpTo, Before, KeyBefore
<1>7. /\ \A i \in Listing : Rank(Listing, i) \in Nat /\ IsFiniteSet(UpTo(products, i))
      /\ \A i \in Listing' : Rank(Listing, i)' \in Nat /\ IsFiniteSet(UpTo(products', i))
  BY <1>1, <1>6, RankBounds, RankIs DEF Listing
<1>8. TypeOK'
  <2>1. since' \in 0 .. writes' /\ writes' \in 0 .. MaxWrites
    BY <1>1, <1>5
  <2> QED BY <1>1, <2>1 DEF LInv, TypeOK, Table
<1>9. WalkOK'
  BY <1>1 DEF LInv, WalkOK, TotalPages
<1>10. CountOK'
  <2>1. Cardinality(Listing') \in Nat
        /\ Distance(Cardinality(Listing), Cardinality(Listing')) <= 1
    <3>1. IsFiniteSet(Listing)
      BY MatchingFinite DEF Listing
    <3>2. \/ Cardinality(Listing') = Cardinality(Listing)
          \/ Cardinality(Listing') = Cardinality(Listing) + 1
          \/ w \in Listing /\ Cardinality(Listing') = Cardinality(Listing) - 1
      BY <1>2, <3>1, FS_AddElement, FS_RemoveElement
    <3>3. Cardinality(Listing') \in Nat
      BY <1>1, MatchingFinite
    <3> QED BY <1>5, <3>2, <3>3 DEF Distance
  <2>2. at = "page" => Distance(total, Cardinality(Listing)) <= since
    BY DEF LInv, CountOK
  <2>3. at = "page" => Distance(total, Cardinality(Listing')) <= since + 1
    BY <1>5, <2>1, <2>2 DEF Distance
  <2> QED BY <1>1, <1>5, <2>3 DEF CountOK, Distance
<1>11. TotalFitsPage'
  <2>1. SUFFICES ASSUME Len(pages) > 0, at # "page"
                 PROVE  Distance(Len(pages[Len(pages)].items), Announced(Len(pages))) <= since + 1
    BY <1>1 DEF TotalFitsPage, Announced, Distance
  <2>2. Distance(Len(pages[Len(pages)].items), Announced(Len(pages))) <= since
    BY <2>1 DEF LInv, TotalFitsPage
  <2>3. /\ Len(pages) \in 1 .. Len(pages) /\ Len(pages[Len(pages)].items) \in Nat
        /\ pages[Len(pages)].total \in Nat
    BY <1>5, <2>1, ListingContext DEF LInv
  <2>4. Announced(Len(pages)) \in Nat
    <3>1. (Len(pages) - 1) * asked.page_size \in Nat
      BY <1>5, <2>1
    <3> HIDE DEF LInv
    <3> QED BY <1>5, <2>3, <3>1 DEF Announced, Least
  <2> QED BY <1>5, <2>2, <2>3, <2>4 DEF Distance
<1>12. ShownBehind'
  <2>1. ASSUME entered' = {}, NEW i \in Listing'
        PROVE  i \in Listing /\ Rank(Listing, i)' <= Rank(Listing, i)
    <3>1. i \in Listing /\ i \in Matching(products')
      BY <1>1, <1>3, <2>1
    <3>2. ASSUME NEW j \in UpTo(products', i)
          PROVE  j \in UpTo(products, i)
      <4>1. j \in Listing' /\ (j = i \/ Before(products', j, i))
        BY <1>1 DEF UpTo
      <4>2. /\ j \in Listing /\ products'[j].key = products[j].key
            /\ products'[i].key = products[i].key
        BY <1>3, <2>1, <4>1
      <4> QED BY <4>1, <4>2 DEF UpTo, Before, KeyBefore, Listing
    <3>3. Cardinality(UpTo(products', i)) <= Cardinality(UpTo(products, i))
      BY <1>7, <3>1, <3>2, FS_Subset
    <3> QED BY <1>6, <3>1, <3>3, RankIs
  <2>2. SUFFICES ASSUME entered' = {}, NEW p \in 1 .. Len(pages),
                        NEW n \in 1 .. Len(pages[p].items), pages[p].items[n] \in Listing'
                 PROVE  Rank(Listing, pages[p].items[n])' <= (p - 1) * asked.page_size + n
    BY <1>1 DEF ShownBehind
  <2> DEFINE i == pages[p].items[n]
  <2>3. entered = {} /\ i \in Listing /\ Cardinality(UpTo(products', i)) <= Rank(Listing, i)
    BY <1>1, <1>6, <2>1, <2>2
  <2>4. Rank(Listing, i) <= (p - 1) * asked.page_size + n
    BY <2>2, <2>3 DEF LInv, ShownBehind
  <2>5. /\ Cardinality(UpTo(products', i)) \in Nat /\ Rank(Listing, i) \in Nat
        /\ (p - 1) * asked.page_size + n \in Int
    BY <1>5, <1>6, <1>7, <2>2, <2>3
  <2>6. Cardinality(UpTo(products', i)) <= (p - 1) * asked.page_size + n
    BY <2>3, <2>4, <2>5
  <2> QED BY <1>1, <1>6, <2>6
<1>13. NoRepeatWithoutEntry'
  BY <1>1 DEF LInv, NoRepeatWithoutEntry
<1>14. RestAhead'
  <2>1. SUFFICES ASSUME left' = {}, NEW i \in Listing', i \notin entered', ~Shown(i)'
                 PROVE  Rank(Listing, i)' > Len(pages) * asked.page_size
    BY <1>1 DEF RestAhead
  <2>2. i \in Listing /\ i \notin entered /\ left = {} /\ i \in Matching(products')
    BY <1>1, <1>3, <2>1
  <2>3. ~Shown(i)
    BY <1>1, <2>1 DEF Shown, ShownAt
  <2>4. Rank(Listing, i) > Len(pages) * asked.page_size
    BY <2>2, <2>3 DEF LInv, RestAhead
  <2>5. ASSUME NEW j \in UpTo(products, i)
        PROVE  j \in UpTo(products', i)
    <3>1. j \in Listing /\ (j = i \/ Before(products, j, i))
      BY DEF UpTo, Listing
    <3>2. /\ j \in Listing' /\ products'[j].key = products[j].key
          /\ products'[i].key = products[i].key
      BY <1>4, <2>1, <2>2, <3>1
    <3> QED BY <1>1, <3>1, <3>2 DEF UpTo, Before, KeyBefore
  <2>6. Cardinality(UpTo(products, i)) <= Cardinality(UpTo(products', i))
    BY <1>7, <2>1, <2>5, FS_Subset
  <2>7. Cardinality(UpTo(products, i)) \in Nat /\ Cardinality(UpTo(products', i)) \in Nat
        /\ Len(pages) * asked.page_size \in Nat
    BY <1>5, <1>6, <1>7, <2>1, <2>2, RankIs
  <2> QED BY <1>6, <2>4, <2>6, <2>7, RankIs
<1>15. QuietOK'
  BY <1>1, <1>5 DEF QuietOK
<1> QED BY <1>8, <1>9, <1>10, <1>11, <1>12, <1>13, <1>14, <1>15 DEF LInv

-----------------------------------------------------------------------------
(* The invariant, and what follows from it *)

\* Every step keeps it.
LEMMA NextLInv ==
  ASSUME LInv, [Next]_vars
  PROVE  LInv'
<1>1. CASE Count
  BY <1>1, CountStep
<1>2. CASE Select
  BY <1>2, SelectStep
<1>3. ASSUME NEW i \in Ids, NEW row \in Rows, Write(i, row)
      PROVE  LInv'
  BY <1>3, WriteStep
<1>4. CASE UNCHANGED vars
  <2>1. /\ products' = products /\ asked' = asked /\ at' = at /\ total' = total
        /\ pages' = pages /\ since' = since /\ entered' = entered /\ left' = left
        /\ writes' = writes
    BY <1>4 DEF vars
  <2>2. Listing' = Listing /\ \A i : Rank(Listing, i)' = Rank(Listing, i)
    BY <2>1, ListingKeeps
  <2>3. TypeOK' /\ WalkOK' /\ CountOK' /\ TotalFitsPage'
    <3>1. TypeOK'
      BY <2>1 DEF LInv, TypeOK, Table
    <3>2. WalkOK'
      BY <2>1 DEF LInv, WalkOK, TotalPages
    <3>3. CountOK'
      BY <2>1, <2>2 DEF LInv, CountOK, Distance
    <3>4. TotalFitsPage'
      BY <2>1 DEF LInv, TotalFitsPage, Announced, Distance, Least
    <3> QED BY <3>1, <3>2, <3>3, <3>4
  <2>4. ShownBehind' /\ NoRepeatWithoutEntry'
    BY <2>1, <2>2 DEF LInv, ShownBehind, NoRepeatWithoutEntry
  <2>5. RestAhead'
    BY <2>1, <2>2 DEF LInv, RestAhead, Shown, ShownAt
  <2>6. QuietOK'
    BY <2>1, <2>2 DEF LInv, QuietOK
  <2> QED BY <2>3, <2>4, <2>5, <2>6 DEF LInv
<1> QED BY <1>1, <1>2, <1>3, <1>4 DEF Next, Terminated

\* The pages of a walk, their totals, and where the rows shown and not yet shown
\* stand in the listing as it is now (list_public).
THEOREM ListingInvariance == Spec => []LInv
BY InitHolds, NextLInv, PTL DEF Spec

\* A listing answers at most page_size products a page, within the page cap.
THEOREM ListingTypeCorrect == Spec => []TypeOK
<1>1. LInv => TypeOK
  BY DEF LInv
<1> QED BY <1>1, ListingInvariance, PTL

\* A page and the total answered with it disagree by no more rows than were
\* written between the COUNT and the SELECT.
THEOREM TotalAndPageAgree == Spec => []TotalFitsPage
<1>1. LInv => TotalFitsPage
  BY DEF LInv
<1> QED BY <1>1, ListingInvariance, PTL

\* total_pages counts exactly the pages that should have products.
THEOREM PagesAreAnnounced == Spec => []PagesAnnounced
<1>1. ASSUME LInv PROVE PagesAnnounced
  <2>1. SUFFICES ASSUME NEW p \in 1 .. Len(pages)
                 PROVE  Announced(p) > 0 <=> p <= pages[p].total_pages
    BY DEF PagesAnnounced
  <2> DEFINE n == pages[p].total
             size == asked.page_size
             before == (p - 1) * size
  <2>2. n \in Nat /\ size \in Nat \ {0} /\ p \in Nat \ {0}
    BY <1>1, <2>1, ListingContext DEF LInv
  <2>3. pages[p].total_pages = TotalPages(n, size)
    BY <1>1, <2>1 DEF LInv, WalkOK
  <2>4. before < n <=> p <= TotalPages(n, size)
    BY <2>2, TotalPagesAre
  <2>5. before \in Nat
    BY <2>2
  <2>6. Announced(p) = IF n - before < 0 THEN 0 ELSE Least(n - before, size)
    BY DEF Announced
  <2> HIDE DEF n, size, before
  <2>7. Announced(p) > 0 <=> before < n
    BY <2>2, <2>5, <2>6 DEF Least
  <2> QED BY <2>3, <2>4, <2>7
<1> QED BY <1>1, ListingInvariance, PTL

\* Products that leave the listing never make the walk show another one twice:
\* a repetition needs a product that came in or moved.
THEOREM RepeatNeedsEntry == Spec => []NoRepeatWithoutEntry
<1>1. LInv => NoRepeatWithoutEntry
  BY DEF LInv
<1> QED BY <1>1, ListingInvariance, PTL

\* A walk whose last page was its last, and is not stale, went past every row.
LEMMA EndIsPast ==
  ASSUME LInv, at = "done", since = 0, pages[Len(pages)].total_pages <= Len(pages)
  PROVE  /\ Len(pages) * asked.page_size \in Nat
         /\ \A i \in Listing : Rank(Listing, i) <= Len(pages) * asked.page_size
<1> DEFINE P == Len(pages)
           size == asked.page_size
           N == Cardinality(Listing)
<1>1. P \in Nat /\ size \in Nat \ {0} /\ N \in Nat
  BY ListingContext DEF LInv
<1>2. P > 0 /\ pages[P].total = N
      /\ pages[P].total_pages = TotalPages(pages[P].total, size)
  BY <1>1 DEF LInv, WalkOK, CountOK
<1>3. \A i \in Listing : Rank(Listing, i) \in Nat /\ Rank(Listing, i) <= N
  BY RankBounds, RankIs DEF Listing
<1>4. TotalPages(N, size) <= P
  BY <1>2
<1> HIDE DEF P, size, N
<1>5. P + 1 \in Nat \ {0} /\ P + 1 - 1 = P /\ P * size \in Nat
  BY <1>1
<1>6. TotalPages(N, size) \in Nat /\ (P * size < N <=> P + 1 <= TotalPages(N, size))
  BY <1>1, <1>5, TotalPagesAre
<1>7. N <= P * size
  BY <1>1, <1>4, <1>5, <1>6
<1> QED BY <1>1, <1>3, <1>5, <1>7 DEF P, size

\* Products that come into the listing never make a walk that saw its end miss
\* another one.
THEOREM SkipNeedsLeave == Spec => []NoSkipWithoutLeave
<1>1. ASSUME LInv PROVE NoSkipWithoutLeave
  <2>1. SUFFICES ASSUME at = "done", left = {}, since = 0,
                        pages[Len(pages)].total_pages <= Len(pages),
                        NEW i \in Listing, i \notin entered, ~Shown(i)
                 PROVE  FALSE
    BY DEF NoSkipWithoutLeave, Listing
  <2>2. Rank(Listing, i) > Len(pages) * asked.page_size
    BY <1>1, <2>1 DEF LInv, RestAhead
  <2>3. Rank(Listing, i) <= Len(pages) * asked.page_size
    BY <1>1, <2>1, EndIsPast
  <2>4. Rank(Listing, i) \in Nat /\ Len(pages) * asked.page_size \in Nat
    BY <1>1, <2>1, RankBounds, RankIs, EndIsPast DEF Listing
  <2> QED BY <2>2, <2>3, <2>4
<1> QED BY <1>1, ListingInvariance, PTL

\* A walk of a quiet catalogue lists what its client is looking for once, in
\* order, up to the page cap: list_public skips and repeats nothing, and its
\* escaped pattern finds the texts with the term in them and no others.
THEOREM QuietWalk == Spec => []QuietWalkIsComplete
<1>1. ASSUME LInv PROVE QuietWalkIsComplete
  <2>1. products \in Table /\ asked.query \in Terms \cup {None}
    BY <1>1, ListingContext DEF LInv, AskedOK
  <2>2. ASSUME NEW i \in Ids
        PROVE  Wanted(products[i]) <=> Selected(products[i])
    <3> DEFINE row == products[i]
    <3>1. row \in Rows \cup {None}
      BY <2>1 DEF Table
    <3> HIDE DEF row
    <3>2. ASSUME row # None, asked.query # None
          PROVE  /\ ILike(row.sku, Pattern(asked.query)) <=> ContainsTerm(row.sku, asked.query)
                 /\ ILike(row.name, Pattern(asked.query)) <=> ContainsTerm(row.name, asked.query)
      <4>1. row.sku \in Seq(STRING) /\ row.name \in Seq(STRING)
        BY <3>1, <3>2, ListingAssumption
      <4>2. asked.query \in Seq(STRING)
        BY <2>1, <3>2, ListingAssumption
      <4> QED BY <4>1, <4>2, SearchIsExact
    <3>3. Wanted(row) <=> Selected(row)
      BY <3>2 DEF Wanted, Selected
    <3> QED BY <3>3 DEF row
  <2>3. {i \in Ids : Wanted(products[i])} = Listing
    BY <2>2 DEF Listing, Matching
  <2>4. SUFFICES ASSUME at = "done", writes = 0
                 PROVE  /\ \A p \in 1 .. Len(pages) : \A n \in 1 .. Len(pages[p].items) :
                             LET i == pages[p].items[n]
                             IN i \in Listing
                                  /\ Rank(Listing, i) = (p - 1) * asked.page_size + n
                        /\ \A i \in Listing :
                             Rank(Listing, i) <= MaxPage * asked.page_size => Shown(i)
    BY <2>3 DEF QuietWalkIsComplete
  <2>5. ASSUME NEW i \in Listing, Rank(Listing, i) <= MaxPage * asked.page_size, ~Shown(i)
        PROVE  FALSE
    <3>1. Rank(Listing, i) > Len(pages) * asked.page_size
      BY <1>1, <2>4, <2>5 DEF LInv, QuietOK, RestAhead
    <3>2. since = 0 /\ Len(pages) \in Nat /\ asked.page_size \in Nat \ {0}
      BY <1>1, <2>4, ListingContext DEF LInv
    <3>3. Rank(Listing, i) \in Nat /\ Len(pages) * asked.page_size \in Nat
      BY <3>2, RankBounds, RankIs DEF Listing
    <3>4. CASE pages[Len(pages)].total_pages <= Len(pages)
      BY <1>1, <2>4, <3>1, <3>2, <3>3, <3>4, EndIsPast
    <3>5. CASE Len(pages) = MaxPage
      BY <2>5, <3>1, <3>3, <3>5
    <3> QED BY <1>1, <2>4, <3>4, <3>5 DEF LInv, WalkOK
  <2> QED BY <1>1, <2>4, <2>5 DEF LInv, QuietOK
<1> QED BY <1>1, ListingInvariance, PTL
=============================================================================
