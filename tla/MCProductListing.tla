-------------------------- MODULE MCProductListing --------------------------
(* Small catalogues for ProductListing, and the escaping on short texts.   *)
EXTENDS ProductListingProperties

Row(key, sku, name, public) ==
  [key |-> key, sku |-> sku, name |-> name, public |-> public]

MCRows == {Row(1, <<"A">>, <<"a", "%">>, TRUE), Row(2, <<"_">>, <<"a">>, TRUE),
           Row(1, <<"A">>, <<"%">>, FALSE)}
MCTerms == {<<"%">>, <<"_">>}

Characters == {"a", "A", "%", "_", "\\"}
ASSUME EscapingAssumption ==
  \A term \in BoundedSeq(Characters, 2), text \in BoundedSeq(Characters, 3) :
    ILike(text, Pattern(term)) <=> ContainsTerm(text, term)
=============================================================================
