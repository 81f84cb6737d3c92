--------------------------- MODULE CatalogueSearch --------------------------
(* The catalogue search of the quotation editor: pasted SKUs and phrases of   *)
(* consecutive words, ranked and cut to a page.  Words are compared as a      *)
(* whole; a product's identity stands for the name and id that break ties.    *)
EXTENDS Integers, Sequences, FiniteSets, SequencesExt, FiniteSetsExt

CONSTANTS
  Words, Names,    \* single words; product names, as sequences of words
  Ids,             \* a set of numbers
  MaxTerms,        \* MAX_QUOTATION_SEARCH_TERMS, 12 in the code
  MaxWidth,        \* widest phrase, 4 in the code
  Limit,           \* rows of a page
  MaxQuery         \* bound on the words of a query

SearchAssumption ==
  /\ Names \subseteq Seq(Words) /\ Ids \subseteq Nat /\ IsFiniteSet(Ids)
  /\ {MaxTerms, MaxWidth, Limit, MaxQuery} \subseteq Nat \ {0} /\ MaxWidth <= MaxTerms

VARIABLES
  catalogue,  \* [Ids -> product]
  query,      \* the words typed or pasted, in order
  found       \* the answer: the rows and how many matched, or <<>>

vars == <<catalogue, query, found>>

Product == [sku : Words, name : Names, active : BOOLEAN]
Queries == UNION {[1..n -> Words] : n \in 1..MaxQuery}

TypeOK ==
  /\ catalogue \in [Ids -> Product] /\ query \in Queries
  /\ found = <<>> \/ (found.total \in 0..Cardinality(Ids) /\ Range(found.rows) \subseteq Ids)

Init ==
  /\ catalogue \in [Ids -> Product] /\ \A p, q \in Ids : catalogue[p].sku = catalogue[q].sku => p = q
  /\ query \in Queries
  /\ found = <<>>
-----------------------------------------------------------------------------
(* _quotation_search_terms.                                                   *)
Terms == SubSeq(query, 1, Min({Len(query), MaxTerms}))
Runs(s, width) == UNION {{SubSeq(s, b, e) : e \in b..Min({b + width - 1, Len(s)})} : b \in 1..Len(s)}
Phrases == Runs(Terms, MaxWidth)

Pasted(p) == catalogue[p].sku \in Range(Terms)
MatchedBy(p) == Phrases \cap Runs(catalogue[p].name, MaxWidth)
Longest(p) == Max({0} \cup {Len(f) : f \in MatchedBy(p)})
Candidates == {p \in Ids : catalogue[p].active /\ (Pasted(p) \/ MatchedBy(p) # {})}

(* _quotation_product_rank (ByPhrase: the SKU does not count).                *)
ByPhrase(p) == <<1, -Longest(p), p>>
Rank(p) == IF Pasted(p) THEN <<0, 0, p>> ELSE <<1, -Longest(p), p>>
Lower(a, b) == \E i \in 1..3 : a[i] < b[i] /\ \A j \in 1..(i - 1) : a[j] = b[j]

(* search_quotation_products.                                                 *)
Sorted == CHOOSE s \in [1..Cardinality(Candidates) -> Candidates] :
            \A i, j \in DOMAIN s : i < j => Lower(Rank(s[i]), Rank(s[j]))
Ranked == Sorted
Search ==
  /\ found = <<>>
  /\ found' = [rows |-> SubSeq(Ranked, 1, Min({Len(Ranked), Limit})),
               total |-> Len(Ranked)]
  /\ UNCHANGED <<catalogue, query>>

NextQuery == found # <<>> /\ found' = <<>> /\ query' \in Queries /\ UNCHANGED catalogue

Next == Search \/ NextQuery
Spec == Init /\ [][Next]_vars
-----------------------------------------------------------------------------
Before(p, q) == \E i, j \in 1..Len(found.rows) : found.rows[i] = p /\ found.rows[j] = q /\ i < j
Shown(p) == found # <<>> /\ p \in Range(found.rows)

(* Every active product whose SKU was pasted, among the words the search      *)
(* reads, is shown whatever else matches, and above every product that only   *)
(* its name brings: the page has room for all the words the search reads.     *)
PastedSkusFirst == found # <<>> /\ Limit >= MaxTerms =>
  \A p \in Ids : catalogue[p].active /\ (\E i \in 1..Len(query) : i <= MaxTerms /\ query[i] = catalogue[p].sku) =>
    Shown(p) /\ \A q \in Range(found.rows) : catalogue[q].sku \notin Range(query) => Before(p, q)

(* A name typed in full stays one phrase: its product is above products that  *)
(* share only one of its words.                                               *)
FullNameFirst == \A p, q \in Ids :
  Shown(p) /\ Shown(q) /\ query = catalogue[p].name /\ catalogue[q].sku \notin Range(query)
    /\ query \notin Runs(catalogue[q].name, Len(query)) /\ Len(query) <= MaxWidth
    => Before(p, q)

(* No match is lost: the total counts every active product whose name shares  *)
(* a word with what the search reads or whose SKU was pasted.                 *)
TotalIsComplete == found # <<>> =>
  found.total = Cardinality({p \in Ids : catalogue[p].active /\
    \E i \in 1..Len(query) : i <= MaxTerms /\ query[i] \in {catalogue[p].sku} \cup Range(catalogue[p].name)})
=============================================================================
