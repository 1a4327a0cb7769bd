------------------------- MODULE ProductSearchProofs --------------------------
(***************************************************************************)
(* Proofs about ProductSearch for every set of requests, every response of *)
(* a provider and every value of the bounds: what a plan has of its        *)
(* sentence, and which prices it loses; that the ranking says what the     *)
(* products show; and that a ranking the program made is only refused for  *)
(* the reasons HistoryAccepts names.                                       *)
(***************************************************************************)
EXTENDS ProductSearch, FiniteSetTheorems, FunctionTheorems, SequenceTheorems,
        TLAPS

-----------------------------------------------------------------------------
(* Finite sets *)

\* Among the subsets of a finite set that have a property there is one none
\* of whose proper subsets has it: the induction on which the proofs about
\* folds and about least elements rest.
LEMMA SmallestSubset ==
    ASSUME NEW S, IsFiniteSet(S), NEW B, B \in SUBSET (SUBSET S), B # {}
    PROVE  \E T \in B : \A U \in SUBSET T : U # T => U \notin B
<1>1. FiniteSubsetsOf(S) = SUBSET S
  BY FS_FiniteSubsetsOfFinite
<1>2. IsWellFoundedOn(StrictSubsetOrdering(S), SUBSET S)
  BY <1>1, FS_StrictSubsetOrderingWellFounded
<1>3. PICK T \in B : \A U \in B : ~(<<U, T>> \in StrictSubsetOrdering(S))
  BY <1>2, WFMin
<1>4. ASSUME NEW U \in SUBSET T, U # T, U \in B PROVE FALSE
  <2>1. <<U, T>> \in (SUBSET S) \X (SUBSET S)
    BY <1>4
  <2>2. <<U, T>> \in StrictSubsetOrdering(S)
    BY <1>4, <2>1 DEF StrictSubsetOrdering
  <2>3. QED
    BY <1>3, <1>4, <2>2
<1>5. QED
  BY <1>4

\* A finite set of integers that is not empty has a least and a greatest
\* element.
LEMMA Extremes ==
    ASSUME NEW S, IsFiniteSet(S), S \subseteq Int, S # {}
    PROVE  /\ \E x \in S : \A y \in S : x <= y
           /\ \E x \in S : \A y \in S : x >= y
<1>1. PICK C : C = {T \in SUBSET S : /\ T # {}
                                    /\ ~ (/\ \E x \in T : \A y \in T : x <= y
                                          /\ \E x \in T : \A y \in T : x >= y)}
  OBVIOUS
<1>2. SUFFICES ASSUME C # {} PROVE FALSE
  BY <1>1
<1>3. PICK T \in C : \A U \in SUBSET T : U # T => U \notin C
  <2>1. C \in SUBSET (SUBSET S)
    BY <1>1
  <2>2. QED
    BY <1>2, <2>1, SmallestSubset
<1>4. PICK x \in T : TRUE
  BY <1>1, <1>3
<1>5. T \subseteq Int /\ x \in Int
  BY <1>1, <1>3, <1>4
<1>6. T \ {x} # {}
  <2>1. SUFFICES ASSUME T = {x} PROVE FALSE
    BY <1>4
  <2>2. \A y \in T : x <= y /\ x >= y
    BY <1>5, <2>1
  <2>3. QED
    BY <1>1, <1>3, <2>1, <2>2
<1>7. PICK U : U = T \ {x}
  OBVIOUS
<1>8. /\ \E z \in U : \A y \in U : z <= y
      /\ \E z \in U : \A y \in U : z >= y
  <2>1. U \in SUBSET T /\ U # T /\ U \in SUBSET S
    BY <1>1, <1>3, <1>4, <1>7
  <2>2. U \notin C
    BY <1>3, <2>1
  <2>3. QED
    BY <1>1, <1>6, <1>7, <2>1, <2>2
<1>9. PICK a \in U, b \in U : \A y \in U : a <= y /\ y <= b
  BY <1>5, <1>7, <1>8
<1>10. a \in T /\ b \in T /\ \A y \in T : y = x \/ (a <= y /\ y <= b)
  BY <1>7, <1>9
<1>11. \E w \in T : \A y \in T : w <= y
  <2>1. CASE a <= x
    BY <1>5, <1>10, <2>1
  <2>2. CASE x <= a
    BY <1>4, <1>5, <1>10, <2>2
  <2>3. QED
    BY <1>5, <1>10, <2>1, <2>2
<1>12. \E w \in T : \A y \in T : w >= y
  <2>1. CASE x <= b
    BY <1>5, <1>10, <2>1
  <2>2. CASE b <= x
    BY <1>4, <1>5, <1>10, <2>2
  <2>3. QED
    BY <1>5, <1>10, <2>1, <2>2
<1>13. QED
  BY <1>1, <1>3, <1>11, <1>12

\* Max and Min find them.
LEMMA MaxMin ==
    ASSUME NEW S, IsFiniteSet(S), S \subseteq Int, S # {}
    PROVE  /\ Max(S) \in S /\ \A y \in S : y <= Max(S)
           /\ Min(S) \in S /\ \A y \in S : Min(S) <= y
<1>1. \E x \in S : \A y \in S : x >= y
  BY Extremes
<1>2. Max(S) \in S /\ \A y \in S : Max(S) >= y
  BY <1>1 DEF Max
<1>3. \E x \in S : \A y \in S : x <= y
  BY Extremes
<1>4. Min(S) \in S /\ \A y \in S : Min(S) <= y
  BY <1>3 DEF Min
<1>5. QED
  BY <1>2, <1>4

\* The maximum of a set is its member that no other exceeds.
LEMMA MaxIs ==
    ASSUME NEW S, IsFiniteSet(S), S \subseteq Int, NEW x \in S, \A y \in S : y <= x
    PROVE  Max(S) = x
<1>1. PICK m : m = Max(S)
  OBVIOUS
<1>2. m \in S /\ \A y \in S : y <= m
  BY <1>1, MaxMin
<1>3. m <= x /\ x <= m /\ m \in Int /\ x \in Int
  BY <1>2
<1>4. QED
  BY <1>1, <1>3

\* A set of positions in a sequence is finite and has a first one.
LEMMA Positions ==
    ASSUME NEW n \in Nat, NEW S \in SUBSET (1..n)
    PROVE  IsFiniteSet(S) /\ S \subseteq Int
<1>1. IsFiniteSet(1..n)
  BY FS_Interval
<1>2. IsFiniteSet(S)
  BY <1>1, FS_Subset
<1>3. S \subseteq Int
  OBVIOUS
<1>4. QED
  BY <1>2, <1>3

\* A set of positions that is not empty has a first one.
LEMMA FirstPosition ==
    ASSUME NEW n \in Nat, NEW S \in SUBSET (1..n), S # {}
    PROVE  \E x \in S : \A y \in S : x <= y
BY Positions, Extremes

\* What a function on a finite set takes on is finite.
LEMMA ImageFinite ==
    ASSUME NEW S, IsFiniteSet(S), NEW g, DOMAIN g = S, NEW T, T = {g[x] : x \in S}
    PROVE  IsFiniteSet(T) /\ Cardinality(T) <= Cardinality(S)
<1>1. PICK h : h = [x \in S |-> g[x]]
  OBVIOUS
<1>2. h \in [S -> T] /\ \A t \in T : \E x \in S : h[x] = t
  BY <1>1
<1>3. h \in Surjection(S, T)
  BY <1>2 DEF Surjection
<1>4. QED
  BY <1>3, FS_Surjection

\* A set of positions has no element, one, two, or at least three.
LEMMA FewPositions ==
    ASSUME NEW n \in Nat, NEW S \in SUBSET (1..n)
    PROVE  \/ S = {} /\ Cardinality(S) = 0
           \/ \E x \in S : S = {x}
           \/ \E x, y \in S : x < y /\ S = {x, y}
           \/ /\ Cardinality(S) \notin {1, 2}
              /\ \E x, y, z \in S : x < y /\ y < z
<1>1. IsFiniteSet(S)
  BY Positions
<1>2. CASE S = {}
  BY <1>2, FS_EmptySet
<1>3. CASE S # {}
  <2>1. PICK x \in S : \A y \in S : x <= y
    BY <1>3, FirstPosition
  <2>2. CASE S \ {x} = {}
    BY <2>1, <2>2
  <2>3. CASE S \ {x} # {}
    <3>1. S \ {x} \in SUBSET (1..n)
      OBVIOUS
    <3>2. PICK y \in S \ {x} : \A z \in S \ {x} : y <= z
      BY <2>3, <3>1, FirstPosition
    <3>3. x \in Int /\ y \in Int /\ x < y
      BY <2>1, <3>2
    <3>4. CASE (S \ {x}) \ {y} = {}
      <4>1. S = {x, y}
        <5>1. ASSUME NEW v \in S, v # x, v # y PROVE FALSE
          <6>1. v \in (S \ {x}) \ {y}
            BY <5>1
          <6>2. QED
            BY <3>4, <6>1
        <5>2. x \in S /\ y \in S
          BY <2>1, <3>2
        <5>3. QED
          BY <5>1, <5>2
      <4>2. QED
        BY <3>2, <3>3, <4>1
    <3>5. CASE (S \ {x}) \ {y} # {}
      <4>1. PICK z \in S : z # x /\ z # y
        <5>1. PICK z : z \in (S \ {x}) \ {y}
          BY <3>5
        <5>2. z \in S /\ z # x /\ z # y
          BY <5>1
        <5>3. QED
          BY <5>2
      <4>2. y <= z /\ z \in Int
        BY <3>2, <4>1
      <4>3. y < z
        BY <3>3, <4>1, <4>2
      <4>9. IsFiniteSet(S \ {x}) /\ Cardinality(S \ {x}) = Cardinality(S) - 1
        BY <1>1, <2>1, FS_RemoveElement
      <4>4. /\ Cardinality(S \ {x}) = Cardinality(S) - 1
            /\ IsFiniteSet((S \ {x}) \ {y})
            /\ Cardinality((S \ {x}) \ {y}) = Cardinality(S \ {x}) - 1
        <5>1. PICK T : T = S \ {x}
          OBVIOUS
        <5>2. IsFiniteSet(T) /\ y \in T
          BY <3>2, <4>9, <5>1
        <5>3. IsFiniteSet(T \ {y}) /\ Cardinality(T \ {y}) = Cardinality(T) - 1
          BY <5>2, FS_RemoveElement
        <5>4. QED
          BY <4>9, <5>1, <5>3
      <4>5. Cardinality((S \ {x}) \ {y}) # 0
        BY <3>5, <4>4, FS_EmptySet
      <4>6. Cardinality(S) \in Nat
        BY <1>1, FS_CardinalityType
      <4>7. Cardinality(S) \notin {1, 2}
        BY <4>4, <4>5, <4>6, FS_CardinalityType
      <4>8. QED
        BY <3>2, <3>3, <4>3, <4>7
    <3>6. QED
      BY <3>4, <3>5
  <2>4. QED
    BY <2>2, <2>3
<1>4. QED
  BY <1>2, <1>3

-----------------------------------------------------------------------------
(* What a sentence says *)

\* The fact that clause i states when it states one.
FactOf(source, i) ==
    LET c == source[i]
    IN CASE c.kind = "quantity" ->
              Fact(i, IF c.about = Width THEN "common" ELSE "quantity",
                   c.about, c.accepted, Strength(c))
         [] c.kind \in {"capability", "common"} ->
              Fact(i, c.kind, c.about, c.accepted, Strength(c))
         [] OTHER -> Fact(i, "capability", c.about, {YesBool}, "excluded")

\* The clauses that may state a fact: those that name an attribute, and a
\* noun or an adjective that is not wanted.
StatesFact(c) ==
    \/ c.kind \in {"quantity", "capability", "common"}
    \/ c.kind \in {"product", "look"} /\ c.suffix \in {"unwanted", "without"}

\* A fact is what its clause states, and the clause is not left to choice.
LEMMA NaturalFact ==
    ASSUME NEW source, NEW part, NEW f \in NaturalFacts(source, part)
    PROVE  /\ f.at \in part /\ f.at \notin Neutral(source)
           /\ f = FactOf(source, f.at) /\ StatesFact(source[f.at])
<1>1. CASE \E i \in part \ Neutral(source) :
             f \in IF ~ UncertainClause(source[i])
                   THEN ReadClause(source, i, Strength(source[i])) ELSE {}
  <2>1. PICK i \in part \ Neutral(source) : f \in ReadClause(source, i, Strength(source[i]))
    BY <1>1
  <2>2. f.at = i /\ f = FactOf(source, i) /\ StatesFact(source[i])
    BY <2>1 DEF ReadClause, FactOf, Fact, StatesFact
  <2>3. QED
    BY <2>1, <2>2
<1>2. CASE \E i \in part \ Neutral(source) :
             /\ source[i].kind \in {"product", "look"}
             /\ source[i].suffix \in {"unwanted", "without"}
             /\ f = Fact(i, "capability", source[i].about, {YesBool}, "excluded")
  <2>1. PICK i \in part \ Neutral(source) :
             /\ source[i].kind \in {"product", "look"}
             /\ source[i].suffix \in {"unwanted", "without"}
             /\ f = Fact(i, "capability", source[i].about, {YesBool}, "excluded")
    BY <1>2
  <2>2. f.at = i /\ f = FactOf(source, i) /\ StatesFact(source[i])
    BY <2>1 DEF FactOf, Fact, StatesFact
  <2>3. QED
    BY <2>1, <2>2
<1>3. QED
  BY <1>1, <1>2 DEF NaturalFacts

\* A fact has the strength of its words and the name its clause gives it.
LEMMA FactFields ==
    ASSUME NEW source, NEW i, StatesFact(source[i])
    PROVE  /\ FactOf(source, i).at = i
           /\ FactOf(source, i).label = source[i].about
           /\ FactOf(source, i).strength = Strength(source[i])
           /\ FactOf(source, i).kind \in {"quantity", "capability", "common"}
<1>1. CASE source[i].kind \in {"quantity", "capability", "common"}
  BY <1>1 DEF FactOf, Fact
<1>2. CASE /\ source[i].kind \in {"product", "look"}
           /\ source[i].suffix \in {"unwanted", "without"}
  <2>1. Strength(source[i]) = "excluded"
    BY <1>2 DEF Strength, Avoidances
  <2>2. QED
    BY <1>2, <2>1 DEF FactOf, Fact
<1>3. QED
  BY <1>1, <1>2 DEF StatesFact

\* A fact a query is built from is a fact of the sentence.
LEMMA QueryFact ==
    ASSUME NEW source, NEW rows, NEW f \in QueryFacts(source, rows)
    PROVE  /\ f.at \in DOMAIN source /\ f.at \notin Neutral(source)
           /\ f = FactOf(source, f.at) /\ StatesFact(source[f.at])
<1>1. CASE f \in NaturalFacts(source, DOMAIN source \ {r.at : r \in rows})
  BY <1>1, NaturalFact
<1>2. CASE f \in NaturalFacts(source, DOMAIN source)
  BY <1>2, NaturalFact
<1>3. QED
  BY <1>1, <1>2 DEF QueryFacts, AllFacts

\* A noun that may be the product is said without a word about its strength,
\* states no fact and is not a clause a picture is asked about.
LEMMA NounIsSilent ==
    ASSUME NEW source, NEW i \in ProductClauses(source), NEW parsed
    PROVE  /\ i \in DOMAIN source /\ i \notin Neutral(source)
           /\ source[i].kind = "product" /\ ~ StatesFact(source[i])
           /\ i \notin VisualClauses(source, parsed)
<1>1. /\ i \in DOMAIN source /\ i \notin Neutral(source)
      /\ source[i].kind = "product" /\ source[i].suffix = "none"
  BY DEF ProductClauses, Nouns, Pictured, Explicit
<1>2. i \notin VisualClauses(source, parsed)
  BY DEF ProductClauses, VisualClauses, AllFacts
<1>3. ~ StatesFact(source[i])
  BY <1>1 DEF StatesFact
<1>4. QED
  BY <1>1, <1>2, <1>3

\* ExplicitPrice of prices whose first and last clause are known.
ReadAs(source, blank, prices, first, last) ==
    CASE Cardinality(prices) = 1 ->
           IF source[first].about = "bare" THEN NoPrice ELSE source[first].accepted
      [] Cardinality(prices) = 2 ->
           IF /\ source[first].about = "least" /\ source[last].about = "most"
              /\ (first + 1)..(last - 1) \subseteq blank
             THEN source[first].accepted \cap source[last].accepted ELSE NoPrice
      [] OTHER -> NoPrice

\* Where nothing but one clause names a price, that clause is what is read.
LEMMA OnePrice ==
    ASSUME NEW source, NEW blank, NEW x,
           {i \in DOMAIN source \ blank : source[i].kind = "price"} = {x}, x \in Int
    PROVE  ExplicitPrice(source, blank)
             = IF source[x].about = "bare" THEN NoPrice ELSE source[x].accepted
<1>1. PICK said : said = {i \in DOMAIN source \ blank : source[i].kind = "price"}
  OBVIOUS
<1>2. said = {x} /\ Cardinality(said) = 1
  BY <1>1, FS_Singleton
<1>3. (CHOOSE i \in said : \A j \in said : i <= j) = x
  BY <1>2
<1>4. QED
  BY <1>1, <1>2, <1>3 DEF ExplicitPrice

\* Of two clauses the first one is read as the lower bound and the second as
\* the upper one.
LEMMA TwoPrices ==
    ASSUME NEW source, NEW blank, NEW x \in Int, NEW y \in Int, x < y,
           {i \in DOMAIN source \ blank : source[i].kind = "price"} = {x, y}
    PROVE  ExplicitPrice(source, blank)
             = IF /\ source[x].about = "least" /\ source[y].about = "most"
                  /\ (x + 1)..(y - 1) \subseteq blank
               THEN source[x].accepted \cap source[y].accepted ELSE NoPrice
<1>1. PICK said : said = {i \in DOMAIN source \ blank : source[i].kind = "price"}
  OBVIOUS
<1>2. said = {x, y}
  BY <1>1
<1>3. Cardinality(said) = 2
  <2>1. said = {x} \cup {y} /\ y \notin {x}
    BY <1>2
  <2>2. IsFiniteSet({x}) /\ Cardinality({x}) = 1
    BY FS_Singleton
  <2>3. Cardinality({x} \cup {y}) = 1 + 1
    BY <2>1, <2>2, FS_AddElement
  <2>4. QED
    BY <2>1, <2>3
<1>4. (CHOOSE i \in said : \A j \in said : i <= j) = x
  BY <1>2
<1>5. (CHOOSE i \in said : \A j \in said : i >= j) = y
  BY <1>2
<1>6. ExplicitPrice(source, blank)
        = ReadAs(source, blank, said, CHOOSE i \in said : \A j \in said : i <= j,
                 CHOOSE i \in said : \A j \in said : i >= j)
  BY <1>1 DEF ExplicitPrice, ReadAs
<1>7. ExplicitPrice(source, blank) = ReadAs(source, blank, said, x, y)
  BY <1>4, <1>5, <1>6
<1>8. QED
  BY <1>3, <1>7 DEF ReadAs

\* More than two clauses are no price, and none is none.
LEMMA OtherPrices ==
    ASSUME NEW source, NEW blank,
           Cardinality({i \in DOMAIN source \ blank : source[i].kind = "price"}) \notin {1, 2}
    PROVE  ExplicitPrice(source, blank) = NoPrice
BY DEF ExplicitPrice

\* The prices of a sentence are read exactly when none of them gets lost, as
\* the amounts all of them allow.
LEMMA PriceRead ==
    ASSUME NEW source, DOMAIN source = 1..Len(source), Len(source) \in Nat,
           NEW blank, NEW said,
           said = {i \in DOMAIN source \ blank : source[i].kind = "price"}
    PROVE  IF said = {} \/ PriceLost(source, said, blank)
           THEN ExplicitPrice(source, blank) = NoPrice
           ELSE /\ ExplicitPrice(source, blank) # NoPrice
                /\ ExplicitPrice(source, blank) = AllowedAmounts(source, said)
<1>1. said \in SUBSET (1..Len(source))
  OBVIOUS
<1>2. CASE said = {}
  <2>1. Cardinality(said) = 0
    BY <1>2, FS_EmptySet
  <2>2. QED
    BY <1>2, <2>1, OtherPrices
<1>3. ASSUME NEW x \in said, said = {x}
      PROVE  IF PriceLost(source, said, blank)
             THEN ExplicitPrice(source, blank) = NoPrice
             ELSE /\ ExplicitPrice(source, blank) # NoPrice
                  /\ ExplicitPrice(source, blank) = AllowedAmounts(source, said)
  <2>1. x \in Int
    BY <1>1, <1>3
  <2>2. ExplicitPrice(source, blank)
          = IF source[x].about = "bare" THEN NoPrice ELSE source[x].accepted
    BY <1>3, <2>1, OnePrice
  <2>3. AllowedAmounts(source, said) = source[x].accepted
    <3>1. UNION {source[i].accepted : i \in said} = source[x].accepted
      BY <1>3
    <3>2. QED
      BY <1>3, <3>1 DEF AllowedAmounts
  <2>4. PriceLost(source, said, blank)
          <=> source[x].about = "bare" \/ source[x].accepted = {}
    <3>1. ~ \E i, j \in said : i < j
      BY <1>3, <2>1
    <3>2. (\E i \in said : source[i].about = "bare") <=> source[x].about = "bare"
      BY <1>3
    <3>3. QED
      BY <2>3, <3>1, <3>2 DEF PriceLost
  <2>5. QED
    BY <2>2, <2>3, <2>4 DEF NoPrice
<1>4. ASSUME NEW x \in said, NEW y \in said, x < y, said = {x, y}
      PROVE  IF PriceLost(source, said, blank)
             THEN ExplicitPrice(source, blank) = NoPrice
             ELSE /\ ExplicitPrice(source, blank) # NoPrice
                  /\ ExplicitPrice(source, blank) = AllowedAmounts(source, said)
  <2>1. x \in Int /\ y \in Int
    BY <1>1
  <2>2. ExplicitPrice(source, blank)
          = IF /\ source[x].about = "least" /\ source[y].about = "most"
               /\ (x + 1)..(y - 1) \subseteq blank
            THEN source[x].accepted \cap source[y].accepted ELSE NoPrice
    BY <1>4, <2>1, TwoPrices
  <2>3. AllowedAmounts(source, said) = source[x].accepted \cap source[y].accepted
    <3>1. \A v : v \in AllowedAmounts(source, said)
                   <=> v \in source[x].accepted /\ v \in source[y].accepted
      BY <1>4 DEF AllowedAmounts
    <3>2. QED
      BY <3>1
  <2>5. PriceLost(source, said, blank)
          <=> ~ (/\ source[x].about = "least" /\ source[y].about = "most"
                 /\ (x + 1)..(y - 1) \subseteq blank)
                \/ source[x].accepted \cap source[y].accepted = {}
    <3>1. (\E i, j \in said :
              /\ i < j
              /\ ~ (/\ source[i].about = "least" /\ source[j].about = "most"
                    /\ (i + 1)..(j - 1) \subseteq blank))
            <=> ~ (/\ source[x].about = "least" /\ source[y].about = "most"
                   /\ (x + 1)..(y - 1) \subseteq blank)
      <4>1. \A i, j \in said : i < j => i = x /\ j = y
        BY <1>4, <2>1
      <4>2. QED
        BY <1>4, <4>1
    <3>2. (\E i \in said : source[i].about = "bare")
            <=> source[x].about = "bare" \/ source[y].about = "bare"
      BY <1>4
    <3>3. QED
      BY <2>3, <3>1, <3>2 DEF PriceLost
  <2>6. QED
    BY <2>2, <2>3, <2>5 DEF NoPrice
<1>5. ASSUME NEW x \in said, NEW y \in said, NEW z \in said, x < y, y < z,
             Cardinality(said) \notin {1, 2}
      PROVE  PriceLost(source, said, blank) /\ ExplicitPrice(source, blank) = NoPrice
  <2>1. ExplicitPrice(source, blank) = NoPrice
    BY <1>5, OtherPrices
  <2>2. source[y].about # "most" \/ source[y].about # "least"
    OBVIOUS
  <2>3. PriceLost(source, said, blank)
    BY <1>5, <2>2 DEF PriceLost
  <2>4. QED
    BY <2>1, <2>3
<1>6. QED
  BY <1>1, <1>2, <1>3, <1>4, <1>5, FewPositions

\* The price the sentence states is that of its first price clause.
LEMMA PriceIsSaid ==
    ASSUME NEW source, DOMAIN source = 1..Len(source), Len(source) \in Nat,
           ExplicitPrice(source, Neutral(source)) # NoPrice
    PROVE  \E first \in Prices(source) : \A j \in Prices(source) : first <= j
<1>1. PICK prices : prices = {i \in DOMAIN source \ Neutral(source) :
                                source[i].kind = "price"}
  OBVIOUS
<1>2. prices = Prices(source)
  BY <1>1 DEF Prices
<1>3. Cardinality(prices) \in {1, 2}
  BY <1>1 DEF ExplicitPrice
<1>4. prices # {}
  BY <1>3, FS_EmptySet
<1>5. prices \in SUBSET (1..Len(source))
  BY <1>1
<1>6. \E x \in prices : \A y \in prices : x <= y
  BY <1>4, <1>5, FirstPosition
<1>7. QED
  BY <1>2, <1>6

\* The clauses no condition is about: neither the price nor left to choice.
SilentIn(source, all) ==
    {i \in DOMAIN source : /\ {k \in all : k.at = i} = {}
                           /\ source[i].kind # "price"
                           /\ Strength(source[i]) # "neutral"}

\* What PriceFollows says of a plan, for any conditions.
PriceCovers(source, all) ==
    LET said == Prices(source)
        kept == {k \in all : k.kind = "price"}
    IN IF said = {} \/ PriceLost(source, said, Neutral(source)) THEN kept = {}
       ELSE /\ kept # {}
            /\ \A k \in kept : /\ k.accepted = AllowedAmounts(source, said)
                               /\ \A i \in said : k.strength = Strength(source[i])

\* What CandidateFollows says of a plan, for any conditions.
Covers(source, all, parsed) ==
    /\ \A i \in DOMAIN source, k \in all : k.at = i => k.strength = Strength(source[i])
    /\ \A k \in all : k.at \in DOMAIN source
    /\ Cardinality(SilentIn(source, all)) = 1
    /\ SilentIn(source, all) \subseteq ProductClauses(source) \/ ~ parsed
    /\ PriceCovers(source, all)

\* The rows a picture is asked about: clauses of the sentence that are no
\* noun, with the strength of their words.
RowsFit(source, parsed, rows) ==
    \A r \in rows : r.at \in VisualClauses(source, parsed)
                      /\ r.strength = Strength(source[r.at])

\* The conditions Build makes of the sentence and the rows.
Built(source, rows) ==
    CandidateConditions(source, rows) \cup {VisualRequirement(r) : r \in rows}

\* A condition about a clause has the strength of the words of that clause.
LEMMA BuiltStrength ==
    ASSUME NEW source, DOMAIN source = 1..Len(source), Len(source) \in Nat,
           NEW parsed, NEW rows, RowsFit(source, parsed, rows),
           NEW k \in Built(source, rows)
    PROVE  k.at \in DOMAIN source /\ k.strength = Strength(source[k.at])
<1>1. CASE \E f \in QueryFacts(source, rows) : k = Requirement(f)
  <2>1. PICK f \in QueryFacts(source, rows) : k = Requirement(f)
    BY <1>1
  <2>2. k.at = f.at /\ k.strength = f.strength
    BY <2>1 DEF Requirement
  <2>3. /\ f.at \in DOMAIN source /\ f = FactOf(source, f.at)
        /\ StatesFact(source[f.at])
    BY QueryFact
  <2>4. f.strength = Strength(source[f.at])
    BY <2>3, FactFields
  <2>5. QED
    BY <2>2, <2>3, <2>4
<1>2. CASE \E r \in rows : k = VisualRequirement(r)
  BY <1>2 DEF VisualRequirement, RowsFit, VisualClauses
<1>3. ASSUME NEW accepted, ExplicitPrice(source, Neutral(source)) # NoPrice,
             k = PriceRequirement(CHOOSE i \in Prices(source) :
                                      \A j \in Prices(source) : i <= j,
                     Strength(source[CHOOSE i \in Prices(source) :
                                         \A j \in Prices(source) : i <= j]), accepted)
      PROVE  k.at \in DOMAIN source /\ k.strength = Strength(source[k.at])
  <2>1. PICK first : first = CHOOSE i \in Prices(source) :
                                 \A j \in Prices(source) : i <= j
    OBVIOUS
  <2>2. first \in Prices(source)
    BY <1>3, <2>1, PriceIsSaid
  <2>3. k.at = first /\ k.strength = Strength(source[first])
    BY <1>3, <2>1 DEF PriceRequirement
  <2>4. QED
    BY <2>2, <2>3 DEF Prices
<1>4. QED
  BY <1>1, <1>2, <1>3 DEF Built, CandidateConditions

\* The prices of a plan are said in one strength.
LEMMA OneStrength ==
    ASSUME NEW source, NEW n \in Nat, NEW said \in SUBSET (1..n),
           Cardinality({Strength(source[i]) : i \in said}) <= 1,
           NEW i \in said, NEW j \in said
    PROVE  Strength(source[i]) = Strength(source[j])
<1>1. PICK T : T = {Strength(source[k]) : k \in said}
  OBVIOUS
<1>2. PICK a, b : a = Strength(source[i]) /\ b = Strength(source[j])
  OBVIOUS
<1>3. a \in T /\ b \in T /\ IsFiniteSet(T)
  <2>1. IsFiniteSet(said)
    BY Positions
  <2>2. PICK f : f = [k \in said |-> Strength(source[k])]
    OBVIOUS
  <2>3. DOMAIN f = said /\ T = {f[k] : k \in said}
    BY <1>1, <2>2
  <2>4. IsFiniteSet(T)
    BY <2>1, <2>3, ImageFinite
  <2>5. QED
    BY <1>1, <1>2, <2>4
<1>4. ASSUME a # b PROVE FALSE
  <2>1. Cardinality({a, b}) = 2
    <3>1. IsFiniteSet({a}) /\ Cardinality({a}) = 1 /\ b \notin {a}
      BY <1>4, FS_Singleton
    <3>2. Cardinality({a} \cup {b}) = 1 + 1
      BY <3>1, FS_AddElement
    <3>3. {a} \cup {b} = {a, b}
      OBVIOUS
    <3>4. QED
      BY <3>2, <3>3
  <2>2. Cardinality({a, b}) <= Cardinality(T)
    BY <1>3, FS_Subset
  <2>3. Cardinality(T) <= 1 /\ Cardinality(T) \in Nat
    BY <1>1, <1>3, FS_CardinalityType
  <2>4. QED
    BY <2>1, <2>2, <2>3
<1>5. QED
  BY <1>2, <1>4

\* A plan has the price of its sentence, or none.
LEMMA BuiltPrices ==
    ASSUME NEW source, DOMAIN source = 1..Len(source), Len(source) \in Nat,
           NEW parsed, NEW rows, QueriesBuilt(source, parsed, rows)
    PROVE  PriceCovers(source, Built(source, rows))
<1>1. PICK said, price : said = Prices(source) /\ price = ExplicitPrice(source, Neutral(source))
  OBVIOUS
<1>2. said = {i \in DOMAIN source \ Neutral(source) : source[i].kind = "price"}
  BY <1>1 DEF Prices
<1>3. IF said = {} \/ PriceLost(source, said, Neutral(source)) THEN price = NoPrice
      ELSE price # NoPrice /\ price = AllowedAmounts(source, said)
  BY <1>1, <1>2, PriceRead
<1>4. PICK kept : kept = {k \in Built(source, rows) : k.kind = "price"}
  OBVIOUS
<1>5. /\ \A f \in QueryFacts(source, rows) : Requirement(f).kind # "price"
      /\ \A r \in rows : VisualRequirement(r).kind # "price"
  BY DEF Requirement, VisualRequirement
<1>6. CASE price = NoPrice
  <2>1. Built(source, rows) = {Requirement(f) : f \in QueryFacts(source, rows)}
                                \cup {VisualRequirement(r) : r \in rows}
    BY <1>1, <1>6 DEF Built, CandidateConditions
  <2>2. kept = {}
    BY <1>4, <1>5, <2>1
  <2>3. QED
    BY <1>1, <1>3, <1>4, <1>6, <2>2 DEF PriceCovers
<1>7. CASE price # NoPrice
  <2>1. PICK first : first = CHOOSE i \in said : \A j \in said : i <= j
    OBVIOUS
  <2>2. first \in said
    BY <1>1, <1>7, <2>1, PriceIsSaid
  <2>3. PICK p : p = PriceRequirement(first, Strength(source[first]), price)
    OBVIOUS
  <2>4. Built(source, rows) = {Requirement(f) : f \in QueryFacts(source, rows)}
                                \cup {p} \cup {VisualRequirement(r) : r \in rows}
    BY <1>1, <1>7, <2>1, <2>3 DEF Built, CandidateConditions
  <2>5. p.kind = "price" /\ p.accepted = price /\ p.strength = Strength(source[first])
    BY <2>3 DEF PriceRequirement
  <2>6. kept = {p}
    BY <1>4, <1>5, <2>4, <2>5
  <2>7. \A i \in said : Strength(source[first]) = Strength(source[i])
    <3>1. said \in SUBSET (1..Len(source))
      BY <1>2
    <3>2. Cardinality({Strength(source[i]) : i \in said}) <= 1
      BY <1>1 DEF QueriesBuilt
    <3>3. QED
      BY <2>2, <3>1, <3>2, OneStrength
  <2>8. said # {} /\ ~ PriceLost(source, said, Neutral(source))
          /\ price = AllowedAmounts(source, said)
    BY <1>3, <1>7
  <2>9. QED
    BY <1>1, <1>4, <2>5, <2>6, <2>7, <2>8 DEF PriceCovers
<1>8. QED
  BY <1>6, <1>7

\* The clauses no condition of the plan is about are those nothing consumed,
\* and the noun the parser found.
LEMMA BuiltSilent ==
    ASSUME NEW source, DOMAIN source = 1..Len(source), Len(source) \in Nat,
           NEW parsed \in BOOLEAN, NEW rows, RowsFit(source, parsed, rows)
    PROVE  SilentIn(source, Built(source, rows))
             = Leftover(source, parsed, rows)
                 \cup (IF parsed THEN ProductClauses(source) ELSE {})
<1>1. PICK heard : heard = {r.at : r \in rows} \cup {f.at : f \in QueryFacts(source, rows)}
  OBVIOUS
<1>2. \A i : i \in heard => \E k \in Built(source, rows) : k.at = i
  <2>1. ASSUME NEW r \in rows PROVE \E k \in Built(source, rows) : k.at = r.at
    <3>1. VisualRequirement(r) \in Built(source, rows)
      BY DEF Built
    <3>2. VisualRequirement(r).at = r.at
      BY DEF VisualRequirement
    <3>3. QED
      BY <3>1, <3>2
  <2>2. ASSUME NEW f \in QueryFacts(source, rows)
        PROVE  \E k \in Built(source, rows) : k.at = f.at
    <3>1. Requirement(f) \in Built(source, rows)
      BY DEF Built, CandidateConditions
    <3>2. Requirement(f).at = f.at
      BY DEF Requirement
    <3>3. QED
      BY <3>1, <3>2
  <2>3. QED
    BY <1>1, <2>1, <2>2
<1>3. ASSUME NEW k \in Built(source, rows)
      PROVE  k.at \in heard \/ (k.at \in DOMAIN source /\ source[k.at].kind = "price")
  <2>1. CASE \E f \in QueryFacts(source, rows) : k = Requirement(f)
    BY <1>1, <2>1 DEF Requirement
  <2>2. CASE \E r \in rows : k = VisualRequirement(r)
    BY <1>1, <2>2 DEF VisualRequirement
  <2>3. ASSUME NEW accepted, NEW strength,
               ExplicitPrice(source, Neutral(source)) # NoPrice,
               k = PriceRequirement(CHOOSE i \in Prices(source) :
                                        \A j \in Prices(source) : i <= j,
                                    strength, accepted)
        PROVE  k.at \in DOMAIN source /\ source[k.at].kind = "price"
    <3>1. PICK first : first = CHOOSE i \in Prices(source) :
                                   \A j \in Prices(source) : i <= j
      OBVIOUS
    <3>2. first \in Prices(source)
      BY <2>3, <3>1, PriceIsSaid
    <3>3. k.at = first
      BY <2>3, <3>1 DEF PriceRequirement
    <3>4. QED
      BY <3>2, <3>3 DEF Prices
  <2>4. QED
    BY <2>1, <2>2, <2>3 DEF Built, CandidateConditions
<1>4. \A i \in DOMAIN source :
         i \in SilentIn(source, Built(source, rows))
           <=> i \notin heard /\ i \notin Neutral(source) /\ i \notin Prices(source)
  BY <1>2, <1>3 DEF SilentIn, Neutral, Prices
<1>5. \A i \in ProductClauses(source) :
         /\ i \in DOMAIN source /\ i \notin heard
         /\ i \notin Neutral(source) /\ i \notin Prices(source)
  <2>1. ASSUME NEW i \in ProductClauses(source) PROVE i \notin heard
    <3>1. ~ StatesFact(source[i]) /\ i \notin VisualClauses(source, parsed)
      BY NounIsSilent
    <3>2. \A r \in rows : r.at # i
      BY <3>1 DEF RowsFit
    <3>3. \A f \in QueryFacts(source, rows) : f.at # i
      BY <3>1, QueryFact
    <3>4. QED
      BY <1>1, <3>2, <3>3
  <2>2. ASSUME NEW i \in ProductClauses(source)
        PROVE  i \in DOMAIN source /\ i \notin Neutral(source) /\ i \notin Prices(source)
    BY NounIsSilent DEF Prices
  <2>3. QED
    BY <2>1, <2>2
<1>6. SilentIn(source, Built(source, rows)) \subseteq DOMAIN source
  BY DEF SilentIn
<1>7. Leftover(source, parsed, rows)
        = DOMAIN source \ (heard \cup Neutral(source) \cup Prices(source)
                             \cup (IF parsed THEN ProductClauses(source) ELSE {}))
  BY <1>1 DEF Leftover
<1>8. QED
  BY <1>4, <1>5, <1>6, <1>7

\* The plan of the candidate route says what the sentence says.
LEMMA BuiltCovers ==
    ASSUME NEW source, DOMAIN source = 1..Len(source), Len(source) \in Nat,
           NEW parsed \in BOOLEAN, NEW rows, RowsFit(source, parsed, rows),
           QueriesBuilt(source, parsed, rows),
           parsed => Cardinality(ProductClauses(source)) = 1
    PROVE  Covers(source, Built(source, rows), parsed)
<1>0. SilentIn(source, Built(source, rows))
        = Leftover(source, parsed, rows)
            \cup (IF parsed THEN ProductClauses(source) ELSE {})
  BY BuiltSilent
<1>1. Cardinality(Leftover(source, parsed, rows)) = (IF parsed THEN 0 ELSE 1)
  BY DEF QueriesBuilt
<1>2. CASE ~ parsed
  <2>1. SilentIn(source, Built(source, rows)) = Leftover(source, parsed, rows)
    BY <1>0, <1>2
  <2>2. QED
    BY <1>1, <1>2, <2>1, BuiltStrength, BuiltPrices DEF Covers
<1>3. CASE parsed
  <2>1. IsFiniteSet(Leftover(source, parsed, rows))
    <3>1. IsFiniteSet(1..Len(source))
      BY FS_Interval
    <3>2. Leftover(source, parsed, rows) \subseteq 1..Len(source)
      BY DEF Leftover
    <3>3. QED
      BY <3>1, <3>2, FS_Subset
  <2>2. Leftover(source, parsed, rows) = {}
    BY <1>1, <1>3, <2>1, FS_EmptySet
  <2>3. SilentIn(source, Built(source, rows)) = ProductClauses(source)
    BY <1>0, <1>3, <2>2
  <2>4. QED
    BY <1>3, <2>3, BuiltStrength, BuiltPrices DEF Covers
<1>4. QED
  BY <1>2, <1>3

-----------------------------------------------------------------------------
(* What the language model makes of a sentence *)

\* The older reader gives a quantity and a capability it knows the strength
\* their words have.
LEMMA LegacyReads ==
    ASSUME NEW c, LegacyRead(c)
    PROVE  LegacyStrength(c) = Strength(c)
BY DEF LegacyRead, LegacySuffixes, LegacyStrength, Strength, Avoidances, Prefers

\* Where the older reader is certain, it states every quantity.
LEMMA LegacyQuantity ==
    ASSUME NEW source, ~ LegacyUncertain(source), NEW i \in DOMAIN source,
           source[i].kind = "quantity", source[i].form # "strict"
    PROVE  Fact(i, IF source[i].about = Width THEN "common" ELSE "quantity",
                source[i].about, source[i].accepted, Strength(source[i]))
             \in LegacyFacts(source)
<1>1. /\ LegacyRead(source[i]) /\ ~ UncertainClause(source[i])
      /\ source[i].form # "choice"
  BY DEF LegacyUncertain
<1>2. LegacyStrength(source[i]) = Strength(source[i])
  BY <1>1, LegacyReads
<1>3. Fact(i, IF source[i].about = Width THEN "common" ELSE "quantity",
           source[i].about, source[i].accepted, Strength(source[i]))
        \in ReadClause(source, i, LegacyStrength(source[i]))
  BY <1>2 DEF ReadClause
<1>4. QED
  BY <1>1, <1>3 DEF LegacyFacts

\* ... and every capability said in a way it knows.
LEMMA LegacyCapability ==
    ASSUME NEW source, ~ LegacyUncertain(source), NEW i \in DOMAIN source,
           source[i].kind = "capability", LegacyRead(source[i])
    PROVE  Fact(i, "capability", source[i].about, source[i].accepted,
                Strength(source[i])) \in LegacyFacts(source)
<1>1. ~ UncertainClause(source[i]) /\ source[i].form # "choice"
  BY DEF LegacyUncertain, UncertainClause
<1>2. LegacyStrength(source[i]) = Strength(source[i])
  BY LegacyReads
<1>3. Fact(i, "capability", source[i].about, source[i].accepted, Strength(source[i]))
        \in ReadClause(source, i, LegacyStrength(source[i]))
  BY <1>2 DEF ReadClause
<1>4. QED
  BY <1>1, <1>3 DEF LegacyFacts

\* ... and every attribute of the registry, where it is said first.
LEMMA LegacyCommon ==
    ASSUME NEW source, NEW i \in DOMAIN source, source[i].kind = "common",
           LegacyRead(source[i]), FirstSaid(source, i)
    PROVE  Fact(i, "common", source[i].about, source[i].accepted,
                Strength(source[i])) \in LegacyFacts(source)
<1>1. LegacyStrength(source[i]) = Strength(source[i])
  BY LegacyReads
<1>2. Fact(i, "common", source[i].about, source[i].accepted, Strength(source[i]))
        \in ReadClause(source, i, LegacyStrength(source[i]))
  BY <1>1 DEF ReadClause
<1>3. QED
  BY <1>2 DEF LegacyFacts

\* What the older reader reads stands in its clause.
LEMMA LegacyFact ==
    ASSUME NEW source, NEW f \in LegacyFacts(source)
    PROVE  /\ f.at \in DOMAIN source
           /\ f.label = source[f.at].about /\ f.accepted = source[f.at].accepted
           /\ source[f.at].kind = "quantity" => source[f.at].form # "strict"
<1>1. PICK i \in DOMAIN source :
          f \in ReadClause(source, i, LegacyStrength(source[i]))
  BY DEF LegacyFacts
<1>2. QED
  BY <1>1 DEF ReadClause, Fact

\* The first clause that says a value of the registry.
LEMMA FirstWord ==
    ASSUME NEW source, DOMAIN source = 1..Len(source), Len(source) \in Nat,
           NEW label, NEW accepted, WordOf(source, label, accepted) # {}
    PROVE  (CHOOSE i \in WordOf(source, label, accepted) :
               \A j \in WordOf(source, label, accepted) : i <= j)
             \in WordOf(source, label, accepted)
<1>1. PICK S : S = WordOf(source, label, accepted)
  OBVIOUS
<1>2. S \in SUBSET (1..Len(source)) /\ S # {}
  BY <1>1 DEF WordOf
<1>3. \E x \in S : \A y \in S : x <= y
  BY <1>2, FirstPosition
<1>4. (CHOOSE i \in S : \A j \in S : i <= j) \in S
  BY <1>3
<1>5. QED
  BY <1>1, <1>4

\* A claim that stands in the sentence: it has the values or the name of its
\* clause, which is no quantity with a bound that is not included.
InSentence(source, k) ==
    /\ k.at \in DOMAIN source
    /\ k.accepted = source[k.at].accepted \/ k.label = source[k.at].about
    /\ source[k.at].kind = "quantity" => source[k.at].form # "strict"

\* Every claim that is kept or added stands in the sentence.
LEMMA ClaimInSentence ==
    ASSUME NEW source, DOMAIN source = 1..Len(source), Len(source) \in Nat,
           NEW reply, NEW k \in WithMaterials(source, reply),
           ~ CustomInvalid(source, reply.claims)
    PROVE  InSentence(source, k)
<1>1. CASE k \in Grounded(source, reply.claims)
  <2>1. CASE k.kind = "common" /\ Registered(source, k)
    BY <2>1 DEF Registered, WordOf, InSentence
  <2>2. CASE \E f \in LegacyFacts(source) : Claim(f, TRUE) = k
    <3>1. PICK f \in LegacyFacts(source) : Claim(f, TRUE) = k
      BY <2>2
    <3>2. k.at = f.at /\ k.label = f.label /\ k.accepted = f.accepted
      BY <3>1 DEF Claim
    <3>3. QED
      BY <3>2, LegacyFact DEF InSentence
  <2>3. CASE CustomGrounded(source, k)
    BY <2>3 DEF CustomGrounded, InSentence
  <2>4. QED
    BY <1>1, <2>1, <2>2, <2>3 DEF Grounded
<1>2. ASSUME NEW t \in MaterialTerms(source, reply), NEW first,
             first = CHOOSE i \in WordOf(source, Material, t.accepted) :
                         \A j \in WordOf(source, Material, t.accepted) : i <= j,
             k = Claim(Fact(first, "common", Material, t.accepted, t.strength), FALSE)
      PROVE  InSentence(source, k)
  <2>1. WordOf(source, Material, t.accepted) # {}
    BY <1>2 DEF MaterialTerms, Unwanted, WordOf
  <2>2. first \in WordOf(source, Material, t.accepted)
    BY <1>2, <2>1, FirstWord
  <2>3. k.at = first /\ k.label = Material /\ k.accepted = t.accepted
    BY <1>2 DEF Claim, Fact
  <2>4. QED
    BY <2>2, <2>3 DEF InSentence, WordOf
<1>3. QED
  BY <1>1, <1>2 DEF WithMaterials

\* What IntentFollows says of the conditions of a plan.
IntentCovers(source, conditions) ==
    /\ \A i \in DOMAIN source :
         LET c == source[i]
         IN \/ c.kind = "quantity"
            \/ c.kind = "capability" /\ LegacyRead(c)
            \/ c.kind = "common" /\ LegacyRead(c) /\ FirstSaid(source, i)
            => \E k \in conditions : /\ k.at = i /\ k.label = c.about
                                     /\ k.accepted = c.accepted /\ k.strength = Strength(c)
    /\ \A k \in conditions : InSentence(source, k)

\* The condition a plan makes of a claim.
Wanted(k) ==
    [id |-> <<k.at, k.kind, k.label, k.accepted, k.strength, k.whole>>,
     strength |-> k.strength, accepted |-> k.accepted, at |-> k.at, label |-> k.label,
     kind |-> IF k.kind = "common" THEN "common" ELSE "labelled"]

\* A condition keeps what its claim says.
LEMMA WantedFields ==
    \A k : /\ Wanted(k).at = k.at /\ Wanted(k).label = k.label
           /\ Wanted(k).accepted = k.accepted /\ Wanted(k).strength = k.strength
BY DEF Wanted

\* The conditions of a reply are its claims, the materials among them.
LEMMA WantedClaims ==
    ASSUME NEW source, NEW reply
    PROVE  IntentConditions(source, reply) = {Wanted(k) : k \in WithMaterials(source, reply)}
BY DEF IntentConditions, Wanted

\* A reply that is not held back says what the older reader is certain of.
LEMMA ReplyCovers ==
    ASSUME NEW source, DOMAIN source = 1..Len(source), Len(source) \in Nat,
           NEW reply, FollowsFacts(source, reply), ~ Blocking(source, reply)
    PROVE  IntentCovers(source, IntentConditions(source, reply))
<1>1. PICK claims : claims = WithMaterials(source, reply)
  OBVIOUS
<1>2. /\ reply.kind \notin {"asks", "names"} /\ ~ MissingQuantity(source, claims)
      /\ ~ CustomInvalid(source, reply.claims)
  BY <1>1 DEF Blocking
<1>3. \A k \in claims : \E c \in IntentConditions(source, reply) :
         /\ c.at = k.at /\ c.label = k.label
         /\ c.accepted = k.accepted /\ c.strength = k.strength
  BY <1>1, WantedClaims, WantedFields
<1>4. \A c \in IntentConditions(source, reply) : \E k \in claims :
         c.at = k.at /\ c.label = k.label /\ c.accepted = k.accepted
  BY <1>1, WantedClaims, WantedFields
<1>5. \A k \in claims : InSentence(source, k)
  BY <1>1, <1>2, ClaimInSentence
<1>6. ~ LegacyUncertain(source)
  BY <1>2 DEF FollowsFacts
<1>7. LegacyFacts(source) = {} \/ reply.claims = {Claim(f, TRUE) : f \in LegacyFacts(source)}
  BY <1>2 DEF FollowsFacts
<1>8. ASSUME NEW f \in LegacyFacts(source),
             f.kind = "common" => \/ f.label = Width
                                  \/ f.at \in WordOf(source, f.label, f.accepted)
      PROVE  \E c \in IntentConditions(source, reply) :
                /\ c.at = f.at /\ c.label = f.label
                /\ c.accepted = f.accepted /\ c.strength = f.strength
  <2>1. PICK k : k = Claim(f, TRUE)
    OBVIOUS
  <2>2. /\ k.at = f.at /\ k.label = f.label /\ k.kind = f.kind
        /\ k.accepted = f.accepted /\ k.strength = f.strength
    BY <2>1 DEF Claim
  <2>3. k \in reply.claims
    BY <1>7, <2>1
  <2>4. k \in Grounded(source, reply.claims)
    BY <1>2, <1>8, <2>1, <2>2, <2>3 DEF Grounded, CustomInvalid, Registered
  <2>5. k \in claims
    BY <1>1, <2>4 DEF WithMaterials
  <2>6. QED
    BY <1>3, <2>2, <2>5
<1>9. ASSUME NEW i \in DOMAIN source, source[i].kind = "quantity"
      PROVE  \E c \in IntentConditions(source, reply) :
                /\ c.at = i /\ c.label = source[i].about
                /\ c.accepted = source[i].accepted /\ c.strength = Strength(source[i])
  <2>1. PICK k \in claims : k.at = i
    BY <1>2, <1>9 DEF MissingQuantity
  <2>2. source[i].form # "strict"
    BY <1>5, <1>9, <2>1 DEF InSentence
  <2>3. PICK f : f = Fact(i, IF source[i].about = Width THEN "common" ELSE "quantity",
                          source[i].about, source[i].accepted, Strength(source[i]))
    OBVIOUS
  <2>4. f \in LegacyFacts(source)
    BY <1>6, <1>9, <2>2, <2>3, LegacyQuantity
  <2>5. /\ f.at = i /\ f.label = source[i].about /\ f.accepted = source[i].accepted
        /\ f.strength = Strength(source[i]) /\ (f.kind = "common" => f.label = Width)
    BY <2>3 DEF Fact
  <2>6. QED
    BY <1>8, <2>4, <2>5
<1>10. ASSUME NEW i \in DOMAIN source, source[i].kind = "capability", LegacyRead(source[i])
       PROVE  \E c \in IntentConditions(source, reply) :
                /\ c.at = i /\ c.label = source[i].about
                /\ c.accepted = source[i].accepted /\ c.strength = Strength(source[i])
  <2>1. PICK f : f = Fact(i, "capability", source[i].about, source[i].accepted,
                          Strength(source[i]))
    OBVIOUS
  <2>2. f \in LegacyFacts(source)
    BY <1>6, <1>10, <2>1, LegacyCapability
  <2>3. /\ f.at = i /\ f.label = source[i].about /\ f.accepted = source[i].accepted
        /\ f.strength = Strength(source[i]) /\ f.kind # "common"
    BY <2>1 DEF Fact
  <2>4. QED
    BY <1>8, <2>2, <2>3
<1>11. ASSUME NEW i \in DOMAIN source, source[i].kind = "common", LegacyRead(source[i]),
              FirstSaid(source, i)
       PROVE  \E c \in IntentConditions(source, reply) :
                /\ c.at = i /\ c.label = source[i].about
                /\ c.accepted = source[i].accepted /\ c.strength = Strength(source[i])
  <2>1. PICK f : f = Fact(i, "common", source[i].about, source[i].accepted,
                          Strength(source[i]))
    OBVIOUS
  <2>2. f \in LegacyFacts(source)
    BY <1>11, <2>1, LegacyCommon
  <2>3. /\ f.at = i /\ f.label = source[i].about /\ f.accepted = source[i].accepted
        /\ f.strength = Strength(source[i])
    BY <2>1 DEF Fact
  <2>4. f.at \in WordOf(source, f.label, f.accepted)
    BY <1>11, <2>3 DEF WordOf
  <2>5. QED
    BY <1>8, <2>2, <2>3, <2>4
<1>12. \A c \in IntentConditions(source, reply) : InSentence(source, c)
  BY <1>4, <1>5 DEF InSentence
<1>13. QED
  BY <1>9, <1>10, <1>11, <1>12 DEF IntentCovers

-----------------------------------------------------------------------------
(* The plan *)

PlanFields ==
    {"source", "route", "queries", "images", "parsed", "extractor", "allowEmpty",
     "bilingual", "lifetime", "close", "replies", "offer", "conditions", "visual",
     "target"}

\* What a plan keeps of the request it was made for.
OfRequest(p, r) ==
    /\ p.source = r.source /\ p.route = r.route /\ p.parsed = r.parsed
    /\ p.bilingual = r.bilingual /\ p.replies = r.replies /\ p.offer = r.offer

PlanSays ==
    IF plan.route = "candidate" THEN CandidateFollows(plan.source)
    ELSE IntentFollows(plan.source)

Unmade == {"preparing", "extracting", "asking", "blocked"}

\* The plan says what the sentence says from the moment it is made, and
\* before that the sentence of a plan that waits for the model was read.
PlanInv ==
    /\ DOMAIN plan = PlanFields /\ \E r \in Requests : OfRequest(plan, r)
    /\ state # "failed" => failure = "none"
    /\ state = "extracting" => /\ plan.route = "candidate"
                               /\ plan.parsed => Cardinality(ProductClauses(plan.source)) = 1
    /\ state = "asking" => plan.route # "candidate"
    /\ state \notin Unmade /\ failure \notin PreparationStages => PlanSays

\* The invariant of the plan implies that the plan follows its source.
LEMMA PlanInvFollows == PlanInv => PlanFollowsSource
BY DEF PlanInv, PlanSays, Unmade, PlanFollowsSource

\* The sentence of a plan is that of a request.
LEMMA SourceFacts ==
    ASSUME PlanInv
    PROVE  /\ DOMAIN plan.source = 1..Len(plan.source) /\ Len(plan.source) \in Nat
           /\ plan.parsed \in BOOLEAN
<1>1. PICK r \in Requests : OfRequest(plan, r)
  BY DEF PlanInv
<1>2. RequestAssumption(r)
  BY ProductSearchAssumption
<1>3. QED
  BY <1>1, <1>2 DEF OfRequest, RequestAssumption

\* What a plan is once it is made.
LEMMA PlannedFacts ==
    ASSUME DOMAIN plan = PlanFields,
           NEW conditions, NEW visual, NEW queries, NEW target,
           Planned(conditions, visual, queries, target)
    PROVE  /\ DOMAIN plan' = PlanFields /\ \A r : OfRequest(plan, r) => OfRequest(plan', r)
           /\ plan'.conditions = conditions /\ plan'.visual = visual
           /\ plan'.target = target /\ plan'.source = plan.source
           /\ plan'.parsed = plan.parsed /\ plan'.route = plan.route
           /\ state' = "retrieval_review" /\ failure' = failure
<1>1. PICK p : p = plan
  OBVIOUS
<1>2. DOMAIN p = PlanFields
  BY <1>1
<1>3. plan' = [p EXCEPT !.conditions = conditions, !.visual = visual,
                        !.queries = queries, !.target = target]
  BY <1>1 DEF Planned
<1>4. DOMAIN plan' = PlanFields
  BY <1>2, <1>3
<1>5. /\ plan'.conditions = conditions /\ plan'.visual = visual
      /\ plan'.target = target /\ plan'.source = p.source
      /\ plan'.parsed = p.parsed /\ plan'.route = p.route
      /\ plan'.bilingual = p.bilingual /\ plan'.replies = p.replies
      /\ plan'.offer = p.offer
  BY <1>2, <1>3 DEF PlanFields
<1>6. QED
  BY <1>1, <1>4, <1>5 DEF OfRequest, Planned

\* A plan that is made and stays is not disturbed by what follows.
LEMMA PlanStays ==
    ASSUME PlanInv, plan' = plan, state \notin Unmade \cup {"failed"},
           state' \notin {"extracting", "asking"},
           state' # "failed" => failure' = failure
    PROVE  PlanInv'
<1>1. failure = "none" /\ "none" \notin PreparationStages
  BY DEF PlanInv, PreparationStages
<1>2. PlanSays
  BY <1>1 DEF PlanInv
<1>3. PlanSays'
  BY <1>2 DEF PlanSays, CandidateFollows, PriceFollows, IntentFollows, Conditions, Typed
<1>4. QED
  BY <1>1, <1>3 DEF PlanInv

\* A plan that is refused says nothing.
LEMMA PlanRefused ==
    ASSUME PlanInv, NEW stage \in PreparationStages, Refuse(stage)
    PROVE  PlanInv'
BY DEF PlanInv, Refuse, Fail

\* Build makes a plan that says what the sentence says, or none.
LEMMA PlanBuilt ==
    ASSUME PlanInv, plan.route = "candidate", failure = "none",
           plan.parsed => Cardinality(ProductClauses(plan.source)) = 1,
           NEW rows, RowsFit(plan.source, plan.parsed, rows), Build(rows)
    PROVE  PlanInv'
<1>1. CASE QueriesBuilt(plan.source, plan.parsed, rows)
  <2>1. PICK source, parsed : source = plan.source /\ parsed = plan.parsed
    OBVIOUS
  <2>2. Covers(source, Built(source, rows), parsed)
    BY <1>1, <2>1, SourceFacts, BuiltCovers
  <2>3. Planned(CandidateConditions(source, rows), {VisualRequirement(r) : r \in rows},
                plan.queries, NoPrice)
    BY <1>1, <2>1 DEF Build
  <2>4. DOMAIN plan = PlanFields
    BY DEF PlanInv
  <2>5. /\ DOMAIN plan' = PlanFields /\ \A r : OfRequest(plan, r) => OfRequest(plan', r)
        /\ plan'.conditions = CandidateConditions(source, rows)
        /\ plan'.visual = {VisualRequirement(r) : r \in rows}
        /\ plan'.source = source /\ plan'.parsed = parsed
        /\ plan'.route = "candidate"
        /\ state' = "retrieval_review" /\ failure' = failure
    BY <2>1, <2>3, <2>4, PlannedFacts
  <2>6. Conditions' = Built(source, rows)
    BY <2>5 DEF Conditions, Built
  <2>7. CandidateFollows(source)'
    BY <2>2, <2>5, <2>6 DEF CandidateFollows, PriceFollows, Covers, PriceCovers, SilentIn
  <2>8. PlanSays'
    BY <2>5, <2>7 DEF PlanSays
  <2>9. QED
    BY <2>5, <2>8 DEF PlanInv
<1>2. CASE ~ QueriesBuilt(plan.source, plan.parsed, rows)
  <2>1. Refuse("query_build") /\ "query_build" \in PreparationStages
    BY <1>2 DEF Build, PreparationStages
  <2>2. QED
    BY <2>1, PlanRefused
<1>3. QED
  BY <1>1, <1>2

\* CandidateSearch.__init__ reads the scope of a sentence the parser analysed
\* before it asks the model.
LEMMA PlanPrepared ==
    ASSUME PlanInv, Prepare
    PROVE  PlanInv'
<1>1. failure = "none" /\ state = "preparing" /\ plan.route = "candidate"
  BY DEF PlanInv, Prepare
<1>2. PICK clauses : clauses = VisualClauses(plan.source, plan.parsed)
  OBVIOUS
<1>3. \A stage \in PreparationStages : Refuse(stage) => PlanInv'
  BY PlanRefused
<1>4. /\ "condition_strength" \in PreparationStages /\ "product_scope" \in PreparationStages
      /\ "visual_count" \in PreparationStages /\ "empty_conditions" \in PreparationStages
  BY DEF PreparationStages
<1>5. ASSUME NEW rows, RowsFit(plan.source, plan.parsed, rows), Build(rows),
             plan.parsed => ScopeClear(plan.source, plan.parsed)
      PROVE  PlanInv'
  <2>1. plan.parsed => Cardinality(ProductClauses(plan.source)) = 1
    BY <1>5 DEF ScopeClear
  <2>2. QED
    BY <1>1, <1>5, <2>1, PlanBuilt
<1>6. CASE \/ ~ Analyzable(plan.source) \/ Contradictory(AllFacts(plan.source))
  BY <1>3, <1>4, <1>6 DEF Prepare
<1>7. CASE \/ Refuse("product_scope") \/ Refuse("visual_count") \/ Refuse("empty_conditions")
  BY <1>3, <1>4, <1>7
<1>8. CASE /\ plan.parsed => ScopeClear(plan.source, plan.parsed)
           /\ \/ Build(VisualRows(plan.source, clauses))
              \/ Build({})
              \/ state' = "extracting" /\ UNCHANGED <<plan, failure>>
  <2>1. RowsFit(plan.source, plan.parsed, VisualRows(plan.source, clauses))
    BY <1>2 DEF RowsFit, VisualRows
  <2>2. RowsFit(plan.source, plan.parsed, {})
    BY DEF RowsFit
  <2>3. CASE state' = "extracting" /\ UNCHANGED <<plan, failure>>
    <3>1. plan.parsed => Cardinality(ProductClauses(plan.source)) = 1
      BY <1>8 DEF ScopeClear
    <3>2. QED
      BY <1>1, <2>3, <3>1 DEF PlanInv, Unmade
  <2>4. QED
    BY <1>5, <1>8, <2>1, <2>2, <2>3
<1>9. QED
  BY <1>2, <1>6, <1>7, <1>8 DEF Prepare

\* The rows of the model are checked against the sentence before they count.
LEMMA PlanExtracted ==
    ASSUME PlanInv, NEW rows, Extract(rows)
    PROVE  PlanInv'
<1>1. /\ failure = "none" /\ state = "extracting" /\ plan.route = "candidate"
      /\ plan.parsed => Cardinality(ProductClauses(plan.source)) = 1
  BY DEF PlanInv, Extract
<1>2. CASE RowsValid(plan.source, plan.parsed, rows)
  <2>1. RowsFit(plan.source, plan.parsed, rows) /\ Build(rows)
    BY <1>2 DEF RowsFit, RowsValid, Extract
  <2>2. QED
    BY <1>1, <2>1, PlanBuilt
<1>3. CASE ~ RowsValid(plan.source, plan.parsed, rows)
  <2>1. Refuse("visual_extraction") /\ "visual_extraction" \in PreparationStages
    BY <1>3 DEF Extract, PreparationStages
  <2>2. QED
    BY <2>1, PlanRefused
<1>4. QED
  BY <1>2, <1>3

\* The reply of the language model is held against the sentence.
LEMMA PlanAnswered ==
    ASSUME PlanInv, NEW reply, Answer(reply)
    PROVE  PlanInv'
<1>1. failure = "none" /\ state = "asking" /\ plan.route # "candidate"
  BY DEF PlanInv, Answer
<1>2. PICK conditions : conditions = IntentConditions(plan.source, reply)
  OBVIOUS
<1>3. CASE Refuse("request") \/ Refuse("response")
  <2>1. "request" \in PreparationStages /\ "response" \in PreparationStages
    BY DEF PreparationStages
  <2>2. QED
    BY <1>3, <2>1, PlanRefused
<1>4. CASE state' = "blocked" /\ UNCHANGED <<plan, failure>>
  BY <1>1, <1>4 DEF PlanInv, Unmade
<1>5. CASE /\ FollowsFacts(plan.source, reply) /\ ~ Blocking(plan.source, reply)
           /\ Planned(conditions, plan.visual, IF reply.english THEN 2 ELSE 1,
                      IntentPrice(plan.source, reply))
  <2>1. PICK source : source = plan.source
    OBVIOUS
  <2>2. IntentCovers(source, conditions)
    BY <1>2, <1>5, <2>1, SourceFacts, ReplyCovers
  <2>3. DOMAIN plan = PlanFields
    BY DEF PlanInv
  <2>4. /\ DOMAIN plan' = PlanFields /\ \A r : OfRequest(plan, r) => OfRequest(plan', r)
        /\ plan'.conditions = conditions
        /\ plan'.target = IntentPrice(source, reply)
        /\ plan'.source = source /\ plan'.route = plan.route
        /\ state' = "retrieval_review" /\ failure' = failure
    BY <1>5, <2>1, <2>3, PlannedFacts
  <2>5. IntentFollows(source)'
    <3>1. PICK said : said = {i \in DOMAIN source : source[i].kind = "price"}
      OBVIOUS
    <3>2. PICK blank : blank = {}
      OBVIOUS
    <3>3. said = {} \/ PriceLost(source, said, {})
            \/ /\ ExplicitPrice(source, {}) # NoPrice
               /\ ExplicitPrice(source, {}) = AllowedAmounts(source, said)
      <4>1. said = {i \in DOMAIN source \ blank : source[i].kind = "price"}
        BY <3>1, <3>2
      <4>2. DOMAIN source = 1..Len(source) /\ Len(source) \in Nat
        BY <2>1, SourceFacts
      <4>3. IF said = {} \/ PriceLost(source, said, blank)
            THEN ExplicitPrice(source, blank) = NoPrice
            ELSE /\ ExplicitPrice(source, blank) # NoPrice
                 /\ ExplicitPrice(source, blank) = AllowedAmounts(source, said)
        BY <4>1, <4>2, PriceRead
      <4>4. QED
        BY <3>2, <4>3
    <3>4. said = {} \/ PriceLost(source, said, {})
            \/ plan'.target = AllowedAmounts(source, said)
      BY <2>4, <3>3 DEF IntentPrice
    <3>5. QED
      BY <2>2, <2>4, <3>1, <3>4 DEF IntentFollows, IntentCovers, InSentence, Typed
  <2>6. PlanSays'
    BY <1>1, <2>4, <2>5 DEF PlanSays
  <2>7. QED
    BY <1>1, <2>4, <2>6 DEF PlanInv
<1>6. QED
  BY <1>2, <1>3, <1>4, <1>5 DEF Answer

\* What was made of the sentence is kept when a saved plan is searched again.
LEMMA PlanReopened ==
    ASSUME PlanInv, NEW playwright, Reopen(playwright)
    PROVE  PlanInv'
<1>1. PICK p : p = plan
  OBVIOUS
<1>2. DOMAIN p = PlanFields /\ plan' = [p EXCEPT !.lifetime = ~ playwright]
  BY <1>1 DEF PlanInv, Reopen
<1>3. /\ DOMAIN plan' = PlanFields
      /\ \A x \in PlanFields \ {"lifetime"} : plan'[x] = plan[x]
  BY <1>1, <1>2
<1>4. /\ plan'.source = plan.source /\ plan'.route = plan.route
      /\ plan'.parsed = plan.parsed /\ plan'.bilingual = plan.bilingual
      /\ plan'.replies = plan.replies /\ plan'.offer = plan.offer
      /\ plan'.conditions = plan.conditions /\ plan'.visual = plan.visual
      /\ plan'.target = plan.target
  BY <1>3 DEF PlanFields
<1>5. failure = "none" /\ state = "saved" /\ state' = "retrieval_review" /\ failure' = failure
  BY DEF PlanInv, Reopen
<1>6. PlanSays
  BY <1>5 DEF PlanInv, Unmade, PreparationStages
<1>7. PlanSays'
  BY <1>4, <1>6 DEF PlanSays, CandidateFollows, PriceFollows, IntentFollows, Conditions, Typed
<1>8. QED
  BY <1>3, <1>4, <1>5, <1>7 DEF PlanInv, OfRequest

\* Every step keeps the plan true to the sentence.
LEMMA PlanStep ==
    ASSUME PlanInv, [Next]_vars
    PROVE  PlanInv'
<1>1. CASE Prepare
  BY <1>1, PlanPrepared
<1>2. CASE \E rows \in {s \in SUBSET Rows : Cardinality(s) <= MaxVisual + 1} : Extract(rows)
  BY <1>2, PlanExtracted
<1>3. CASE ExtractFails
  <2>1. Refuse("visual_extraction") /\ "visual_extraction" \in PreparationStages
    BY <1>3 DEF ExtractFails, PreparationStages
  <2>2. QED
    BY <2>1, PlanRefused
<1>4. CASE Ask
  BY <1>4 DEF Ask, PlanInv, Unmade
<1>5. CASE \E reply \in plan.replies : Answer(reply)
  BY <1>5, PlanAnswered
<1>6. CASE Expire
  BY <1>6, PlanStays DEF Expire, Unmade
<1>7. CASE ApproveAndFetch
  BY <1>7, PlanStays DEF ApproveAndFetch, Unmade
<1>8. CASE \E e \in Entries[plan.offer] : Deliver(e)
  BY <1>8, PlanStays DEF Deliver, Unmade
<1>9. CASE FetchFails
  BY <1>9, PlanStays DEF FetchFails, Fail, Unmade
<1>10. CASE FetchReturns
  BY <1>10, PlanStays DEF FetchReturns, Fail, Unmade
<1>11. CASE \E selections \in [review.unresolved -> review.options] : Confirm(selections)
  BY <1>11, PlanStays DEF Confirm, Unmade
<1>12. CASE Rank
  BY <1>12, PlanStays DEF Rank, Fail, Unmade
<1>13. CASE CompleteImageFree
  BY <1>13, PlanStays DEF CompleteImageFree, Keep, Fail, Unmade
<1>14. CASE \E fetched \in Fetched : CompleteWithImages(fetched)
  BY <1>14, PlanStays DEF CompleteWithImages, Keep, Fail, Unmade
<1>15. CASE Save
  BY <1>15, PlanStays DEF Save, Unmade
<1>16. CASE \E playwright \in BOOLEAN : Reopen(playwright)
  BY <1>16, PlanReopened
<1>17. CASE RankTyped
  BY <1>17, PlanStays DEF RankTyped, Fail, Unmade
<1>18. CASE \E fetched \in Fetched : RankProvisional(fetched)
  BY <1>18, PlanStays DEF RankProvisional, Fail, Unmade
<1>19. CASE UNCHANGED vars
  BY <1>19 DEF vars, PlanInv, PlanSays, CandidateFollows, PriceFollows, IntentFollows, Conditions, Typed
<1>20. QED
  BY <1>1, <1>2, <1>3, <1>4, <1>5, <1>6, <1>7, <1>8, <1>9, <1>10, <1>11, <1>12,
     <1>13, <1>14, <1>15, <1>16, <1>17, <1>18, <1>19 DEF Next

\* Before a search there is no plan.
LEMMA PlanStarts == Init => PlanInv
<1>1. SUFFICES ASSUME Init PROVE PlanInv
  OBVIOUS
<1>2. PICK r \in Requests : plan = Unplanned(r)
  BY <1>1 DEF Init
<1>3. DOMAIN plan = PlanFields /\ OfRequest(plan, r)
  BY <1>2 DEF Unplanned, PlanFields, OfRequest
<1>4. QED
  BY <1>1, <1>3 DEF Init, PlanInv, Unmade

\* On the candidate route every clause that is not left to choice is a
\* condition of the plan in the strength of its words, but for the phrase of
\* the product and for a price named in one of the three ways in which it gets
\* lost (PriceLost), and every condition is about a clause.  On the typed
\* routes quantities, and the capabilities and attributes said in a way the
\* older reader knows, are conditions; the model may add others about a clause
\* (build_candidate_queries, validate_source_response,
\* _ground_source_conditions).
THEOREM PlanTheorem == Spec => []PlanFollowsSource
<1>1. PlanInv /\ [Next]_vars => PlanInv'
  BY PlanStep
<1>2. QED
  BY <1>1, PlanStarts, PlanInvFollows, PTL DEF Spec

-----------------------------------------------------------------------------
(* The normalized batch *)

\* The equation of the loop over the entries, whose states FoldLeft keeps for
\* every subset of the indices it has read.
Turns(f, queries, entries, order) ==
    f = [s \in SUBSET DOMAIN order |->
            IF s = {} THEN EmptyBatch
            ELSE Normalized(queries, entries, f[s \ {Max(s)}], order[Max(s)])]

\* The same, for the subsets of T.
TurnsOn(f, queries, entries, T) ==
    \A s \in SUBSET T :
        f[s] = IF s = {} THEN EmptyBatch
               ELSE Normalized(queries, entries, f[s \ {Max(s)}], Max(s))

\* One more index can be read after those of T.
LEMMA TurnsOfMore ==
    ASSUME NEW queries, NEW entries, NEW n \in Nat, NEW T \in SUBSET (1..n), T # {},
           NEW f, TurnsOn(f, queries, entries, T \ {Max(T)})
    PROVE  \E g : TurnsOn(g, queries, entries, T)
<1>1. PICK g : g = [s \in SUBSET T |->
                      IF s = {} THEN EmptyBatch
                      ELSE Normalized(queries, entries, f[s \ {Max(s)}], Max(s))]
  OBVIOUS
<1>2. PICK m : m = Max(T)
  OBVIOUS
<1>3. \A s \in SUBSET T : s # {} => Max(s) \in s /\ \A y \in s : y <= Max(s)
  <2>1. ASSUME NEW s \in SUBSET T, s # {} PROVE IsFiniteSet(s) /\ s \subseteq Int
    BY Positions
  <2>2. QED
    BY <2>1, MaxMin
<1>4. m \in T /\ T \subseteq Int /\ \A y \in T : y <= m
  BY <1>2, <1>3
<1>5. ASSUME NEW s \in SUBSET T, s # {} PROVE s \ {Max(s)} \in SUBSET (T \ {m})
  <2>1. CASE m \in s
    <3>1. PICK x : x = Max(s)
      OBVIOUS
    <3>2. x \in s /\ \A y \in s : y <= x
      BY <1>3, <1>5, <3>1
    <3>3. x <= m /\ m <= x /\ x \in Int /\ m \in Int
      BY <1>4, <1>5, <2>1, <3>2
    <3>4. Max(s) = m
      BY <3>1, <3>3
    <3>5. QED
      BY <3>4
  <2>2. CASE m \notin s
    BY <2>2
  <2>3. QED
    BY <2>1, <2>2
<1>6. \A s \in SUBSET (T \ {m}) : g[s] = f[s]
  BY <1>1, <1>2 DEF TurnsOn
<1>7. ASSUME NEW s \in SUBSET T
      PROVE  g[s] = IF s = {} THEN EmptyBatch
                    ELSE Normalized(queries, entries, g[s \ {Max(s)}], Max(s))
  <2>1. CASE s = {}
    BY <1>1, <2>1
  <2>2. CASE s # {}
    <3>1. g[s \ {Max(s)}] = f[s \ {Max(s)}]
      BY <1>5, <1>6, <2>2
    <3>2. QED
      BY <1>1, <2>2, <3>1
  <2>3. QED
    BY <2>1, <2>2
<1>8. QED
  BY <1>7 DEF TurnsOn

\* The loop has its states.
LEMMA TurnsExist ==
    ASSUME NEW queries, NEW entries, NEW n \in Nat,
           NEW order, order = [i \in 1..n |-> i]
    PROVE  \E f : Turns(f, queries, entries, order)
<1>1. PICK B : B = {T \in SUBSET (1..n) : ~ \E f : TurnsOn(f, queries, entries, T)}
  OBVIOUS
<1>2. B = {}
  <2>1. SUFFICES ASSUME B # {} PROVE FALSE
    OBVIOUS
  <2>2. IsFiniteSet(1..n) /\ B \in SUBSET (SUBSET (1..n))
    BY <1>1, FS_Interval
  <2>3. PICK T \in B : \A U \in SUBSET T : U # T => U \notin B
    BY <2>1, <2>2, SmallestSubset
  <2>4. T \in SUBSET (1..n)
    BY <1>1, <2>3
  <2>5. T # {}
    <3>1. PICK f : f = [s \in SUBSET {} |-> EmptyBatch]
      OBVIOUS
    <3>2. \A s \in SUBSET {} : s = {} /\ f[s] = EmptyBatch
      BY <3>1
    <3>3. SUFFICES ASSUME T = {} PROVE FALSE
      OBVIOUS
    <3>4. QED
      BY <1>1, <2>3, <3>2, <3>3 DEF TurnsOn
  <2>6. Max(T) \in T
    <3>1. IsFiniteSet(T) /\ T \subseteq Int
      BY <2>4, Positions
    <3>2. QED
      BY <2>5, <3>1, MaxMin
  <2>7. T \ {Max(T)} \in SUBSET T /\ T \ {Max(T)} # T /\ T \ {Max(T)} \in SUBSET (1..n)
    BY <2>4, <2>6
  <2>8. T \ {Max(T)} \notin B
    BY <2>3, <2>7
  <2>9. PICK f : TurnsOn(f, queries, entries, T \ {Max(T)})
    BY <1>1, <2>7, <2>8
  <2>10. \E g : TurnsOn(g, queries, entries, T)
    BY <2>4, <2>5, <2>9, TurnsOfMore
  <2>11. QED
    BY <1>1, <2>3, <2>10
<1>3. 1..n \notin B /\ 1..n \in SUBSET (1..n)
  BY <1>2
<1>4. PICK f : TurnsOn(f, queries, entries, 1..n)
  BY <1>1, <1>3
<1>5. PICK g : g = [s \in SUBSET (1..n) |-> f[s]]
  OBVIOUS
<1>6. ASSUME NEW s \in SUBSET (1..n)
      PROVE  g[s] = IF s = {} THEN EmptyBatch
                    ELSE Normalized(queries, entries, g[s \ {Max(s)}], order[Max(s)])
  <2>1. CASE s = {}
    BY <1>4, <1>5, <2>1 DEF TurnsOn
  <2>2. CASE s # {}
    <3>1. IsFiniteSet(s) /\ s \subseteq Int
      BY Positions
    <3>2. Max(s) \in 1..n
      BY <2>2, <3>1, MaxMin
    <3>3. order[Max(s)] = Max(s) /\ g[s \ {Max(s)}] = f[s \ {Max(s)}]
      BY <1>5, <3>2
    <3>4. QED
      BY <1>4, <1>5, <2>2, <3>3 DEF TurnsOn
  <2>3. QED
    BY <2>1, <2>2
<1>7. DOMAIN order = 1..n
  OBVIOUS
<1>8. g = [s \in SUBSET DOMAIN order |->
              IF s = {} THEN EmptyBatch
              ELSE Normalized(queries, entries, g[s \ {Max(s)}], order[Max(s)])]
  BY <1>5, <1>6, <1>7
<1>9. QED
  BY <1>8 DEF Turns

\* The states the loop goes through: one for each entry it has read.
LEMMA NormalizeLoops ==
    ASSUME NEW queries, NEW entries, Len(entries) \in Nat
    PROVE  \E after :
              /\ after[0] = EmptyBatch
              /\ \A k \in 1..Len(entries) :
                    after[k] = Normalized(queries, entries, after[k - 1], k)
              /\ Normalize(queries, entries)
                   = [products |-> after[Len(entries)].products,
                      rejections |-> after[Len(entries)].rejections]
<1>1. PICK n \in Nat : n = Len(entries)
  OBVIOUS
<1>2. PICK order : order = [i \in 1..n |-> i]
  OBVIOUS
<1>3. PICK f : f = CHOOSE g : Turns(g, queries, entries, order)
  OBVIOUS
<1>4. Turns(f, queries, entries, order)
  BY <1>2, <1>3, TurnsExist
<1>5. DOMAIN order = 1..n
  BY <1>2
<1>6. PICK after : after = [k \in 0..n |-> f[1..k]]
  OBVIOUS
<1>7. \A s \in SUBSET (1..n) :
         f[s] = IF s = {} THEN EmptyBatch
                ELSE Normalized(queries, entries, f[s \ {Max(s)}], order[Max(s)])
  BY <1>4, <1>5 DEF Turns
<1>8. after[0] = EmptyBatch
  <2>1. 1..0 = {}
    OBVIOUS
  <2>2. f[{}] = EmptyBatch
    BY <1>7
  <2>3. QED
    BY <1>6, <2>1, <2>2
<1>9. ASSUME NEW k \in 1..n PROVE after[k] = Normalized(queries, entries, after[k - 1], k)
  <2>1. PICK s : s = 1..k
    OBVIOUS
  <2>2. s \in SUBSET (1..n) /\ s # {} /\ s \subseteq Int /\ k \in Int /\ 1 \in Int
    BY <2>1
  <2>3. IsFiniteSet(s)
    BY <2>1, <2>2, FS_Interval
  <2>5. k \in s /\ \A y \in s : y <= k
    BY <2>1
  <2>6. Max(s) = k
    BY <2>2, <2>3, <2>5, MaxIs
  <2>7. s \ {k} = 1..(k - 1)
    BY <2>1
  <2>8. order[k] = k
    BY <1>2
  <2>9. f[s] = Normalized(queries, entries, f[1..(k - 1)], k)
    BY <1>7, <2>2, <2>6, <2>7, <2>8
  <2>10. k - 1 \in 0..n /\ k \in 0..n
    OBVIOUS
  <2>11. QED
    BY <1>6, <2>1, <2>9, <2>10
<1>10. Normalize(queries, entries)
         = [products |-> f[DOMAIN order].products, rejections |-> f[DOMAIN order].rejections]
  BY <1>1, <1>2, <1>3 DEF Normalize, FoldLeft, MapThenFoldSet, Turns
<1>11. f[DOMAIN order] = after[n]
  BY <1>5, <1>6
<1>12. QED
  BY <1>1, <1>8, <1>9, <1>10, <1>11

\* What the code compares about entries: is entry i a product on its own
\* account, and is it the first of its ASIN?
Taken(queries, entries, i) == CandidateReason(queries, entries, i) = Accepted
FirstOf(queries, entries, i) ==
    \A j \in 1..(i - 1) : Taken(queries, entries, j) => entries[j].asin # entries[i].asin

\* An entry whose URL the loop remembers, or whose URL was there before.
Remembered(queries, entries, j) ==
    Taken(queries, entries, j) /\ (entries[j].asin = 0 \/ FirstOf(queries, entries, j))

\* Kept, for any entries.
KeptOf(queries, entries, i) ==
    /\ Taken(queries, entries, i)
    /\ IF entries[i].asin # 0 THEN FirstOf(queries, entries, i)
       ELSE entries[i].url = 0
            \/ \A j \in 1..(i - 1) : Remembered(queries, entries, j) =>
                                       entries[j].url # entries[i].url

ProductsOf(acc) == {acc.products[i] : i \in DOMAIN acc.products}
Rising(products) == \A k, l \in DOMAIN products : k < l => products[k] < products[l]

\* What the loop knows when it has read k entries: the entries kept so far in
\* the order they came in, why the others were not, and which entry each ASIN
\* and each URL was first seen at.
LoopInv(queries, entries, k, acc) ==
    /\ DOMAIN acc = {"products", "rejections", "asins", "urls"}
    /\ acc.products \in Seq(1..Len(entries))
    /\ Rising(acc.products)
    /\ ProductsOf(acc) = {i \in 1..k : KeptOf(queries, entries, i)}
    /\ ProductsOf(acc) \cup {r.index : r \in acc.rejections} = 1..k
    /\ \A r \in acc.rejections : /\ r.index \notin ProductsOf(acc)
                                 /\ r.of # NoIndex => /\ r.of \in ProductsOf(acc)
                                                      /\ r.of < r.index
    /\ \A p \in acc.asins \cup acc.urls : p[2] \in ProductsOf(acc)
    /\ \A v : Seen(acc.asins, v) <=>
          v # 0 /\ \E j \in 1..k : Taken(queries, entries, j) /\ entries[j].asin = v
    /\ \A v : Seen(acc.urls, v) <=>
          v # 0 /\ \E j \in 1..k : Remembered(queries, entries, j) /\ entries[j].url = v

\* An entry the loop does not keep.
LEMMA LoopRejects ==
    ASSUME NEW queries, NEW entries, Len(entries) \in Nat,
           NEW i \in 1..Len(entries), NEW acc, LoopInv(queries, entries, i - 1, acc),
           NEW reason, NEW of, of # NoIndex => of \in ProductsOf(acc),
           ~ KeptOf(queries, entries, i),
           Taken(queries, entries, i) =>
              (entries[i].asin # 0 => Seen(acc.asins, entries[i].asin)),
           Remembered(queries, entries, i) =>
              (entries[i].url # 0 => Seen(acc.urls, entries[i].url))
    PROVE  LoopInv(queries, entries, i, Rejected(acc, i, reason, of))
<1>1. PICK rejections : rejections = acc.rejections \cup {Rejection(i, reason, of)}
  OBVIOUS
<1>2. PICK next : next = Rejected(acc, i, reason, of)
  OBVIOUS
<1>3. /\ DOMAIN next = {"products", "rejections", "asins", "urls"}
      /\ next.products = acc.products /\ next.asins = acc.asins
      /\ next.urls = acc.urls /\ next.rejections = rejections
  BY <1>1, <1>2 DEF Rejected, LoopInv
<1>4. ProductsOf(next) = ProductsOf(acc)
  BY <1>3 DEF ProductsOf
<1>5. \A k : k \in 1..i <=> k \in 1..(i - 1) \/ k = i
  OBVIOUS
<1>6. ProductsOf(acc) = {k \in 1..i : KeptOf(queries, entries, k)}
  BY <1>5 DEF LoopInv
<1>7. i \notin ProductsOf(acc) /\ \A k \in ProductsOf(acc) : k < i
  <2>1. ProductsOf(acc) \subseteq 1..(i - 1)
    BY DEF LoopInv
  <2>2. QED
    BY <2>1
<1>8. /\ Rejection(i, reason, of).index = i /\ Rejection(i, reason, of).of = of
  BY DEF Rejection
<1>9. ProductsOf(acc) \cup {r.index : r \in rejections} = 1..i
  <2>1. {r.index : r \in rejections} = {r.index : r \in acc.rejections} \cup {i}
    BY <1>1, <1>8
  <2>2. ProductsOf(acc) \cup {r.index : r \in acc.rejections} = 1..(i - 1)
    BY DEF LoopInv
  <2>3. QED
    BY <1>5, <2>1, <2>2
<1>10. \A r \in rejections : /\ r.index \notin ProductsOf(acc)
                             /\ r.of # NoIndex => /\ r.of \in ProductsOf(acc)
                                                  /\ r.of < r.index
  <2>1. \A r \in acc.rejections : /\ r.index \notin ProductsOf(acc)
                                  /\ r.of # NoIndex => /\ r.of \in ProductsOf(acc)
                                                       /\ r.of < r.index
    BY DEF LoopInv
  <2>2. QED
    BY <1>1, <1>7, <1>8, <2>1
<1>11. \A v : Seen(acc.asins, v) <=>
          v # 0 /\ \E j \in 1..i : Taken(queries, entries, j) /\ entries[j].asin = v
  BY <1>5 DEF LoopInv
<1>12. \A v : Seen(acc.urls, v) <=>
          v # 0 /\ \E j \in 1..i : Remembered(queries, entries, j) /\ entries[j].url = v
  BY <1>5 DEF LoopInv
<1>13. LoopInv(queries, entries, i, next)
  BY <1>3, <1>4, <1>6, <1>9, <1>10, <1>11, <1>12 DEF LoopInv
<1>14. QED
  BY <1>2, <1>13

\* A set of pairs that remembers one more value.
LEMMA SeenMore ==
    ASSUME NEW pairs, NEW value, NEW i, NEW w
    PROVE  Seen(pairs \cup {<<value, i>>}, w) <=> Seen(pairs, w) \/ w = value
<1>1. PICK p : p = <<value, i>>
  OBVIOUS
<1>2. p[1] = value
  BY <1>1
<1>3. Seen(pairs \cup {p}, w) <=> Seen(pairs, w) \/ w = value
  BY <1>2 DEF Seen
<1>4. QED
  BY <1>1, <1>3

\* The sequence of products with one more.
Below(products, i) == \A k \in DOMAIN products : products[k] < i
HasMore(products, more, i) ==
    {more[k] : k \in DOMAIN more} = {products[k] : k \in DOMAIN products} \cup {i}
\* The products stay in order when a later one joins them.
LEMMA ProductsMore ==
    ASSUME NEW n \in Nat, NEW products \in Seq(1..n), NEW i \in 1..n, Rising(products),
           Below(products, i), NEW more, more = Append(products, i)
    PROVE  more \in Seq(1..n) /\ Rising(more) /\ HasMore(products, more, i)
<1>1. more = Append(products, i)
  OBVIOUS
<1>2. /\ more \in Seq(1..n) /\ Len(more) = Len(products) + 1
      /\ \A k \in 1..Len(products) : more[k] = products[k]
      /\ more[Len(products) + 1] = i
  BY <1>1, AppendProperties
<1>3. PICK m \in Nat : m = Len(products)
  BY LenProperties
<1>4. DOMAIN products = 1..m /\ DOMAIN more = 1..(m + 1)
  BY <1>2, <1>3, LenProperties
<1>5. \A k \in 1..m : more[k] = products[k] /\ more[k] \in 1..n
  BY <1>2, <1>3, <1>4, ElementOfSeq
<1>6. more[m + 1] = i
  BY <1>2, <1>3
<1>7. Rising(more)
  <2>1. ASSUME NEW k \in 1..(m + 1), NEW l \in 1..(m + 1), k < l
        PROVE  more[k] < more[l]
    <3>1. CASE l = m + 1
      BY <1>4, <1>5, <1>6, <2>1, <3>1 DEF Below
    <3>2. CASE l # m + 1
      <4>1. k \in 1..m /\ l \in 1..m
        BY <2>1, <3>2
      <4>2. products[k] < products[l]
        BY <1>4, <2>1, <4>1 DEF Rising
      <4>3. QED
        BY <1>5, <4>1, <4>2
    <3>3. QED
      BY <3>1, <3>2
  <2>2. QED
    BY <1>4, <2>1 DEF Rising
<1>8. {more[k] : k \in DOMAIN more} = {products[k] : k \in DOMAIN products} \cup {i}
  <2>1. \A k : k \in 1..(m + 1) <=> k \in 1..m \/ k = m + 1
    OBVIOUS
  <2>2. QED
    BY <1>4, <1>5, <1>6, <2>1
<1>9. QED
  BY <1>1, <1>2, <1>7, <1>8 DEF HasMore

\* An entry the loop keeps.
LEMMA LoopRetains ==
    ASSUME NEW queries, NEW entries, Len(entries) \in Nat,
           NEW i \in 1..Len(entries), NEW acc, LoopInv(queries, entries, i - 1, acc),
           KeptOf(queries, entries, i)
    PROVE  LoopInv(queries, entries, i, Retained(acc, i, entries[i]))
<1>1. PICK products, asins, urls :
          /\ products = Append(acc.products, i)
          /\ asins = IF entries[i].asin = 0 THEN acc.asins
                     ELSE acc.asins \cup {<<entries[i].asin, i>>}
          /\ urls = IF entries[i].url = 0 \/ Seen(acc.urls, entries[i].url) THEN acc.urls
                    ELSE acc.urls \cup {<<entries[i].url, i>>}
  OBVIOUS
<1>2. PICK next : next = Retained(acc, i, entries[i])
  OBVIOUS
<1>3. /\ DOMAIN next = {"products", "rejections", "asins", "urls"}
      /\ next.products = products /\ next.asins = asins
      /\ next.urls = urls /\ next.rejections = acc.rejections
  <2>1. next = [acc EXCEPT !.products = products, !.asins = asins, !.urls = urls]
    BY <1>1, <1>2 DEF Retained
  <2>2. DOMAIN acc = {"products", "rejections", "asins", "urls"}
    BY DEF LoopInv
  <2>3. QED
    BY <2>1, <2>2
<1>4. PICK P : P = ProductsOf(acc)
  OBVIOUS
<1>5. P \subseteq 1..(i - 1) /\ i \notin P /\ \A k \in P : k < i
  <2>1. P \subseteq 1..(i - 1)
    BY <1>4 DEF LoopInv
  <2>2. QED
    BY <2>1
<1>6. /\ products \in Seq(1..Len(entries))
      /\ Rising(products)
      /\ ProductsOf(next) = P \cup {i}
  <2>1. PICK n \in Nat : n = Len(entries)
    OBVIOUS
  <2>2. PICK old : old = acc.products
    OBVIOUS
  <2>3. Below(old, i)
    BY <1>4, <1>5, <2>2 DEF ProductsOf, Below
  <2>4. old \in Seq(1..n) /\ Rising(old) /\ i \in 1..n
    BY <2>1, <2>2 DEF LoopInv
  <2>5. products = Append(old, i)
    BY <1>1, <2>2
  <2>6. products \in Seq(1..n) /\ Rising(products) /\ HasMore(old, products, i)
    BY <2>3, <2>4, <2>5, ProductsMore
  <2>7. QED
    BY <1>3, <1>4, <2>1, <2>2, <2>6 DEF ProductsOf, HasMore
<1>7. \A k : k \in 1..i <=> k \in 1..(i - 1) \/ k = i
  OBVIOUS
<1>8. P \cup {i} = {k \in 1..i : KeptOf(queries, entries, k)}
  BY <1>4, <1>7 DEF LoopInv
<1>9. (P \cup {i}) \cup {r.index : r \in acc.rejections} = 1..i
  BY <1>4, <1>7 DEF LoopInv
<1>10. \A r \in acc.rejections : /\ r.index \notin P \cup {i}
                                 /\ r.of # NoIndex => /\ r.of \in P \cup {i}
                                                      /\ r.of < r.index
  <2>1. \A r \in acc.rejections : r.index \in 1..(i - 1)
    BY DEF LoopInv
  <2>2. \A r \in acc.rejections : r.index # i
    BY <2>1
  <2>3. QED
    BY <1>4, <2>2 DEF LoopInv
<1>11. \A p \in asins \cup urls : p[2] \in P \cup {i}
  BY <1>1, <1>4 DEF LoopInv
<1>12. Taken(queries, entries, i) /\ Remembered(queries, entries, i)
  BY DEF KeptOf, Remembered
<1>13. \A v : Seen(asins, v) <=>
          v # 0 /\ \E j \in 1..i : Taken(queries, entries, j) /\ entries[j].asin = v
  <2>1. \A v : Seen(acc.asins, v) <=>
          v # 0 /\ \E j \in 1..(i - 1) : Taken(queries, entries, j) /\ entries[j].asin = v
    BY DEF LoopInv
  <2>2. \A v : Seen(asins, v) <=> Seen(acc.asins, v) \/ (v # 0 /\ v = entries[i].asin)
    BY <1>1, SeenMore
  <2>3. QED
    BY <1>7, <1>12, <2>1, <2>2
<1>14. \A v : Seen(urls, v) <=>
          v # 0 /\ \E j \in 1..i : Remembered(queries, entries, j) /\ entries[j].url = v
  <2>1. \A v : Seen(acc.urls, v) <=>
          v # 0 /\ \E j \in 1..(i - 1) : Remembered(queries, entries, j) /\ entries[j].url = v
    BY DEF LoopInv
  <2>2. \A v : Seen(urls, v) <=> Seen(acc.urls, v) \/ (v # 0 /\ v = entries[i].url)
    BY <1>1, SeenMore
  <2>3. QED
    BY <1>7, <1>12, <2>1, <2>2
<1>15. LoopInv(queries, entries, i, next)
  BY <1>3, <1>6, <1>8, <1>9, <1>10, <1>11, <1>13, <1>14 DEF LoopInv
<1>16. QED
  BY <1>2, <1>15

\* What a duplicate is reported against is a product.
LEMMA SeenAtProduct ==
    ASSUME NEW queries, NEW entries, NEW k, NEW acc, LoopInv(queries, entries, k, acc),
           NEW pairs, pairs \in {acc.asins, acc.urls}, NEW value, Seen(pairs, value)
    PROVE  SeenAt(pairs, value) \in ProductsOf(acc)
<1>1. PICK p \in pairs : p = CHOOSE x \in pairs : x[1] = value
  BY DEF Seen
<1>2. p[2] \in ProductsOf(acc)
  BY <1>1 DEF LoopInv
<1>3. QED
  BY <1>1, <1>2 DEF SeenAt

\* One turn of the loop.
LEMMA LoopTurns ==
    ASSUME NEW queries, NEW entries, Len(entries) \in Nat,
           NEW i \in 1..Len(entries), NEW acc, LoopInv(queries, entries, i - 1, acc)
    PROVE  LoopInv(queries, entries, i, Normalized(queries, entries, acc, i))
<1>1. PICK asin, url : asin = entries[i].asin /\ url = entries[i].url
  OBVIOUS
<1>2. Seen(acc.asins, asin) <=>
         asin # 0 /\ \E j \in 1..(i - 1) : Taken(queries, entries, j) /\ entries[j].asin = asin
  BY DEF LoopInv
<1>3. Seen(acc.urls, url) <=>
         url # 0 /\ \E j \in 1..(i - 1) : Remembered(queries, entries, j) /\ entries[j].url = url
  BY DEF LoopInv
<1>4. FirstOf(queries, entries, i) <=> \/ asin = 0 /\ FirstOf(queries, entries, i)
                                       \/ asin # 0 /\ ~ Seen(acc.asins, asin)
  BY <1>1, <1>2 DEF FirstOf
<1>5. CASE ~ Taken(queries, entries, i)
  <2>1. ~ KeptOf(queries, entries, i) /\ ~ Remembered(queries, entries, i)
    BY <1>5 DEF KeptOf, Remembered
  <2>2. PICK reason : reason = CandidateReason(queries, entries, i)
    OBVIOUS
  <2>3. Normalized(queries, entries, acc, i) = Rejected(acc, i, reason, NoIndex)
    BY <1>5, <2>2 DEF Normalized, Taken
  <2>4. LoopInv(queries, entries, i, Rejected(acc, i, reason, NoIndex))
    BY <1>5, <2>1, LoopRejects
  <2>5. QED
    BY <2>3, <2>4
<1>6. CASE Taken(queries, entries, i) /\ asin # 0 /\ Seen(acc.asins, asin)
  <2>1. ~ KeptOf(queries, entries, i) /\ ~ Remembered(queries, entries, i)
    BY <1>1, <1>4, <1>6 DEF KeptOf, Remembered
  <2>2. PICK of : of = SeenAt(acc.asins, asin)
    OBVIOUS
  <2>3. of \in ProductsOf(acc)
    BY <1>6, <2>2, SeenAtProduct
  <2>4. Normalized(queries, entries, acc, i) = Rejected(acc, i, "duplicate_asin", of)
    BY <1>1, <1>6, <2>2 DEF Normalized, Taken
  <2>5. LoopInv(queries, entries, i, Rejected(acc, i, "duplicate_asin", of))
    BY <1>1, <1>6, <2>1, <2>3, LoopRejects
  <2>6. QED
    BY <2>4, <2>5
<1>7. CASE Taken(queries, entries, i) /\ asin = 0 /\ url # 0 /\ Seen(acc.urls, url)
  <2>1. ~ KeptOf(queries, entries, i)
    BY <1>1, <1>3, <1>7 DEF KeptOf
  <2>2. PICK of : of = SeenAt(acc.urls, url)
    OBVIOUS
  <2>3. of \in ProductsOf(acc)
    BY <1>7, <2>2, SeenAtProduct
  <2>4. Normalized(queries, entries, acc, i) = Rejected(acc, i, "duplicate_product_url", of)
    BY <1>1, <1>7, <2>2 DEF Normalized, Taken
  <2>5. LoopInv(queries, entries, i, Rejected(acc, i, "duplicate_product_url", of))
    BY <1>1, <1>7, <2>1, <2>3, LoopRejects
  <2>6. QED
    BY <2>4, <2>5
<1>8. CASE /\ Taken(queries, entries, i)
           /\ ~ (asin # 0 /\ Seen(acc.asins, asin))
           /\ ~ (asin = 0 /\ url # 0 /\ Seen(acc.urls, url))
  <2>1. KeptOf(queries, entries, i)
    <3>1. CASE asin # 0
      BY <1>1, <1>4, <1>8, <3>1 DEF KeptOf
    <3>2. CASE asin = 0
      BY <1>1, <1>3, <1>8, <3>2 DEF KeptOf
    <3>3. QED
      BY <3>1, <3>2
  <2>2. Normalized(queries, entries, acc, i) = Retained(acc, i, entries[i])
    BY <1>1, <1>8 DEF Normalized, Taken
  <2>3. LoopInv(queries, entries, i, Retained(acc, i, entries[i]))
    BY <2>1, LoopRetains
  <2>4. QED
    BY <2>2, <2>3
<1>9. QED
  BY <1>5, <1>6, <1>7, <1>8

\* Nothing is read before the loop.
LEMMA LoopStarts ==
    ASSUME NEW queries, NEW entries, Len(entries) \in Nat
    PROVE  LoopInv(queries, entries, 0, EmptyBatch)
<1>1. PICK acc : acc = EmptyBatch
  OBVIOUS
<1>2. /\ DOMAIN acc = {"products", "rejections", "asins", "urls"}
      /\ acc.products = <<>> /\ acc.rejections = {} /\ acc.asins = {} /\ acc.urls = {}
  BY <1>1 DEF EmptyBatch
<1>3. DOMAIN acc.products = {} /\ acc.products \in Seq(1..Len(entries))
  BY <1>2
<1>4. ProductsOf(acc) = {}
  BY <1>3 DEF ProductsOf
<1>5. 1..0 = {}
  OBVIOUS
<1>6. Rising(acc.products)
  BY <1>3 DEF Rising
<1>7. \A v : ~ Seen(acc.asins, v) /\ ~ Seen(acc.urls, v)
  BY <1>2 DEF Seen
<1>8. LoopInv(queries, entries, 0, acc)
  BY <1>2, <1>3, <1>4, <1>5, <1>6, <1>7 DEF LoopInv
<1>9. QED
  BY <1>1, <1>8

\* The batch made from the entries: its products in the order of the entries,
\* and a reason for every other entry.
BatchOf(queries, entries, made) ==
    /\ made.products \in Seq(1..Len(entries))
    /\ Rising(made.products)
    /\ ProductsOf(made) = {i \in 1..Len(entries) : KeptOf(queries, entries, i)}
    /\ ProductsOf(made) \cup {r.index : r \in made.rejections} = 1..Len(entries)
    /\ \A r \in made.rejections : /\ r.index \notin ProductsOf(made)
                                  /\ r.of # NoIndex => /\ r.of \in ProductsOf(made)
                                                       /\ r.of < r.index
\* normalize makes such a batch of every list of entries.
LEMMA Normalizes ==
    ASSUME NEW queries, NEW entries, Len(entries) \in Nat
    PROVE  BatchOf(queries, entries, Normalize(queries, entries))
<1>1. PICK n \in Nat : n = Len(entries)
  OBVIOUS
<1>2. PICK after : /\ after[0] = EmptyBatch
                   /\ \A k \in 1..n : after[k] = Normalized(queries, entries, after[k - 1], k)
                   /\ Normalize(queries, entries) = [products |-> after[n].products,
                                                     rejections |-> after[n].rejections]
  BY <1>1, NormalizeLoops
<1>3. LoopInv(queries, entries, 0, after[0])
  BY <1>2, LoopStarts
<1>4. \A k \in 1..n : LoopInv(queries, entries, k - 1, after[k - 1])
                        => LoopInv(queries, entries, k, after[k])
  BY <1>1, <1>2, LoopTurns
<1>5. PICK wrong : wrong = {k \in 1..n : ~ LoopInv(queries, entries, k, after[k])}
  OBVIOUS
<1>6. wrong = {}
  <2>1. SUFFICES ASSUME wrong # {} PROVE FALSE
    OBVIOUS
  <2>2. wrong \in SUBSET (1..n)
    BY <1>5
  <2>3. PICK k \in wrong : \A j \in wrong : k <= j
    BY <2>1, <2>2, FirstPosition
  <2>4. k \in 1..n /\ k - 1 \notin wrong
    BY <2>2, <2>3
  <2>5. LoopInv(queries, entries, k - 1, after[k - 1])
    <3>1. CASE k = 1
      BY <1>3, <3>1
    <3>2. CASE k # 1
      <4>1. k - 1 \in 1..n
        BY <2>4, <3>2
      <4>2. QED
        BY <1>5, <2>4, <4>1
    <3>3. QED
      BY <3>1, <3>2
  <2>6. QED
    BY <1>4, <1>5, <2>3, <2>4, <2>5
<1>7. LoopInv(queries, entries, n, after[n])
  <2>1. CASE n = 0
    BY <1>3, <2>1
  <2>2. CASE n # 0
    <3>1. n \in 1..n
      BY <2>2
    <3>2. QED
      BY <1>5, <1>6, <3>1
  <2>3. QED
    BY <2>1, <2>2
<1>8. PICK acc, made : acc = after[n] /\ made = Normalize(queries, entries)
  OBVIOUS
<1>9. made.products = acc.products /\ made.rejections = acc.rejections
  BY <1>2, <1>8
<1>10. ProductsOf(made) = ProductsOf(acc)
  BY <1>9 DEF ProductsOf
<1>11. BatchOf(queries, entries, made)
  BY <1>1, <1>7, <1>8, <1>9, <1>10 DEF LoopInv, BatchOf
<1>12. QED
  BY <1>8, <1>11

\* The entries delivered so far are entries the provider may deliver, and the
\* batch is the one made from them.
Batched == {"attribute_review", "confirmed", "normalized", "ranked", "history_pending",
            "saved", "completed"}
BatchInv ==
    /\ response \in Seq(Entries[plan.offer])
    /\ state \in Unmade \cup {"retrieval_review", "fetching"} => batch = NoBatch
    /\ state \in Unmade \cup {"retrieval_review", "fetching", "attribute_review", "confirmed",
                              "normalized"} => ranked = <<>>
    /\ batch # NoBatch \/ state \in Batched => BatchOf(plan.queries, response, batch)

\* What the normalization made is what the rules for single entries say.
LEMMA BatchIsExact ==
    ASSUME BatchInv, Normalizing
    PROVE  BatchExact
<1>1. BatchOf(plan.queries, response, batch)
  BY DEF BatchInv, Normalizing
<1>2. Products = ProductsOf(batch) /\ DOMAIN response = 1..Len(response)
  BY DEF Products, ProductsOf, BatchInv
<1>3. ASSUME NEW i \in 1..Len(response)
      PROVE  KeptOf(plan.queries, response, i) <=> Kept(i)
  <2>1. \A j \in 1..i : AcceptedEntry(j) <=> Taken(plan.queries, response, j)
    BY DEF AcceptedEntry, Taken
  <2>2. \A j \in 1..i : FirstWithAsin(j) <=> FirstOf(plan.queries, response, j)
    BY <2>1 DEF FirstWithAsin, FirstOf, AcceptedEntry, Taken
  <2>3. \A j \in 1..(i - 1) : j \in 1..i
    OBVIOUS
  <2>4. i \in 1..i
    OBVIOUS
  <2>5. QED
    BY <2>1, <2>2, <2>3, <2>4 DEF KeptOf, Kept, Remembered
<1>4. QED
  BY <1>1, <1>2, <1>3 DEF BatchOf, BatchExact

\* Nothing the batch is made from changes in these steps.
LEMMA BatchStays ==
    ASSUME BatchInv, response' = response, batch' = batch,
           plan'.offer = plan.offer, plan'.queries = plan.queries,
           state' \in Batched => state \in Batched,
           state' \notin Unmade \cup {"retrieval_review", "fetching"},
           state' \in {"attribute_review", "confirmed", "normalized"} => ranked' = <<>>
    PROVE  BatchInv'
BY DEF BatchInv

\* Before anything is fetched there is no batch.
LEMMA BatchAwaits ==
    ASSUME BatchInv, state \in Unmade \cup {"retrieval_review", "fetching"},
           batch' = batch, ranked' = ranked, plan'.offer = plan.offer,
           response' \in Seq(Entries[plan.offer]), state' \notin Batched
    PROVE  BatchInv'
BY DEF BatchInv, Batched

\* Every step keeps the invariant of the batch.
LEMMA BatchStep ==
    ASSUME PlanInv, BatchInv, [Next]_vars
    PROVE  BatchInv'
<1>1. response \in Seq(Entries[plan.offer])
  BY DEF BatchInv
<1>2. PICK p : p = plan
  OBVIOUS
<1>3. DOMAIN p = PlanFields
  BY <1>2 DEF PlanInv
<1>4. ASSUME NEW stage, Refuse(stage) PROVE plan' = plan /\ state' = "failed"
  BY <1>4 DEF Refuse, Fail
<1>5. ASSUME NEW conditions, NEW visual, NEW queries, NEW target,
             Planned(conditions, visual, queries, target)
      PROVE  plan'.offer = plan.offer /\ state' = "retrieval_review"
  <2>1. plan' = [p EXCEPT !.conditions = conditions, !.visual = visual,
                          !.queries = queries, !.target = target]
    BY <1>2, <1>5 DEF Planned
  <2>2. plan'.offer = p.offer
    BY <1>3, <2>1 DEF PlanFields
  <2>3. QED
    BY <1>2, <1>5, <2>2 DEF Planned
<1>6. ASSUME NEW rows, Build(rows)
      PROVE  plan'.offer = plan.offer /\ state' \in {"retrieval_review", "failed"}
  BY <1>4, <1>5, <1>6 DEF Build
<1>7. "retrieval_review" \notin Batched /\ "failed" \notin Batched
      /\ "extracting" \notin Batched /\ "asking" \notin Batched /\ "blocked" \notin Batched
      /\ "fetching" \notin Batched
  BY DEF Batched
<1>8. CASE Prepare
  <2>1. plan'.offer = plan.offer /\ state' \in {"retrieval_review", "failed", "extracting"}
    BY <1>4, <1>6, <1>8 DEF Prepare
  <2>2. QED
    BY <1>1, <1>7, <1>8, <2>1, BatchAwaits DEF Prepare, Unmade
<1>9. CASE \E rows \in {s \in SUBSET Rows : Cardinality(s) <= MaxVisual + 1} : Extract(rows)
  <2>1. plan'.offer = plan.offer /\ state' \in {"retrieval_review", "failed"}
    BY <1>4, <1>6, <1>9 DEF Extract
  <2>2. QED
    BY <1>1, <1>7, <1>9, <2>1, BatchAwaits DEF Extract, Unmade
<1>10. CASE ExtractFails
  BY <1>1, <1>4, <1>7, <1>10, BatchAwaits DEF ExtractFails, Unmade
<1>11. CASE Ask
  BY <1>1, <1>7, <1>11, BatchAwaits DEF Ask, Unmade
<1>12. CASE \E reply \in plan.replies : Answer(reply)
  <2>1. plan'.offer = plan.offer /\ state' \in {"retrieval_review", "failed", "blocked"}
    BY <1>4, <1>5, <1>12 DEF Answer
  <2>2. QED
    BY <1>1, <1>7, <1>12, <2>1, BatchAwaits DEF Answer, Unmade
<1>13. CASE Expire
  BY <1>13 DEF Expire, BatchInv
<1>14. CASE ApproveAndFetch
  BY <1>1, <1>7, <1>14, BatchAwaits DEF ApproveAndFetch
<1>15. CASE \E e \in Entries[plan.offer] : Deliver(e)
  <2>1. PICK e \in Entries[plan.offer] : Deliver(e)
    BY <1>15
  <2>2. response' \in Seq(Entries[plan.offer])
    BY <1>1, <2>1, AppendProperties DEF Deliver
  <2>3. QED
    BY <1>7, <2>1, <2>2, BatchAwaits DEF Deliver
<1>16. CASE FetchFails
  BY <1>1, <1>7, <1>16, BatchAwaits DEF FetchFails, Fail
<1>17. CASE FetchReturns
  <2>1. state = "fetching" /\ UNCHANGED <<plan, response, ranked>>
    BY <1>17 DEF FetchReturns
  <2>2. CASE Fail("retrieval") /\ UNCHANGED batch
    BY <1>1, <1>7, <2>1, <2>2, BatchAwaits DEF Fail
  <2>3. CASE /\ batch' = Normalize(plan.queries, response)
             /\ state' \in {"attribute_review", "normalized"}
    <3>1. Len(response) \in Nat
      BY <1>1, LenProperties
    <3>2. BatchOf(plan.queries, response, batch')
      BY <2>3, <3>1, Normalizes
    <3>3. BatchOf(plan'.queries, response', batch')
      BY <2>1, <3>2
    <3>4. QED
      BY <1>1, <2>1, <2>3, <3>3 DEF BatchInv, Unmade
  <2>4. QED
    BY <1>17, <2>2, <2>3 DEF FetchReturns
<1>18. CASE \E selections \in [review.unresolved -> review.options] : Confirm(selections)
  BY <1>18, BatchStays DEF Confirm, Unmade, Batched, BatchInv
<1>19. CASE Rank
  BY <1>19, BatchStays DEF Rank, Fail, Unmade, Batched
<1>20. CASE CompleteImageFree
  BY <1>20, BatchStays DEF CompleteImageFree, Keep, Fail, Unmade, Batched
<1>21. CASE \E fetched \in Fetched : CompleteWithImages(fetched)
  BY <1>21, BatchStays DEF CompleteWithImages, Keep, Fail, Unmade, Batched
<1>22. CASE Save
  BY <1>22, BatchStays DEF Save, Unmade, Batched
<1>23. CASE \E playwright \in BOOLEAN : Reopen(playwright)
  <2>1. PICK playwright \in BOOLEAN : Reopen(playwright)
    BY <1>23
  <2>2. plan' = [p EXCEPT !.lifetime = ~ playwright]
    BY <1>2, <2>1 DEF Reopen
  <2>3. plan'.offer = plan.offer
    BY <1>2, <1>3, <2>2 DEF PlanFields
  <2>4. response' = <<>> /\ batch' = NoBatch /\ ranked' = <<>> /\ state' = "retrieval_review"
    BY <2>1 DEF Reopen
  <2>5. response' \in Seq(Entries[plan'.offer])
    BY <2>4
  <2>6. QED
    BY <1>7, <2>4, <2>5 DEF BatchInv
<1>24. CASE RankTyped
  BY <1>24, BatchStays DEF RankTyped, Fail, Unmade, Batched
<1>25. CASE \E fetched \in Fetched : RankProvisional(fetched)
  BY <1>25, BatchStays DEF RankProvisional, Fail, Unmade, Batched
<1>26. CASE UNCHANGED vars
  BY <1>26 DEF vars, BatchInv
<1>27. QED
  BY <1>8, <1>9, <1>10, <1>11, <1>12, <1>13, <1>14, <1>15, <1>16, <1>17, <1>18, <1>19,
     <1>20, <1>21, <1>22, <1>23, <1>24, <1>25, <1>26 DEF Next

\* Before a search nothing was delivered.
LEMMA BatchStarts == Init => BatchInv
<1>1. SUFFICES ASSUME Init PROVE BatchInv
  OBVIOUS
<1>2. response = <<>> /\ batch = NoBatch /\ ranked = <<>> /\ state = "preparing"
  BY <1>1 DEF Init
<1>3. response \in Seq(Entries[plan.offer])
  BY <1>2
<1>4. QED
  BY <1>2, <1>3 DEF BatchInv, Batched

\* What BatchExact says of a batch that is being normalized.
BatchSound == Normalizing => BatchExact
\* Every entry the provider delivered is a product, once, or rejected with a
\* reason, a duplicate with the product it repeats.
THEOREM BatchTheorem == Spec => []BatchSound
<1>1. PlanInv /\ BatchInv /\ [Next]_vars => PlanInv' /\ BatchInv'
  BY PlanStep, BatchStep
<1>2. BatchInv => BatchSound
  BY BatchIsExact DEF BatchSound
<1>3. QED
  BY <1>1, <1>2, PlanStarts, BatchStarts, PTL DEF Spec

-----------------------------------------------------------------------------
(* Sorting *)

\* A function on the first n numbers is a sequence of length n.
LEMMA LengthOf ==
    ASSUME NEW n \in Nat, NEW f, DOMAIN f = 1..n, f = [k \in 1..n |-> f[k]]
    PROVE  Len(f) = n /\ f \in Seq({f[k] : k \in 1..n})
<1>1. PICK S : S = {f[k] : k \in 1..n}
  OBVIOUS
<1>2. f \in [1..n -> S]
  BY <1>1
<1>3. f \in Seq(S)
  BY <1>2, SeqDef
<1>4. Len(f) \in Nat /\ DOMAIN f = 1..Len(f)
  BY <1>3, LenProperties
<1>5. Len(f) = n
  BY <1>4
<1>6. QED
  BY <1>1, <1>3, <1>5

\* Keys of one length whose last components differ stand in a strict order.
Ordered(keys, n) ==
    /\ DOMAIN keys = 1..n
    /\ \A k \in 1..n : ~ Before(keys[k], keys[k])
    /\ \A k, l, j \in 1..n :
          Before(keys[k], keys[l]) /\ Before(keys[l], keys[j]) => Before(keys[k], keys[j])
    /\ \A k, l \in 1..n : k # l => Before(keys[k], keys[l]) \/ Before(keys[l], keys[k])

\* Keys that differ in their last component are totally ordered.
LEMMA KeysOrdered ==
    ASSUME NEW n \in Nat, NEW m \in Nat \ {0}, NEW keys \in [1..n -> [1..m -> Int]],
           \A k, l \in 1..n : k # l => keys[k][m] # keys[l][m]
    PROVE  Ordered(keys, n)
<1>1. \A k \in 1..n : ~ Before(keys[k], keys[k])
  BY DEF Before
<1>2. ASSUME NEW k \in 1..n, NEW l \in 1..n, NEW j \in 1..n,
             Before(keys[k], keys[l]), Before(keys[l], keys[j])
      PROVE  Before(keys[k], keys[j])
  <2>1. PICK a, b, c : a = keys[k] /\ b = keys[l] /\ c = keys[j]
    OBVIOUS
  <2>2. a \in [1..m -> Int] /\ b \in [1..m -> Int] /\ c \in [1..m -> Int]
    BY <2>1
  <2>3. PICK x \in 1..m : a[x] < b[x] /\ \A y \in 1..(x - 1) : a[y] = b[y]
    BY <1>2, <2>1, <2>2 DEF Before
  <2>4. PICK z \in 1..m : b[z] < c[z] /\ \A y \in 1..(z - 1) : b[y] = c[y]
    BY <1>2, <2>1, <2>2 DEF Before
  <2>5. CASE x < z
    <3>1. a[x] < c[x]
      BY <2>2, <2>3, <2>4, <2>5
    <3>2. \A y \in 1..(x - 1) : a[y] = c[y]
      BY <2>3, <2>4, <2>5
    <3>3. QED
      BY <2>1, <2>2, <3>1, <3>2 DEF Before
  <2>6. CASE z < x
    <3>1. a[z] < c[z]
      BY <2>2, <2>3, <2>4, <2>6
    <3>2. \A y \in 1..(z - 1) : a[y] = c[y]
      BY <2>3, <2>4, <2>6
    <3>3. QED
      BY <2>1, <2>2, <3>1, <3>2 DEF Before
  <2>7. CASE x = z
    <3>1. a[x] < c[x]
      <4>1. a[x] \in Int /\ b[x] \in Int /\ c[x] \in Int
        BY <2>2
      <4>2. QED
        BY <2>3, <2>4, <2>7, <4>1
    <3>2. \A y \in 1..(x - 1) : a[y] = c[y]
      BY <2>3, <2>4, <2>7
    <3>3. QED
      BY <2>1, <2>2, <3>1, <3>2 DEF Before
  <2>8. QED
    BY <2>5, <2>6, <2>7
<1>3. ASSUME NEW k \in 1..n, NEW l \in 1..n, k # l
      PROVE  Before(keys[k], keys[l]) \/ Before(keys[l], keys[k])
  <2>1. PICK a, b : a = keys[k] /\ b = keys[l]
    OBVIOUS
  <2>2. a \in [1..m -> Int] /\ b \in [1..m -> Int] /\ a[m] # b[m]
    BY <1>3, <2>1
  <2>3. PICK apart : apart = {x \in 1..m : a[x] # b[x]}
    OBVIOUS
  <2>4. apart \in SUBSET (1..m) /\ m \in 1..m /\ m \in Nat
    BY <2>3
  <2>5. PICK x \in apart : \A y \in apart : x <= y
    <3>1. m \in apart
      BY <2>2, <2>3, <2>4
    <3>2. apart # {}
      BY <3>1
    <3>3. QED
      BY <2>4, <3>2, FirstPosition
  <2>6. \A y \in 1..(x - 1) : a[y] = b[y]
    <3>1. ASSUME NEW y \in 1..(x - 1) PROVE y \in 1..m /\ ~ x <= y
      BY <2>4, <2>5
    <3>2. QED
      BY <2>3, <2>5, <3>1
  <2>7. a[x] < b[x] \/ b[x] < a[x]
    <3>1. a[x] \in Int /\ b[x] \in Int /\ a[x] # b[x]
      BY <2>2, <2>3, <2>5
    <3>2. QED
      BY <3>1
  <2>8. x \in DOMAIN a /\ x \in DOMAIN b
    BY <2>2, <2>3, <2>5
  <2>9. Before(a, b) \/ Before(b, a)
    BY <2>6, <2>7, <2>8 DEF Before
  <2>10. QED
    BY <2>1, <2>9
<1>4. QED
  BY <1>1, <1>2, <1>3 DEF Ordered

\* The places of the keys: every place from 1 to n is taken once, and the
\* place of a key that stands before another is smaller.
LEMMA Places ==
    ASSUME NEW n \in Nat, NEW keys, Ordered(keys, n)
    PROVE  /\ \A k \in 1..n : Place(keys, k) \in 1..n
           /\ \A k, l \in 1..n : Before(keys[k], keys[l]) => Place(keys, k) < Place(keys, l)
           /\ \A p \in 1..n : \E k \in 1..n : Place(keys, k) = p
<1>1. PICK behind : behind = [k \in 1..n |-> {l \in 1..n : Before(keys[l], keys[k])}]
  OBVIOUS
<1>2. IsFiniteSet(1..n) /\ Cardinality(1..n) = n
  BY FS_Interval
<1>3. ASSUME NEW k \in 1..n
      PROVE  /\ IsFiniteSet(behind[k]) /\ Place(keys, k) = 1 + Cardinality(behind[k])
             /\ Cardinality(behind[k]) \in 0..(n - 1)
  <2>1. behind[k] \in SUBSET (1..n) /\ k \notin behind[k]
    BY <1>1 DEF Ordered
  <2>2. IsFiniteSet(behind[k]) /\ Cardinality(behind[k]) \in Nat
        /\ Cardinality(behind[k]) <= n /\ (n = Cardinality(behind[k]) => 1..n = behind[k])
    BY <1>2, <2>1, FS_Subset, FS_CardinalityType
  <2>3. Place(keys, k) = 1 + Cardinality(behind[k])
    BY <1>1 DEF Place, Ordered
  <2>4. QED
    BY <2>1, <2>2, <2>3
<1>4. ASSUME NEW k \in 1..n, NEW l \in 1..n, Before(keys[k], keys[l])
      PROVE  Place(keys, k) < Place(keys, l)
  <2>1. behind[k] \subseteq behind[l] /\ k \in behind[l] /\ k \notin behind[k]
    BY <1>1, <1>4 DEF Ordered
  <2>2. Cardinality(behind[k]) <= Cardinality(behind[l])
        /\ (Cardinality(behind[l]) = Cardinality(behind[k]) => behind[l] = behind[k])
    BY <1>3, <2>1, FS_Subset
  <2>3. Cardinality(behind[k]) \in Int /\ Cardinality(behind[l]) \in Int
    BY <1>3
  <2>4. Cardinality(behind[k]) < Cardinality(behind[l])
    BY <2>1, <2>2, <2>3
  <2>5. QED
    BY <1>3, <2>3, <2>4
<1>5. \A k \in 1..n : Place(keys, k) \in 1..n
  <2>1. ASSUME NEW k \in 1..n PROVE Place(keys, k) \in 1..n
    <3>1. PICK c \in 0..(n - 1) : c = Cardinality(behind[k])
      BY <1>3
    <3>2. Place(keys, k) = 1 + c
      BY <1>3, <3>1
    <3>3. QED
      BY <3>1, <3>2
  <2>2. QED
    BY <2>1
<1>6. PICK place : place = [k \in 1..n |-> Place(keys, k)]
  OBVIOUS
<1>7. place \in Injection(1..n, 1..n)
  <2>1. place \in [1..n -> 1..n]
    BY <1>5, <1>6
  <2>2. ASSUME NEW k \in 1..n, NEW l \in 1..n, k # l PROVE place[k] # place[l]
    <3>1. Before(keys[k], keys[l]) \/ Before(keys[l], keys[k])
      BY <2>2 DEF Ordered
    <3>2. place[k] < place[l] \/ place[l] < place[k]
      BY <1>4, <1>6, <3>1
    <3>3. place[k] \in Int /\ place[l] \in Int
      BY <2>1
    <3>4. QED
      BY <3>2, <3>3
  <2>3. QED
    BY <2>1, <2>2 DEF Injection, IsInjective
<1>8. place \in Surjection(1..n, 1..n)
  BY <1>2, <1>7, FS_Injection
<1>9. \A p \in 1..n : \E k \in 1..n : Place(keys, k) = p
  BY <1>6, <1>8 DEF Surjection
<1>10. QED
  BY <1>4, <1>5, <1>9

\* Sorting takes every row once, in the order of the keys.
Permuted(rows, sorted, n, from) ==
    /\ from \in Bijection(1..n, 1..n)
    /\ DOMAIN sorted = 1..n /\ sorted = [p \in 1..n |-> sorted[p]]
    /\ \A p \in 1..n : sorted[p] = rows[from[p]]
Ranks(keys, n, from) ==
    \A p, q \in 1..n : p < q => Before(keys[from[p]], keys[from[q]])
\* Sorted is such an arrangement, for keys that are totally ordered.
LEMMA SortedPermutes ==
    ASSUME NEW n \in Nat, NEW rows, DOMAIN rows = 1..n, NEW keys, Ordered(keys, n)
    PROVE  \E from : /\ Permuted(rows, Sorted(rows, keys), n, from)
                     /\ Ranks(keys, n, from)
<1>1. PICK from : from = [p \in 1..n |-> CHOOSE k \in 1..n : Place(keys, k) = p]
  OBVIOUS
<1>2. \A p \in 1..n : from[p] \in 1..n /\ Place(keys, from[p]) = p
  BY <1>1, Places
<1>3. from \in [1..n -> 1..n]
  BY <1>1, <1>2
<1>4. from \in Injection(1..n, 1..n)
  BY <1>2, <1>3 DEF Injection, IsInjective
<1>5. IsFiniteSet(1..n)
  BY FS_Interval
<1>6. from \in Surjection(1..n, 1..n)
  BY <1>4, <1>5, FS_Injection
<1>7. PICK sorted : sorted = Sorted(rows, keys)
  OBVIOUS
<1>8. sorted = [p \in 1..n |-> rows[from[p]]]
  BY <1>1, <1>7 DEF Sorted
<1>9. Permuted(rows, sorted, n, from)
  BY <1>4, <1>6, <1>8 DEF Permuted, Bijection
<1>10. ASSUME NEW p \in 1..n, NEW q \in 1..n, p < q
       PROVE  Before(keys[from[p]], keys[from[q]])
  <2>1. from[p] # from[q]
    BY <1>2, <1>10
  <2>2. CASE Before(keys[from[q]], keys[from[p]])
    <3>1. Place(keys, from[q]) < Place(keys, from[p])
      BY <1>2, <2>2, Places
    <3>2. q < p
      BY <1>2, <3>1
    <3>3. QED
      BY <1>10, <3>2
  <2>3. QED
    BY <1>2, <2>1, <2>2 DEF Ordered
<1>11. QED
  BY <1>7, <1>9, <1>10 DEF Ranks

-----------------------------------------------------------------------------
(* Sums *)

\* The equation SumFunction solves: the sum over every part of the set.
Pick(s) == CHOOSE x \in s : TRUE
Adds(sums, f, S) ==
    sums = [s \in SUBSET S |-> IF s = {} THEN 0 ELSE f[Pick(s)] + sums[s \ {Pick(s)}]]
AddsOn(sums, f, T) ==
    \A s \in SUBSET T : sums[s] = IF s = {} THEN 0 ELSE f[Pick(s)] + sums[s \ {Pick(s)}]

\* A choice from a set that is not empty is one of its members.
LEMMA Picked == ASSUME NEW s, s # {} PROVE Pick(s) \in s
BY DEF Pick

\* There is no more than one sum of each part.
LEMMA SumsAgree ==
    ASSUME NEW T, IsFiniteSet(T), NEW f, NEW g, AddsOn(g, f, T), NEW h, AddsOn(h, f, T)
    PROVE  \A s \in SUBSET T : g[s] = h[s]
<1>1. PICK B : B = {s \in SUBSET T : g[s] # h[s]}
  OBVIOUS
<1>2. SUFFICES ASSUME B # {} PROVE FALSE
  BY <1>1
<1>3. PICK s \in B : \A U \in SUBSET s : U # s => U \notin B
  <2>1. B \in SUBSET (SUBSET T)
    BY <1>1
  <2>2. QED
    BY <1>2, <2>1, SmallestSubset
<1>4. s \in SUBSET T /\ g[s] # h[s]
  BY <1>1
<1>5. CASE s = {}
  BY <1>4, <1>5 DEF AddsOn
<1>6. CASE s # {}
  <2>1. PICK u : u = s \ {Pick(s)}
    OBVIOUS
  <2>2. u \in SUBSET s /\ u # s /\ u \in SUBSET T
    BY <1>4, <1>6, <2>1, Picked
  <2>3. g[u] = h[u]
    BY <1>1, <1>3, <2>2
  <2>4. g[s] = f[Pick(s)] + g[u] /\ h[s] = f[Pick(s)] + h[u]
    BY <1>4, <1>6, <2>1 DEF AddsOn
  <2>5. QED
    BY <1>4, <2>3, <2>4
<1>7. QED
  BY <1>5, <1>6

\* There are sums over the parts of a finite set: a smallest subset without
\* them would get its own from those of its proper subsets.
LEMMA SumsOn ==
    ASSUME NEW S, IsFiniteSet(S), NEW f
    PROVE  \E sums : AddsOn(sums, f, S)
<1>1. PICK B : B = {T \in SUBSET S : ~ \E sums : AddsOn(sums, f, T)}
  OBVIOUS
<1>2. SUFFICES ASSUME B # {} PROVE FALSE
  BY <1>1
<1>3. PICK T \in B : \A U \in SUBSET T : U # T => U \notin B
  <2>1. B \in SUBSET (SUBSET S)
    BY <1>1
  <2>2. QED
    BY <1>2, <2>1, SmallestSubset
<1>4. T \in SUBSET S /\ ~ \E sums : AddsOn(sums, f, T)
  BY <1>1
<1>5. PICK of : of = [U \in SUBSET T |-> CHOOSE sums : AddsOn(sums, f, U)]
  OBVIOUS
<1>6. ASSUME NEW U \in SUBSET T, U # T PROVE AddsOn(of[U], f, U)
  <2>1. \E sums : AddsOn(sums, f, U)
    BY <1>1, <1>3, <1>4, <1>6
  <2>2. of[U] = CHOOSE sums : AddsOn(sums, f, U)
    BY <1>5
  <2>3. QED
    BY <2>1, <2>2
<1>7. PICK g : g = [s \in SUBSET T |->
                      IF s = T /\ s # {} THEN f[Pick(s)] + of[s \ {Pick(s)}][s \ {Pick(s)}]
                      ELSE IF s = {} THEN 0 ELSE of[s][s]]
  OBVIOUS
<1>8. ASSUME NEW u \in SUBSET T, u # T PROVE g[u] = of[u][u]
  <2>1. u = {} => of[u][u] = 0
    BY <1>6, <1>8 DEF AddsOn
  <2>2. QED
    BY <1>7, <1>8, <2>1
<1>9. ASSUME NEW s \in SUBSET T
      PROVE  g[s] = IF s = {} THEN 0 ELSE f[Pick(s)] + g[s \ {Pick(s)}]
  <2>1. CASE s = {}
    BY <1>7, <2>1
  <2>2. CASE s # {}
    <3>1. PICK u : u = s \ {Pick(s)}
      OBVIOUS
    <3>2. u \in SUBSET s /\ u \in SUBSET T /\ u # T /\ u # s
      BY <2>2, <3>1, Picked
    <3>3. g[u] = of[u][u]
      BY <1>8, <3>2
    <3>4. CASE s = T
      BY <1>7, <2>2, <3>1, <3>3, <3>4
    <3>5. CASE s # T
      <4>1. AddsOn(of[s], f, s) /\ AddsOn(of[u], f, u)
        BY <1>6, <3>2, <3>5
      <4>2. of[s][s] = f[Pick(s)] + of[s][u]
        BY <2>2, <3>1, <4>1 DEF AddsOn
      <4>3. AddsOn(of[s], f, u)
        BY <3>2, <4>1 DEF AddsOn
      <4>4. IsFiniteSet(u)
        BY <1>4, <3>2, FS_Subset
      <4>5. of[s][u] = of[u][u]
        BY <4>1, <4>3, <4>4, SumsAgree
      <4>6. g[s] = of[s][s]
        BY <1>7, <2>2, <3>5
      <4>7. QED
        BY <2>2, <3>1, <3>3, <4>2, <4>5, <4>6
    <3>6. QED
      BY <3>4, <3>5
  <2>3. QED
    BY <2>1, <2>2
<1>10. AddsOn(g, f, T)
  BY <1>9 DEF AddsOn
<1>11. QED
  BY <1>4, <1>10

\* SumFunction solves the equation.
LEMMA SumAdds ==
    ASSUME NEW S, IsFiniteSet(S), NEW f, DOMAIN f = S
    PROVE  \E sums : AddsOn(sums, f, S) /\ SumFunction(f) = sums[S]
<1>1. PICK g : AddsOn(g, f, S)
  BY SumsOn
<1>2. PICK h : h = [s \in SUBSET S |-> g[s]]
  OBVIOUS
<1>3. ASSUME NEW s \in SUBSET S
      PROVE  h[s] = IF s = {} THEN 0 ELSE f[Pick(s)] + h[s \ {Pick(s)}]
  <2>1. s \ {Pick(s)} \in SUBSET S
    OBVIOUS
  <2>2. h[s] = g[s] /\ h[s \ {Pick(s)}] = g[s \ {Pick(s)}]
    BY <1>2, <2>1
  <2>3. QED
    BY <1>1, <2>2 DEF AddsOn
<1>4. Adds(h, f, S)
  BY <1>2, <1>3 DEF Adds
<1>5. PICK sums : sums = CHOOSE x : Adds(x, f, S)
  OBVIOUS
<1>6. Adds(sums, f, S)
  BY <1>4, <1>5
<1>7. SumFunction(f) = sums[S]
  BY <1>5 DEF SumFunction, SumFunctionOnSet, FoldFunctionOnSet, MapThenFoldSet, Adds, Pick
<1>8. \A s \in SUBSET S :
         sums[s] = IF s = {} THEN 0 ELSE f[Pick(s)] + sums[s \ {Pick(s)}]
  BY <1>6 DEF Adds
<1>9. AddsOn(sums, f, S)
  BY <1>8 DEF AddsOn
<1>10. QED
  BY <1>7, <1>9

\* A sum of integers is one, and a sum of naturals is positive when one of
\* them is.
LEMMA SumIsInt ==
    ASSUME NEW S, IsFiniteSet(S), NEW f \in [S -> Int]
    PROVE  SumFunction(f) \in Int
<1>1. PICK sums : AddsOn(sums, f, S) /\ SumFunction(f) = sums[S]
  BY SumAdds
<1>2. PICK B : B = {s \in SUBSET S : sums[s] \notin Int}
  OBVIOUS
<1>3. B = {}
  <2>1. SUFFICES ASSUME B # {} PROVE FALSE
    OBVIOUS
  <2>2. B \in SUBSET (SUBSET S)
    BY <1>2
  <2>3. PICK s \in B : \A U \in SUBSET s : U # s => U \notin B
    BY <2>1, <2>2, SmallestSubset
  <2>4. s \in SUBSET S /\ sums[s] \notin Int
    BY <1>2
  <2>5. s # {}
    BY <1>1, <2>4 DEF AddsOn
  <2>6. PICK u : u = s \ {Pick(s)}
    OBVIOUS
  <2>7. u \in SUBSET s /\ u # s /\ u \in SUBSET S /\ Pick(s) \in S
    BY <2>4, <2>5, <2>6, Picked
  <2>8. sums[u] \in Int /\ f[Pick(s)] \in Int
    BY <1>2, <2>3, <2>7
  <2>9. sums[s] = f[Pick(s)] + sums[u]
    BY <1>1, <2>4, <2>5, <2>6 DEF AddsOn
  <2>10. QED
    BY <2>4, <2>8, <2>9
<1>4. S \notin B /\ S \in SUBSET S
  BY <1>3
<1>5. QED
  BY <1>1, <1>2, <1>4

\* A sum of positive numbers is positive if there is one.
LEMMA SumIsPositive ==
    ASSUME NEW S, IsFiniteSet(S), NEW f \in [S -> Nat \ {0}], S # {}
    PROVE  SumFunction(f) \in Nat \ {0}
<1>1. PICK sums : AddsOn(sums, f, S) /\ SumFunction(f) = sums[S]
  BY SumAdds
<1>2. PICK B : B = {s \in SUBSET S : ~ (sums[s] \in Nat /\ (s # {} => sums[s] # 0))}
  OBVIOUS
<1>3. B = {}
  <2>1. SUFFICES ASSUME B # {} PROVE FALSE
    OBVIOUS
  <2>2. B \in SUBSET (SUBSET S)
    BY <1>2
  <2>3. PICK s \in B : \A U \in SUBSET s : U # s => U \notin B
    BY <2>1, <2>2, SmallestSubset
  <2>4. s \in SUBSET S /\ ~ (sums[s] \in Nat /\ (s # {} => sums[s] # 0))
    BY <1>2
  <2>5. s # {}
    BY <1>1, <2>4 DEF AddsOn
  <2>6. PICK u : u = s \ {Pick(s)}
    OBVIOUS
  <2>7. u \in SUBSET s /\ u # s /\ u \in SUBSET S /\ Pick(s) \in S
    BY <2>4, <2>5, <2>6, Picked
  <2>8. sums[u] \in Nat /\ f[Pick(s)] \in Nat \ {0}
    BY <1>2, <2>3, <2>7
  <2>9. sums[s] = f[Pick(s)] + sums[u]
    BY <1>1, <2>4, <2>5, <2>6 DEF AddsOn
  <2>10. QED
    BY <2>4, <2>8, <2>9
<1>4. S \notin B /\ S \in SUBSET S
  BY <1>3
<1>5. QED
  BY <1>1, <1>2, <1>4

-----------------------------------------------------------------------------
(* The conditions of a plan *)

\* A condition is found by its id where ids are not shared.
Unique(conditions) == \A c, d \in conditions : c.id = d.id => c = d
\* ById finds the condition.
LEMMA Found ==
    ASSUME NEW conditions, Unique(conditions), NEW c \in conditions
    PROVE  ById(conditions, c.id) = c
<1>1. PICK d : d = ById(conditions, c.id)
  OBVIOUS
<1>2. d \in conditions /\ d.id = c.id
  BY <1>1 DEF ById
<1>3. QED
  BY <1>1, <1>2 DEF Unique

\* The conditions about the picture: there are finitely many, each about a
\* place the texts and margins have a value for.
VisualSound(p) ==
    /\ IsFiniteSet(p.visual) /\ \A c \in p.visual : c.at \in 1..MaxClauses
    /\ p.route = "provisional" => p.visual # {}

\* A condition of the candidate route about the text is the price, or what
\* its clause states.
StatedBy(source, c) ==
    \/ c.kind = "price"
    \/ /\ c.at \in DOMAIN source /\ StatesFact(source[c.at])
       /\ c = Requirement(FactOf(source, c.at))

\* What the ranking relies on: every condition has an id of its own, and on
\* the candidate route is about a clause the texts have a value for.
SoundPlan(p) ==
    /\ VisualSound(p)
    /\ IsFiniteSet(p.conditions) /\ Unique(p.conditions)
    /\ \A c \in p.conditions : c.kind \in {"number", "labelled", "common", "price"}
    /\ Amounts(p.target)
    /\ p.route = "candidate" =>
         /\ Unique(p.conditions \cup p.visual)
         /\ \A c \in p.conditions : c.at \in 1..MaxClauses /\ StatedBy(p.source, c)
         /\ \A c \in p.visual : c.kind = "visual"

ConditionsInv ==
    /\ VisualSound(plan)
    /\ state = "extracting" => Len(plan.source) <= MaxClauses
    /\ state \notin Unmade \cup {"failed"} => SoundPlan(plan)

\* The look a row asks for, by its place.
LookOf(source, i) ==
    [id |-> <<i, "look">>, kind |-> "visual", label |-> NoName,
     strength |-> Strength(source[i]), accepted |-> {}, at |-> i]

\* The conditions Build makes.
LEMMA BuiltSound ==
    ASSUME NEW source, DOMAIN source = 1..Len(source), Len(source) \in Nat,
           Len(source) <= MaxClauses,
           NEW parsed, NEW rows, RowsFit(source, parsed, rows),
           NEW p, p.conditions = CandidateConditions(source, rows),
           p.visual = {VisualRequirement(r) : r \in rows},
           p.source = source, p.route = "candidate", p.target = NoPrice
    PROVE  SoundPlan(p)
<1>1. PICK n \in Nat : n = Len(source)
  OBVIOUS
<1>2. IsFiniteSet(1..n) /\ DOMAIN source = 1..n /\ n <= MaxClauses
  BY <1>1, FS_Interval
<1>3. 1..n \subseteq 1..MaxClauses
  BY <1>2, ProductSearchAssumption
<1>4. PICK looks, facts, price :
         /\ looks = {LookOf(source, i) : i \in 1..n}
         /\ facts = {Requirement(FactOf(source, i)) : i \in 1..n}
         /\ price = PriceRequirement(CHOOSE i \in Prices(source) :
                                         \A j \in Prices(source) : i <= j,
                      Strength(source[CHOOSE i \in Prices(source) :
                                          \A j \in Prices(source) : i <= j]),
                      ExplicitPrice(source, Neutral(source)))
  OBVIOUS
<1>5. IsFiniteSet(looks) /\ IsFiniteSet(facts)
  <2>1. PICK g, h : g = [i \in 1..n |-> LookOf(source, i)]
                      /\ h = [i \in 1..n |-> Requirement(FactOf(source, i))]
    OBVIOUS
  <2>2. /\ DOMAIN g = 1..n /\ looks = {g[i] : i \in 1..n}
        /\ DOMAIN h = 1..n /\ facts = {h[i] : i \in 1..n}
    BY <1>4, <2>1
  <2>3. QED
    BY <1>2, <2>2, ImageFinite
<1>6. ASSUME NEW r \in rows
      PROVE  /\ VisualRequirement(r) \in looks
             /\ VisualRequirement(r) = LookOf(source, r.at) /\ r.at \in 1..n
  <2>1. r.at \in 1..n /\ r.strength = Strength(source[r.at])
    BY <1>2 DEF RowsFit, VisualClauses
  <2>2. VisualRequirement(r) = LookOf(source, r.at)
    BY <2>1 DEF VisualRequirement, LookOf
  <2>3. QED
    BY <1>4, <2>1, <2>2
<1>7. ASSUME NEW f \in QueryFacts(source, rows)
      PROVE  /\ Requirement(f) \in facts /\ f.at \in 1..n /\ StatesFact(source[f.at])
             /\ Requirement(f) = Requirement(FactOf(source, f.at))
             /\ Requirement(f).at = f.at
  <2>1. f.at \in 1..n /\ f = FactOf(source, f.at) /\ StatesFact(source[f.at])
    BY <1>2, QueryFact
  <2>2. Requirement(f).at = f.at
    BY DEF Requirement
  <2>3. QED
    BY <1>4, <2>1, <2>2
<1>8. ASSUME NEW c \in p.conditions
      PROVE  \/ /\ c \in facts /\ c.at \in 1..n /\ StatesFact(source[c.at])
                /\ c = Requirement(FactOf(source, c.at))
             \/ c = price /\ ExplicitPrice(source, Neutral(source)) # NoPrice
  BY <1>4, <1>7 DEF CandidateConditions
<1>9. ExplicitPrice(source, Neutral(source)) # NoPrice =>
         price.at \in 1..n /\ price.kind = "price" /\ price.id = <<price.at, "price">>
  <2>1. SUFFICES ASSUME ExplicitPrice(source, Neutral(source)) # NoPrice
                 PROVE  price.at \in 1..n /\ price.kind = "price"
                          /\ price.id = <<price.at, "price">>
    OBVIOUS
  <2>2. PICK first : first = CHOOSE i \in Prices(source) : \A j \in Prices(source) : i <= j
    OBVIOUS
  <2>3. first \in Prices(source)
    BY <2>1, <2>2, PriceIsSaid
  <2>4. price = PriceRequirement(first, Strength(source[first]),
                                 ExplicitPrice(source, Neutral(source)))
    BY <1>4, <2>2
  <2>5. QED
    BY <1>2, <2>3, <2>4 DEF Prices, PriceRequirement
<1>10. \A i \in 1..n : /\ Requirement(FactOf(source, i)).id = <<FactOf(source, i).at, "fact">>
                       /\ Requirement(FactOf(source, i)).kind \in {"number", "labelled", "common"}
                       /\ LookOf(source, i).id = <<i, "look">> /\ LookOf(source, i).at = i
                       /\ LookOf(source, i).kind = "visual"
  BY DEF Requirement, LookOf
<1>11. \A c \in p.visual : c = LookOf(source, c.at) /\ c.at \in 1..n /\ c \in looks
  <2>1. ASSUME NEW r \in rows
        PROVE  LookOf(source, r.at).at = r.at
    BY DEF LookOf
  <2>2. QED
    BY <1>6, <2>1
<1>12. \A c \in p.conditions : c.id = <<c.at, "fact">> \/ c.id = <<c.at, "price">>
  <2>1. ASSUME NEW c \in p.conditions PROVE c.id = <<c.at, "fact">> \/ c.id = <<c.at, "price">>
    <3>1. CASE /\ c.at \in 1..n /\ StatesFact(source[c.at])
               /\ c = Requirement(FactOf(source, c.at))
      <4>1. FactOf(source, c.at).at = c.at
        BY <3>1, FactFields
      <4>2. QED
        BY <1>10, <3>1, <4>1
    <3>2. CASE c = price /\ ExplicitPrice(source, Neutral(source)) # NoPrice
      BY <1>9, <3>2
    <3>3. QED
      BY <1>8, <2>1, <3>1, <3>2
  <2>2. QED
    BY <2>1
<1>13. Unique(p.conditions \cup p.visual)
  <2>1. ASSUME NEW c \in p.conditions, NEW d \in p.conditions, c.id = d.id PROVE c = d
    <3>1. c.at = d.at
      BY <1>12, <2>1
    <3>2. CASE c.id = <<c.at, "fact">>
      <4>1. c.id # <<price.at, "price">> /\ d.id # <<price.at, "price">>
        BY <2>1, <3>2
      <4>2. c = Requirement(FactOf(source, c.at)) /\ d = Requirement(FactOf(source, d.at))
        BY <1>8, <1>9, <4>1
      <4>3. QED
        BY <3>1, <4>2
    <3>3. CASE c.id = <<c.at, "price">>
      <4>1. ASSUME NEW x \in p.conditions, x.id = <<x.at, "price">> PROVE x = price
        <5>1. SUFFICES ASSUME /\ x.at \in 1..n /\ StatesFact(source[x.at])
                              /\ x = Requirement(FactOf(source, x.at))
                       PROVE  FALSE
          BY <1>8, <4>1
        <5>2. x.id = <<FactOf(source, x.at).at, "fact">>
          BY <1>10, <5>1
        <5>3. QED
          BY <4>1, <5>2
      <4>2. c = price /\ d = price
        BY <2>1, <3>1, <3>3, <4>1
      <4>3. QED
        BY <4>2
    <3>4. QED
      BY <1>12, <2>1, <3>2, <3>3
  <2>2. ASSUME NEW c \in p.visual, NEW d \in p.visual, c.id = d.id PROVE c = d
    <3>1. c.id = <<c.at, "look">> /\ d.id = <<d.at, "look">>
      BY <1>10, <1>11
    <3>2. c.id[1] = c.at /\ d.id[1] = d.at
      BY <3>1
    <3>3. c.at = d.at
      BY <2>2, <3>2
    <3>4. QED
      BY <1>11, <3>3
  <2>3. ASSUME NEW c \in p.visual, NEW d \in p.conditions PROVE c.id # d.id
    <3>1. c.id = <<c.at, "look">>
      BY <1>10, <1>11
    <3>2. QED
      BY <1>12, <3>1
  <2>4. QED
    BY <2>1, <2>2, <2>3 DEF Unique
<1>14. Unique(p.conditions)
  BY <1>13 DEF Unique
<1>15. IsFiniteSet(p.visual) /\ IsFiniteSet(p.conditions)
  <2>1. p.visual \subseteq looks
    BY <1>11
  <2>2. p.conditions \subseteq facts \cup {price}
    BY <1>8
  <2>3. IsFiniteSet(facts \cup {price})
    BY <1>5, FS_AddElement
  <2>4. QED
    BY <1>5, <2>1, <2>2, <2>3, FS_Subset
<1>16. VisualSound(p)
  BY <1>3, <1>11, <1>15 DEF VisualSound
<1>17. \A c \in p.conditions : c.kind \in {"number", "labelled", "common", "price"}
  BY <1>8, <1>9, <1>10
<1>18. Amounts(p.target)
  BY FS_EmptySet DEF Amounts, NoPrice
<1>19. \A c \in p.conditions : c.at \in 1..MaxClauses /\ StatedBy(p.source, c)
  BY <1>2, <1>3, <1>8, <1>9 DEF StatedBy
<1>20. \A c \in p.visual : c.kind = "visual"
  BY <1>10, <1>11
<1>21. QED
  BY <1>13, <1>14, <1>15, <1>16, <1>17, <1>18, <1>19, <1>20 DEF SoundPlan

\* The price of a sentence whose amounts are amounts of money.
LEMMA PriceAmounts ==
    ASSUME NEW source, DOMAIN source = 1..Len(source), Len(source) \in Nat,
           \A i \in DOMAIN source : source[i].kind = "price" => Amounts(source[i].accepted)
    PROVE  Amounts(ExplicitPrice(source, {}))
<1>1. PICK n \in Nat : n = Len(source)
  OBVIOUS
<1>2. PICK prices, first, last :
         /\ prices = {i \in DOMAIN source \ {} : source[i].kind = "price"}
         /\ first = CHOOSE i \in prices : \A j \in prices : i <= j
         /\ last = CHOOSE i \in prices : \A j \in prices : i >= j
  OBVIOUS
<1>3. Amounts(NoPrice)
  BY FS_EmptySet DEF Amounts, NoPrice
<1>4. prices \in SUBSET (1..n)
  BY <1>1, <1>2
<1>5. prices # {} => first \in prices /\ last \in prices
  <2>1. SUFFICES ASSUME prices # {} PROVE first \in prices /\ last \in prices
    OBVIOUS
  <2>2. IsFiniteSet(prices) /\ prices \subseteq Int
    BY <1>4, Positions
  <2>3. /\ \E x \in prices : \A y \in prices : x <= y
        /\ \E x \in prices : \A y \in prices : x >= y
    BY <2>1, <2>2, Extremes
  <2>4. QED
    BY <1>2, <2>3
<1>6. Cardinality({}) = 0
  BY FS_EmptySet
<1>7. prices # {} => Amounts(source[first].accepted)
                       /\ Amounts(source[first].accepted \cap source[last].accepted)
  <2>1. SUFFICES ASSUME prices # {}
                 PROVE  Amounts(source[first].accepted)
                          /\ Amounts(source[first].accepted \cap source[last].accepted)
    OBVIOUS
  <2>2. PICK a, b : a = source[first].accepted /\ b = source[last].accepted
    OBVIOUS
  <2>3. Amounts(a)
    BY <1>2, <1>5, <2>1, <2>2
  <2>4. IsFiniteSet(a) /\ a \cap b \in SUBSET a
    BY <2>3 DEF Amounts
  <2>5. IsFiniteSet(a \cap b)
    BY <2>4, FS_Subset
  <2>6. Amounts(a \cap b)
    BY <2>3, <2>5 DEF Amounts
  <2>7. QED
    BY <2>2, <2>3, <2>6
<1>8. ExplicitPrice(source, {})
        \in {NoPrice, source[first].accepted, source[first].accepted \cap source[last].accepted}
  BY <1>2 DEF ExplicitPrice
<1>9. prices = {} => ExplicitPrice(source, {}) = NoPrice
  <2>1. SUFFICES ASSUME prices = {} PROVE ExplicitPrice(source, {}) = NoPrice
    OBVIOUS
  <2>2. Cardinality(prices) = 0
    BY <1>6, <2>1
  <2>3. QED
    BY <1>2, <2>2 DEF ExplicitPrice
<1>10. QED
  BY <1>3, <1>7, <1>8, <1>9

\* A reply names finitely many conditions, and the sentence adds finitely
\* many materials.
LEMMA MaterialsFinite ==
    ASSUME NEW source, DOMAIN source = 1..Len(source), Len(source) \in Nat,
           NEW reply, ReplyAssumption(reply)
    PROVE  IsFiniteSet(WithMaterials(source, reply))
<1>1. PICK n \in Nat : n = Len(source)
  OBVIOUS
<1>2. IsFiniteSet(1..n) /\ DOMAIN source = 1..n
  BY <1>1, FS_Interval
<1>3. IsFiniteSet(MaterialTerms(source, reply))
  <2>1. PICK g : g = [i \in 1..n |-> [accepted |-> source[i].accepted, strength |-> "excluded"]]
    OBVIOUS
  <2>2. PICK T : T = {g[i] : i \in 1..n}
    OBVIOUS
  <2>3. IsFiniteSet(T)
    <3>1. DOMAIN g = 1..n
      BY <2>1
    <3>2. QED
      BY <1>2, <2>2, <3>1, ImageFinite
  <2>4. IsFiniteSet(reply.terms)
    BY DEF ReplyAssumption
  <2>5. IsFiniteSet(reply.terms \cup T)
    BY <2>3, <2>4, FS_Union
  <2>6. MaterialTerms(source, reply) \subseteq reply.terms \cup T
    BY <1>2, <2>1, <2>2 DEF MaterialTerms, Unwanted
  <2>7. QED
    BY <2>5, <2>6, FS_Subset
<1>4. PICK kept : kept = Grounded(source, reply.claims)
  OBVIOUS
<1>5. IsFiniteSet(kept)
  <2>1. kept \in SUBSET reply.claims /\ IsFiniteSet(reply.claims)
    BY <1>4 DEF Grounded, ReplyAssumption
  <2>2. QED
    BY <2>1, FS_Subset
<1>6. PICK g, missing :
        /\ missing = {u \in MaterialTerms(source, reply) :
                        ~ \E k \in kept : /\ k.label = Material /\ k.strength = u.strength
                                          /\ k.accepted = u.accepted}
        /\ g = [t \in missing |->
                  Claim(Fact(CHOOSE i \in WordOf(source, Material, t.accepted) :
                               \A j \in WordOf(source, Material, t.accepted) : i <= j,
                             "common", Material, t.accepted, t.strength), FALSE)]
  OBVIOUS
<1>7. IsFiniteSet({g[t] : t \in missing})
  <2>1. IsFiniteSet(missing)
    BY <1>3, <1>6, FS_Subset
  <2>2. DOMAIN g = missing
    BY <1>6
  <2>3. QED
    BY <2>1, <2>2, ImageFinite
<1>8. WithMaterials(source, reply) = kept \cup {g[t] : t \in missing}
  BY <1>4, <1>6 DEF WithMaterials
<1>9. PICK added : added = {g[t] : t \in missing}
  OBVIOUS
<1>10. IsFiniteSet(kept \cup added)
  BY <1>5, <1>7, <1>9, FS_Union
<1>11. QED
  BY <1>8, <1>9, <1>10

\* The conditions of an intent.
LEMMA IntentSound ==
    ASSUME NEW source, DOMAIN source = 1..Len(source), Len(source) \in Nat,
           \A i \in DOMAIN source : source[i].kind = "price" => Amounts(source[i].accepted),
           NEW reply, ReplyAssumption(reply),
           NEW p, p.conditions = IntentConditions(source, reply),
           p.target = IntentPrice(source, reply), p.route # "candidate", VisualSound(p)
    PROVE  SoundPlan(p)
<1>1. PICK claims : claims = WithMaterials(source, reply)
  OBVIOUS
<1>2. IsFiniteSet(claims)
  BY <1>1, MaterialsFinite
<1>3. PICK g : g = [k \in claims |->
                     [id |-> <<k.at, k.kind, k.label, k.accepted, k.strength, k.whole>>,
                      strength |-> k.strength, accepted |-> k.accepted, at |-> k.at,
                      label |-> k.label,
                      kind |-> IF k.kind = "common" THEN "common" ELSE "labelled"]]
  OBVIOUS
<1>4. p.conditions = {g[k] : k \in claims} /\ DOMAIN g = claims
  BY <1>1, <1>3 DEF IntentConditions
<1>5. IsFiniteSet(p.conditions)
  BY <1>2, <1>4, ImageFinite
<1>6. Unique(p.conditions)
  <2>1. ASSUME NEW k \in claims, NEW l \in claims, g[k].id = g[l].id PROVE g[k] = g[l]
    <3>1. <<k.at, k.kind, k.label, k.accepted, k.strength, k.whole>>
            = <<l.at, l.kind, l.label, l.accepted, l.strength, l.whole>>
      BY <1>3, <2>1
    <3>2. /\ k.at = l.at /\ k.kind = l.kind /\ k.label = l.label
          /\ k.accepted = l.accepted /\ k.strength = l.strength
      BY <3>1
    <3>3. QED
      BY <1>3, <3>1, <3>2
  <2>2. QED
    BY <1>4, <2>1 DEF Unique
<1>7. \A c \in p.conditions : c.kind \in {"number", "labelled", "common", "price"}
  BY <1>3, <1>4
<1>8. Amounts(p.target)
  BY PriceAmounts DEF IntentPrice, ReplyAssumption
<1>9. QED
  BY <1>5, <1>6, <1>7, <1>8 DEF SoundPlan

\* What a plan has of its request.
LEMMA RequestFacts ==
    ASSUME PlanInv
    PROVE  /\ \A i \in DOMAIN plan.source :
                 plan.source[i].kind = "price" => Amounts(plan.source[i].accepted)
           /\ \A reply \in plan.replies : ReplyAssumption(reply)
           /\ plan.offer \in DOMAIN Entries /\ plan.bilingual \in BOOLEAN
<1>1. PICK r \in Requests : OfRequest(plan, r)
  BY DEF PlanInv
<1>2. RequestAssumption(r)
  BY ProductSearchAssumption
<1>3. QED
  BY <1>1, <1>2 DEF OfRequest, RequestAssumption

\* The conditions of a candidate plan are finite, have strengths and share no id.
LEMMA ConditionsBuilt ==
    ASSUME PlanInv, ConditionsInv, plan.route = "candidate",
           Len(plan.source) <= MaxClauses,
           NEW rows, RowsFit(plan.source, plan.parsed, rows), Build(rows)
    PROVE  ConditionsInv'
<1>1. CASE QueriesBuilt(plan.source, plan.parsed, rows)
  <2>1. PICK source, parsed : source = plan.source /\ parsed = plan.parsed
    OBVIOUS
  <2>2. Planned(CandidateConditions(source, rows), {VisualRequirement(r) : r \in rows},
                plan.queries, NoPrice)
    BY <1>1, <2>1 DEF Build
  <2>3. DOMAIN plan = PlanFields
    BY DEF PlanInv
  <2>4. /\ plan'.conditions = CandidateConditions(source, rows)
        /\ plan'.visual = {VisualRequirement(r) : r \in rows}
        /\ plan'.target = NoPrice /\ plan'.source = source
        /\ plan'.route = "candidate" /\ state' = "retrieval_review"
    BY <2>1, <2>2, <2>3, PlannedFacts
  <2>5. /\ DOMAIN source = 1..Len(source) /\ Len(source) \in Nat /\ Len(source) <= MaxClauses
        /\ RowsFit(source, parsed, rows)
    BY <2>1, SourceFacts
  <2>6. PICK q : q = plan'
    OBVIOUS
  <2>7. SoundPlan(q)
    BY <2>4, <2>5, <2>6, BuiltSound
  <2>8. SoundPlan(plan') /\ VisualSound(plan')
    BY <2>6, <2>7 DEF SoundPlan
  <2>9. QED
    BY <2>4, <2>8 DEF ConditionsInv
<1>2. CASE ~ QueriesBuilt(plan.source, plan.parsed, rows)
  BY <1>2 DEF Build, Refuse, Fail, ConditionsInv
<1>3. QED
  BY <1>1, <1>2

\* Preparing a plan keeps the conditions sound.
LEMMA ConditionsPrepared ==
    ASSUME PlanInv, ConditionsInv, Prepare
    PROVE  ConditionsInv'
<1>1. plan.route = "candidate"
  BY DEF Prepare
<1>2. PICK clauses : clauses = VisualClauses(plan.source, plan.parsed)
  OBVIOUS
<1>3. ASSUME NEW stage, Refuse(stage) PROVE ConditionsInv'
  BY <1>3 DEF Refuse, Fail, ConditionsInv
<1>4. CASE \/ ~ Analyzable(plan.source) \/ Contradictory(AllFacts(plan.source))
  BY <1>3, <1>4 DEF Prepare
<1>5. CASE \/ Refuse("product_scope") \/ Refuse("visual_count") \/ Refuse("empty_conditions")
  BY <1>3, <1>5
<1>6. CASE /\ Analyzable(plan.source)
           /\ \/ Build(VisualRows(plan.source, clauses))
              \/ Build({})
              \/ state' = "extracting" /\ UNCHANGED <<plan, failure>>
  <2>1. RowsFit(plan.source, plan.parsed, VisualRows(plan.source, clauses))
    BY <1>2 DEF RowsFit, VisualRows
  <2>2. RowsFit(plan.source, plan.parsed, {})
    BY DEF RowsFit
  <2>3. Len(plan.source) <= MaxClauses
    BY <1>6 DEF Analyzable
  <2>4. CASE state' = "extracting" /\ UNCHANGED <<plan, failure>>
    BY <2>3, <2>4 DEF ConditionsInv, Unmade
  <2>5. QED
    BY <1>1, <1>6, <2>1, <2>2, <2>3, <2>4, ConditionsBuilt
<1>7. QED
  BY <1>2, <1>4, <1>5, <1>6 DEF Prepare

\* The answer of the model gives sound conditions.
LEMMA ConditionsAnswered ==
    ASSUME PlanInv, ConditionsInv, NEW reply \in plan.replies, Answer(reply)
    PROVE  ConditionsInv'
<1>1. plan.route # "candidate"
  BY DEF PlanInv, Answer
<1>2. PICK conditions : conditions = IntentConditions(plan.source, reply)
  OBVIOUS
<1>3. CASE Refuse("request") \/ Refuse("response")
  BY <1>3 DEF Refuse, Fail, ConditionsInv
<1>4. CASE state' = "blocked" /\ UNCHANGED <<plan, failure>>
  BY <1>4 DEF ConditionsInv, Unmade
<1>5. CASE Planned(conditions, plan.visual, IF reply.english THEN 2 ELSE 1,
                   IntentPrice(plan.source, reply))
  <2>1. PICK source : source = plan.source
    OBVIOUS
  <2>2. DOMAIN plan = PlanFields
    BY DEF PlanInv
  <2>3. /\ plan'.conditions = conditions /\ plan'.visual = plan.visual
        /\ plan'.target = IntentPrice(source, reply)
        /\ plan'.route = plan.route /\ state' = "retrieval_review"
    BY <1>5, <2>1, <2>2, PlannedFacts
  <2>4. VisualSound(plan')
    BY <2>3 DEF ConditionsInv, VisualSound
  <2>5. /\ DOMAIN source = 1..Len(source) /\ Len(source) \in Nat
        /\ \A i \in DOMAIN source : source[i].kind = "price" => Amounts(source[i].accepted)
        /\ ReplyAssumption(reply)
    BY <2>1, SourceFacts, RequestFacts
  <2>6. PICK q : q = plan'
    OBVIOUS
  <2>7. SoundPlan(q)
    BY <1>1, <1>2, <2>1, <2>3, <2>4, <2>5, <2>6, IntentSound
  <2>8. SoundPlan(plan')
    BY <2>6, <2>7
  <2>9. QED
    BY <2>3, <2>4, <2>8 DEF ConditionsInv
<1>6. QED
  BY <1>2, <1>3, <1>4, <1>5 DEF Answer

\* A plan that stays is as sound as before.
LEMMA ConditionsStay ==
    ASSUME ConditionsInv, plan' = plan, state' # "extracting",
           state' \notin Unmade \cup {"failed"} => state \notin Unmade \cup {"failed"}
    PROVE  ConditionsInv'
BY DEF ConditionsInv

\* A reopened plan has the conditions it was saved with.
LEMMA ConditionsReopened ==
    ASSUME PlanInv, ConditionsInv, NEW playwright, Reopen(playwright)
    PROVE  ConditionsInv'
<1>1. PICK p : p = plan
  OBVIOUS
<1>2. DOMAIN p = PlanFields /\ plan' = [p EXCEPT !.lifetime = ~ playwright]
  BY <1>1 DEF PlanInv, Reopen
<1>3. /\ plan'.source = plan.source /\ plan'.route = plan.route
      /\ plan'.conditions = plan.conditions /\ plan'.visual = plan.visual
      /\ plan'.target = plan.target
  BY <1>1, <1>2 DEF PlanFields
<1>4. SoundPlan(plan)
  BY DEF Reopen, ConditionsInv, Unmade
<1>5. SoundPlan(plan') /\ VisualSound(plan')
  BY <1>3, <1>4 DEF SoundPlan, VisualSound
<1>6. QED
  BY <1>5 DEF ConditionsInv, Reopen

\* Every step keeps the conditions sound.
LEMMA ConditionsStep ==
    ASSUME PlanInv, ConditionsInv, [Next]_vars
    PROVE  ConditionsInv'
<1>1. CASE Prepare
  BY <1>1, ConditionsPrepared
<1>2. CASE \E rows \in {s \in SUBSET Rows : Cardinality(s) <= MaxVisual + 1} : Extract(rows)
  <2>1. PICK rows : Extract(rows)
    BY <1>2
  <2>2. plan.route = "candidate" /\ Len(plan.source) <= MaxClauses
    BY <2>1 DEF Extract, PlanInv, ConditionsInv
  <2>3. CASE RowsValid(plan.source, plan.parsed, rows)
    <3>1. RowsFit(plan.source, plan.parsed, rows) /\ Build(rows)
      BY <2>1, <2>3 DEF RowsFit, RowsValid, Extract
    <3>2. QED
      BY <2>2, <3>1, ConditionsBuilt
  <2>4. CASE ~ RowsValid(plan.source, plan.parsed, rows)
    BY <2>1, <2>4 DEF Extract, Refuse, Fail, ConditionsInv
  <2>5. QED
    BY <2>3, <2>4
<1>3. CASE ExtractFails
  BY <1>3 DEF ExtractFails, Refuse, Fail, ConditionsInv
<1>4. CASE Ask
  BY <1>4 DEF Ask, ConditionsInv, Unmade
<1>5. CASE \E reply \in plan.replies : Answer(reply)
  BY <1>5, ConditionsAnswered
<1>6. CASE Expire
  BY <1>6, ConditionsStay DEF Expire, Unmade
<1>7. CASE ApproveAndFetch
  BY <1>7, ConditionsStay DEF ApproveAndFetch, Unmade
<1>8. CASE \E e \in Entries[plan.offer] : Deliver(e)
  BY <1>8, ConditionsStay DEF Deliver, Unmade
<1>9. CASE FetchFails
  BY <1>9, ConditionsStay DEF FetchFails, Fail, Unmade
<1>10. CASE FetchReturns
  BY <1>10, ConditionsStay DEF FetchReturns, Fail, Unmade
<1>11. CASE \E selections \in [review.unresolved -> review.options] : Confirm(selections)
  BY <1>11, ConditionsStay DEF Confirm, Unmade
<1>12. CASE Rank
  BY <1>12, ConditionsStay DEF Rank, Fail, Unmade
<1>13. CASE CompleteImageFree
  BY <1>13, ConditionsStay DEF CompleteImageFree, Keep, Fail, Unmade
<1>14. CASE \E fetched \in Fetched : CompleteWithImages(fetched)
  BY <1>14, ConditionsStay DEF CompleteWithImages, Keep, Fail, Unmade
<1>15. CASE Save
  BY <1>15, ConditionsStay DEF Save, Unmade
<1>16. CASE \E playwright \in BOOLEAN : Reopen(playwright)
  BY <1>16, ConditionsReopened
<1>17. CASE RankTyped
  BY <1>17, ConditionsStay DEF RankTyped, Fail, Unmade
<1>18. CASE \E fetched \in Fetched : RankProvisional(fetched)
  BY <1>18, ConditionsStay DEF RankProvisional, Fail, Unmade
<1>19. CASE UNCHANGED vars
  BY <1>19 DEF vars, ConditionsInv
<1>20. QED
  BY <1>1, <1>2, <1>3, <1>4, <1>5, <1>6, <1>7, <1>8, <1>9, <1>10, <1>11, <1>12,
     <1>13, <1>14, <1>15, <1>16, <1>17, <1>18, <1>19 DEF Next

\* Before a plan is made there are no conditions.
LEMMA ConditionsStart == Init => ConditionsInv
<1>1. SUFFICES ASSUME Init PROVE ConditionsInv
  OBVIOUS
<1>2. PICK r \in Requests : plan = Unplanned(r)
  BY <1>1 DEF Init
<1>3. RequestAssumption(r)
  BY ProductSearchAssumption
<1>4. plan.visual = r.looks /\ plan.route = r.route
  BY <1>2 DEF Unplanned
<1>5. VisualSound(plan)
  BY <1>3, <1>4 DEF RequestAssumption, VisualSound
<1>6. QED
  BY <1>1, <1>5 DEF Init, ConditionsInv, Unmade

-----------------------------------------------------------------------------
(* What a product shows *)

Kinds == {"number", "labelled", "common", "price"}

\* The values of a product are finitely many.
LEMMA ValuesFinite ==
    ASSUME NEW e, EntryAssumption(e), NEW c, c.kind \in Kinds, NEW label
    PROVE  /\ IsFiniteSet(Values(e, c, label))
           /\ \A s : ValuesFrom(e, label, s) \in SUBSET {f.value : f \in e.facts}
           /\ IsFiniteSet({f.value : f \in e.facts})
           /\ c.kind # "price" => Values(e, c, label) \in SUBSET {f.value : f \in e.facts}
<1>1. PICK all : all = {f.value : f \in e.facts}
  OBVIOUS
<1>2. IsFiniteSet(all)
  <2>1. PICK g : g = [f \in e.facts |-> f.value]
    OBVIOUS
  <2>2. DOMAIN g = e.facts /\ all = {g[f] : f \in e.facts}
    BY <1>1, <2>1
  <2>3. IsFiniteSet(e.facts)
    BY DEF EntryAssumption
  <2>4. QED
    BY <2>2, <2>3, ImageFinite
<1>3. \A s : ValuesFrom(e, label, s) \in SUBSET all
  BY <1>1 DEF ValuesFrom, About
<1>4. c.kind # "price" => Values(e, c, label) \in SUBSET all
  BY <1>3 DEF Values, Kinds
<1>5. c.kind = "price" => IsFiniteSet(Values(e, c, label))
  <2>1. SUFFICES ASSUME c.kind = "price" PROVE IsFiniteSet(Values(e, c, label))
    OBVIOUS
  <2>2. PICK price : price = PriceJpy(e)
    OBVIOUS
  <2>3. Values(e, c, label) = {price} \ {0}
    BY <2>1, <2>2 DEF Values
  <2>4. IsFiniteSet({price}) /\ {price} \ {0} \in SUBSET {price}
    BY FS_Singleton
  <2>5. IsFiniteSet({price} \ {0})
    BY <2>4, FS_Subset
  <2>6. QED
    BY <2>3, <2>5
<1>6. IsFiniteSet(Values(e, c, label))
  <2>1. CASE c.kind = "price"
    BY <1>5, <2>1
  <2>2. CASE c.kind # "price"
    BY <1>2, <1>4, <2>2, FS_Subset
  <2>3. QED
    BY <2>1, <2>2
<1>7. QED
  BY <1>1, <1>2, <1>3, <1>4, <1>6

\* What the adjudication says about the values.
LEMMA Adjudicated ==
    ASSUME NEW values, IsFiniteSet(values), NEW accepted
    PROVE  /\ Adjudicate(values, accepted) \in {"unknown", "conflict", "match", "mismatch"}
           /\ Adjudicate(values, accepted) = "match" => \E v \in accepted : values = {v}
           /\ Adjudicate(values, accepted) = "mismatch" =>
                 \E v \in values \ accepted : values = {v}
<1>1. CASE values = {}
  BY <1>1 DEF Adjudicate
<1>2. CASE values # {}
  <2>1. Cardinality(values) \in Nat /\ Cardinality(values) # 0
    BY <1>2, FS_CardinalityType, FS_EmptySet
  <2>2. CASE Cardinality(values) > 1
    BY <1>2, <2>2 DEF Adjudicate
  <2>3. CASE ~ Cardinality(values) > 1
    <3>1. Cardinality(values) = 1
      BY <2>1, <2>3
    <3>2. PICK v : values = {v}
      BY <3>1, FS_Singleton
    <3>3. QED
      BY <1>2, <2>3, <3>2 DEF Adjudicate
  <2>4. QED
    BY <2>2, <2>3
<1>3. QED
  BY <1>1, <1>2

\* Where a condition has values, they are what the product shows at the best
\* place that says anything.
LEMMA ValuesShown ==
    ASSUME NEW e, EntryAssumption(e), NEW c, c.kind \in Kinds, NEW label,
           Values(e, c, label) # {}
    PROVE  Shown(e, c, label) = Values(e, c, label)
<1>1. IsFiniteSet(e.facts) /\ \A f \in e.facts : f.source \in {1, 2, 3}
  BY DEF EntryAssumption
<1>2. CASE c.kind = "price"
  BY <1>2 DEF Shown, Values
<1>3. CASE c.kind = "labelled"
  BY <1>3 DEF Shown, Values, ValuesFrom
<1>4. CASE c.kind = "number"
  <2>1. PICK s : s = NumberSource(e, label)
    OBVIOUS
  <2>2. PICK f \in About(e, label) : f.source = s
    BY <1>4, <2>1 DEF Values, ValuesFrom
  <2>3. s \in {1, 2, 3} /\ \A g \in About(e, label) : s <= g.source
    <3>1. \A g \in About(e, label) : g.source \in {1, 2, 3}
      BY <1>1 DEF About
    <3>2. CASE s = Features
      BY <3>1, <3>2 DEF Features
    <3>3. CASE s # Features
      <4>1. PICK sources : sources = {g.source : g \in About(e, label)}
        OBVIOUS
      <4>2. s = Min(sources)
        BY <2>1, <3>3, <4>1 DEF NumberSource
      <4>3. sources \in SUBSET (1..3) /\ sources # {}
        BY <2>2, <3>1, <4>1
      <4>4. IsFiniteSet(sources) /\ sources \subseteq Int
        BY <4>3, Positions
      <4>5. s \in sources /\ \A x \in sources : s <= x
        BY <4>2, <4>3, <4>4, MaxMin
      <4>6. QED
        BY <3>1, <4>1, <4>5
    <3>4. QED
      BY <3>2, <3>3
  <2>4. BestPlace(e, label) = {g \in About(e, label) : g.source = s}
    <3>1. \A g \in About(e, label) : g.source \in Int
      BY <1>1 DEF About
    <3>2. ASSUME NEW g \in About(e, label)
          PROVE  (\A h \in About(e, label) : g.source <= h.source) <=> g.source = s
      <4>1. g.source \in Int /\ s \in Int /\ s <= g.source
        BY <2>3, <3>1
      <4>2. QED
        BY <2>2, <2>3, <3>1, <4>1
    <3>3. QED
      BY <3>2 DEF BestPlace
  <2>5. QED
    BY <1>4, <2>1, <2>4 DEF Shown, Values, ValuesFrom
<1>5. CASE c.kind = "common"
  <2>1. PICK s : s = CommonSource(e, label)
    OBVIOUS
  <2>2. s \in {1, 2} /\ Values(e, c, label) = ValuesFrom(e, label, s)
    BY <1>5, <2>1 DEF Values, CommonSource, Features
  <2>3. PICK f \in About(e, label) : f.source = s /\ f.value # Unreadable
    BY <2>2 DEF ValuesFrom
  <2>4. \A g \in About(e, label) : g.value # Unreadable => s <= g.source
    <3>1. ASSUME NEW g \in About(e, label), g.value # Unreadable PROVE s <= g.source
      <4>1. g.source \in {1, 2, 3}
        BY <1>1 DEF About
      <4>2. CASE s = 1
        BY <4>1, <4>2
      <4>3. CASE s = 2
        <5>1. ValuesFrom(e, label, Features) = {}
          BY <2>1, <4>3 DEF CommonSource, Features
        <5>2. g.source # 1
          BY <3>1, <5>1 DEF ValuesFrom, Features
        <5>3. QED
          BY <4>1, <4>3, <5>2
      <4>4. QED
        BY <2>2, <4>2, <4>3
    <3>2. QED
      BY <3>1
  <2>5. \A g \in About(e, label) :
           (/\ g.source <= 2 /\ g.value # Unreadable
            /\ \A h \in About(e, label) : h.value # Unreadable => g.source <= h.source)
             <=> g.source = s /\ g.value # Unreadable
    <3>1. ASSUME NEW g \in About(e, label), g.value # Unreadable
          PROVE  (/\ g.source <= 2
                  /\ \A h \in About(e, label) : h.value # Unreadable => g.source <= h.source)
                   <=> g.source = s
      <4>1. g.source \in {1, 2, 3} /\ s <= g.source
        BY <1>1, <2>4, <3>1 DEF About
      <4>2. CASE g.source = s
        BY <2>2, <2>4, <4>2
      <4>3. CASE g.source # s
        <5>1. ~ g.source <= s
          BY <2>2, <4>1, <4>3
        <5>2. QED
          BY <2>3, <4>3, <5>1
      <4>4. QED
        BY <4>2, <4>3
    <3>2. QED
      BY <3>1
  <2>6. {g \in About(e, label) :
           /\ g.source <= 2 /\ g.value # Unreadable
           /\ \A h \in About(e, label) : h.value # Unreadable => g.source <= h.source}
          = {g \in About(e, label) : g.source = s /\ g.value # Unreadable}
    BY <2>5
  <2>7. Shown(e, c, label)
          = {g.value : g \in {h \in About(e, label) : h.source = s /\ h.value # Unreadable}}
    BY <1>5, <2>6 DEF Shown
  <2>8. QED
    BY <2>2, <2>7 DEF ValuesFrom
<1>6. QED
  BY <1>2, <1>3, <1>4, <1>5 DEF Kinds

\* A decision about one condition is what the product shows.
LEMMA Decided ==
    ASSUME NEW e, EntryAssumption(e), NEW c, c.kind \in Kinds, NEW label
    PROVE  /\ Decision(e, c, label) \in {"unknown", "conflict", "match", "mismatch"}
           /\ Decision(e, c, label) = "match" => ShowsOnly(e, c, label, c.accepted)
           /\ Decision(e, c, label) = "mismatch" =>
                 \E v \in Shown(e, c, label) \ c.accepted : Shown(e, c, label) = {v}
<1>1. PICK values : values = Values(e, c, label)
  OBVIOUS
<1>2. IsFiniteSet(values) /\ Decision(e, c, label) = Adjudicate(values, c.accepted)
  BY <1>1, ValuesFinite DEF Decision
<1>3. values # {} => Shown(e, c, label) = values
  BY <1>1, ValuesShown
<1>4. QED
  BY <1>2, <1>3, Adjudicated DEF ShowsOnly

\* A row that says "confirmed" is about a product that confirms it.
LabelUsed(c) == IF plan.route = "candidate" THEN RankingLabels[c.id] ELSE c.label
\* The status "confirmed" needs the evidence for every required condition.
LEMMA ConfirmedConfirms ==
    ASSUME NEW e, EntryAssumption(e), \A c \in Typed : c.kind \in Kinds,
           NEW states, \A c \in Typed : states[c.id] = Decision(e, c, LabelUsed(c)),
           Status(Typed, states) = "confirmed"
    PROVE  Confirms(e)
<1>1. ASSUME NEW c \in Typed
      PROVE  /\ c.strength = "required" => ShowsOnly(e, c, LabelUsed(c), c.accepted)
             /\ c.strength = "excluded" =>
                   \E v \in Shown(e, c, LabelUsed(c)) \ c.accepted :
                       Shown(e, c, LabelUsed(c)) = {v}
  <2>1. /\ c.strength = "required" => states[c.id] \notin {"mismatch", "unknown", "conflict"}
        /\ c.strength = "excluded" => states[c.id] \notin {"match", "unknown", "conflict"}
    BY DEF Status
  <2>2. states[c.id] = Decision(e, c, LabelUsed(c)) /\ c.kind \in Kinds
    OBVIOUS
  <2>3. PICK label : label = LabelUsed(c)
    OBVIOUS
  <2>4. /\ Decision(e, c, label) \in {"unknown", "conflict", "match", "mismatch"}
        /\ Decision(e, c, label) = "match" => ShowsOnly(e, c, label, c.accepted)
        /\ Decision(e, c, label) = "mismatch" =>
              \E v \in Shown(e, c, label) \ c.accepted : Shown(e, c, label) = {v}
    BY Decided
  <2>5. QED
    BY <2>1, <2>2, <2>3, <2>4
<1>2. QED
  BY <1>1 DEF Confirms, LabelUsed

-----------------------------------------------------------------------------
(* The numbers of a ranking *)

\* A tuple of integers is a key.
LEMMA KeyOfFive ==
    ASSUME NEW a \in Int, NEW b \in Int, NEW c \in Int, NEW d \in Int, NEW e \in Int
    PROVE  <<a, b, c, d, e>> \in [1..5 -> Int] /\ <<a, b, c, d, e>>[5] = e
OBVIOUS

\* The greater of two integers, and the coverage of a text, are integers.
LEMMA GreaterIsInt == ASSUME NEW a \in Int, NEW b \in Int PROVE Max({a, b}) \in Int
<1>1. PICK S : S = {a, b}
  OBVIOUS
<1>2. IsFiniteSet({a}) /\ IsFiniteSet({b})
  BY FS_Singleton
<1>3. IsFiniteSet({a} \cup {b}) /\ S = {a} \cup {b}
  BY <1>1, <1>2, FS_Union
<1>4. IsFiniteSet(S) /\ S \subseteq Int /\ S # {}
  BY <1>1, <1>3
<1>5. Max(S) \in S
  BY <1>4, MaxMin
<1>6. QED
  BY <1>1, <1>4, <1>5

\* The coverage of some parts is a number.
LEMMA CoverageIsInt ==
    ASSUME NEW parts, IsFiniteSet(parts), parts \subseteq Int
    PROVE  Coverage(parts) \in Int
<1>1. PICK S : S = parts \cup {0}
  OBVIOUS
<1>2. IsFiniteSet(S) /\ S \subseteq Int /\ S # {}
  BY <1>1, FS_AddElement
<1>3. Max(S) \in S
  BY <1>2, MaxMin
<1>4. QED
  BY <1>1, <1>2, <1>3 DEF Coverage

\* What the texts say about a clause.
LEMMA CoveragesAreInt ==
    ASSUME NEW e, EntryAssumption(e), NEW c, c.at \in 1..MaxClauses
    PROVE  /\ DescriptionCoverage(e, c) \in Int /\ JapaneseCoverage(e, c) \in Int
           /\ Coverage({e.en[c.at]}) \in Int
<1>1. PICK told, head, en : told = e.told[c.at] /\ head = e.head[c.at] /\ en = e.en[c.at]
  OBVIOUS
<1>2. told \in Int /\ head \in Int /\ en \in Int
  BY <1>1 DEF EntryAssumption, OnClauses, Denies, Full
<1>3. IsFiniteSet({told}) /\ IsFiniteSet({head}) /\ IsFiniteSet({en}) /\ IsFiniteSet({})
  BY FS_Singleton, FS_EmptySet
<1>4. IsFiniteSet({head} \cup {told}) /\ IsFiniteSet({head} \cup {})
  BY <1>3, FS_Union
<1>5. {head} \cup {told} \subseteq Int /\ {head} \cup {} \subseteq Int
      /\ {told} \subseteq Int /\ {en} \subseteq Int
  BY <1>2
<1>6. /\ Coverage({head} \cup {told}) \in Int /\ Coverage({head} \cup {}) \in Int
      /\ Coverage({told}) \in Int /\ Coverage({en}) \in Int
  BY <1>3, <1>4, <1>5, CoverageIsInt
<1>7. DescriptionCoverage(e, c) \in Int
  BY <1>1, <1>6 DEF DescriptionCoverage
<1>8. JapaneseCoverage(e, c) \in Int
  <2>1. CASE e.cut
    BY <1>1, <1>6, <2>1 DEF JapaneseCoverage
  <2>2. CASE ~ e.cut
    BY <1>1, <1>6, <2>2 DEF JapaneseCoverage
  <2>3. QED
    BY <2>1, <2>2
<1>9. QED
  BY <1>1, <1>6, <1>7, <1>8

\* The score of a condition is an integer.
LEMMA ScoreIsInt ==
    ASSUME NEW e, EntryAssumption(e), NEW c, c.at \in 1..MaxClauses, NEW states,
           NEW labels
    PROVE  Score(e, c, states, labels) \in Int
<1>1. /\ DescriptionCoverage(e, c) \in Int /\ JapaneseCoverage(e, c) \in Int
      /\ Coverage({e.en[c.at]}) \in Int
  BY CoveragesAreInt
<1>2. ASSUME NEW label, NEW verdict PROVE BaseScore(e, c, label, verdict) \in Int
  BY <1>1 DEF BaseScore, Full
<1>3. ASSUME NEW label, NEW verdict PROVE JapaneseScore(e, c, label, verdict) \in Int
  <2>1. PICK a \in Int, b \in Int : a = BaseScore(e, c, label, verdict)
                                      /\ b = JapaneseCoverage(e, c)
    BY <1>1, <1>2
  <2>2. Max({a, b}) \in Int
    BY GreaterIsInt
  <2>3. QED
    BY <2>1, <2>2 DEF JapaneseScore
<1>4. ASSUME NEW label, NEW verdict PROVE ConditionScore(e, c, label, verdict) \in Int
  <2>1. EnglishScore(e, c, label, verdict) \in Int
    BY <1>1, <1>3 DEF EnglishScore
  <2>2. PICK a \in Int, b \in Int : a = JapaneseScore(e, c, label, verdict)
                                      /\ b = EnglishScore(e, c, label, verdict)
    BY <1>3, <2>1
  <2>3. Max({a, b}) \in Int
    BY GreaterIsInt
  <2>4. QED
    BY <2>2, <2>3 DEF ConditionScore
<1>5. QED
  BY <1>2, <1>4 DEF Score

\* Weights are integers.
LEMMA WeightIsNat ==
    ASSUME NEW conditions, IsFiniteSet(conditions), NEW c
    PROVE  Weight(conditions, c) \in Nat
<1>1. PICK S, g : /\ S = {x \in conditions : x.strength = c.strength /\ x.at >= c.at}
                  /\ g = [d \in S |-> d.at]
  OBVIOUS
<1>2. IsFiniteSet(S) /\ DOMAIN g = S
  BY <1>1, FS_Subset
<1>3. PICK T : T = {g[d] : d \in S}
  OBVIOUS
<1>4. IsFiniteSet(T)
  BY <1>2, <1>3, ImageFinite
<1>5. T = {d.at : d \in {x \in conditions : x.strength = c.strength /\ x.at >= c.at}}
  BY <1>1, <1>3
<1>6. QED
  BY <1>4, <1>5, FS_CardinalityType DEF Weight

\* The weights of one strength have a sum.
LEMMA DenominatorIsInt ==
    ASSUME NEW conditions, IsFiniteSet(conditions), NEW strength
    PROVE  Denominator(conditions, strength) \in Int
<1>1. PICK S, f : /\ S = {d \in conditions : d.strength = strength}
                  /\ f = [c \in S |-> Weight(conditions, c) * Full]
  OBVIOUS
<1>2. IsFiniteSet(S)
  BY <1>1, FS_Subset
<1>3. \A c \in S : Weight(conditions, c) * Full \in Int
  <2>1. ASSUME NEW c \in S PROVE Weight(conditions, c) * Full \in Int
    <3>1. PICK w \in Nat : w = Weight(conditions, c)
      BY WeightIsNat
    <3>2. QED
      BY <3>1 DEF Full
  <2>2. QED
    BY <2>1
<1>4. f \in [S -> Int]
  BY <1>1, <1>3
<1>5. SumFunction(f) \in Int
  BY <1>2, <1>4, SumIsInt
<1>6. QED
  BY <1>1, <1>5 DEF Denominator

\* The conditions a candidate row is scored by.
LEMMA EvaluatedFacts ==
    ASSUME SoundPlan(plan), plan.route = "candidate"
    PROVE  /\ IsFiniteSet(Evaluated) /\ Unique(Evaluated) /\ Unique(Typed)
           /\ Evaluated = ScoredConditions(plan)
           /\ \A c \in Evaluated : c.at \in 1..MaxClauses
<1>1. IsFiniteSet(plan.conditions) /\ IsFiniteSet(plan.visual)
  BY DEF SoundPlan, VisualSound
<1>2. IsFiniteSet(plan.conditions \cup plan.visual) /\ IsFiniteSet(plan.conditions \cup {})
  BY <1>1, FS_Union, FS_EmptySet
<1>3. IsFiniteSet(Evaluated)
  BY <1>2 DEF Evaluated, Typed
<1>4. Unique(Evaluated) /\ Unique(Typed)
  BY DEF SoundPlan, Unique, Evaluated, Typed
<1>5. Evaluated = ScoredConditions(plan)
  BY DEF Evaluated, ScoredConditions, Typed
<1>6. \A c \in Evaluated : c.at \in 1..MaxClauses
  BY DEF Evaluated, Typed, SoundPlan, VisualSound
<1>7. QED
  BY <1>3, <1>4, <1>5, <1>6

\* The weighted scores of one strength have a sum.
LEMMA RatioIsInt ==
    ASSUME SoundPlan(plan), plan.route = "candidate",
           NEW e, EntryAssumption(e), NEW states, NEW labels, NEW strength
    PROVE  Ratio(Scores(e, states, labels), strength) \in Int
<1>1. PICK scores : scores = Scores(e, states, labels)
  OBVIOUS
<1>2. ASSUME NEW c \in Evaluated PROVE scores[c.id] \in Int
  <2>1. scores[c.id] = Score(e, ById(Evaluated, c.id), states, labels)
    BY <1>1 DEF Scores
  <2>2. ById(Evaluated, c.id) = c
    BY EvaluatedFacts, Found
  <2>3. Score(e, c, states, labels) \in Int
    BY EvaluatedFacts, ScoreIsInt
  <2>4. QED
    BY <2>1, <2>2, <2>3
<1>3. PICK S, f : /\ S = {d \in Evaluated : d.strength = strength}
                  /\ f = [c \in S |-> Weight(ScoredConditions(plan), c) * scores[c.id]]
  OBVIOUS
<1>4. IsFiniteSet(S)
  BY <1>3, EvaluatedFacts, FS_Subset
<1>5. ASSUME NEW c \in S PROVE Weight(ScoredConditions(plan), c) * scores[c.id] \in Int
  <2>1. IsFiniteSet(ScoredConditions(plan))
    BY EvaluatedFacts
  <2>2. PICK w \in Nat : w = Weight(ScoredConditions(plan), c)
    BY <2>1, WeightIsNat
  <2>3. scores[c.id] \in Int
    BY <1>2, <1>3
  <2>4. QED
    BY <2>2, <2>3
<1>6. f \in [S -> Int]
  BY <1>3, <1>5
<1>7. SumFunction(f) \in Int
  BY <1>4, <1>6, SumIsInt
<1>8. QED
  BY <1>1, <1>3, <1>7 DEF Ratio

\* A row whose numbers are integers.
RowFits(row) ==
    /\ row.required \in Int /\ row.preferred \in Int /\ row.excluded \in Int
    /\ row.lexical \in Int /\ row.rating \in Int /\ row.index \in Int

\* What a row of CandidateSearch.rank holds.
RowMade(row, i, states) ==
    /\ RowFits(row) /\ row.index = i
    /\ row.status = Status(Typed, states) /\ row.states = states
    /\ row.image = [status |-> "not_used", score |-> 0] /\ row.text = -1
    /\ row.weights = [id \in {c.id : c \in Evaluated} |->
                        Weight(ScoredConditions(plan), ById(Evaluated, id))]
    /\ DOMAIN row = {"index", "status", "states", "scores", "weights", "required", "preferred",
                     "excluded", "lexical", "rating", "image", "text"}
\* Every row it makes holds that.
LEMMA CandidateRowFits ==
    ASSUME SoundPlan(plan), plan.route = "candidate",
           NEW i \in Int, EntryAssumption(response[i]), NEW states, NEW labels,
           NEW row, row = CandidateRow(i, states, labels)
    PROVE  RowMade(row, i, states)
<1>1. PICK e : e = response[i]
  OBVIOUS
<1>2. EntryAssumption(e)
  BY <1>1
<1>3. PICK a, b, c : /\ a = Ratio(Scores(e, states, labels), "required")
                     /\ b = Ratio(Scores(e, states, labels), "preferred")
                     /\ c = Ratio(Scores(e, states, labels), "excluded")
  OBVIOUS
<1>4. a \in Int /\ b \in Int /\ c \in Int
  BY <1>2, <1>3, RatioIsInt
<1>5. PICK lexical : lexical = IF plan.bilingual THEN Max({e.name, e.nameEn}) ELSE e.name
  OBVIOUS
<1>6. lexical \in Int /\ e.rating \in Int
  <2>1. e.name \in Int /\ e.nameEn \in Int /\ e.rating \in Int
    BY <1>2 DEF EntryAssumption
  <2>2. Max({e.name, e.nameEn}) \in Int
    BY <2>1, GreaterIsInt
  <2>3. QED
    BY <1>5, <2>1, <2>2
<1>7. /\ row.required = a /\ row.preferred = b /\ row.excluded = c /\ row.lexical = lexical
      /\ row.rating = e.rating /\ row.index = i
      /\ row.status = Status(Typed, states) /\ row.states = states
      /\ row.image = [status |-> "not_used", score |-> 0] /\ row.text = -1
      /\ row.weights = [id \in {d.id : d \in Evaluated} |->
                          Weight(ScoredConditions(plan), ById(Evaluated, id))]
      /\ DOMAIN row = {"index", "status", "states", "scores", "weights", "required", "preferred",
                       "excluded", "lexical", "rating", "image", "text"}
  BY <1>1, <1>3, <1>5 DEF CandidateRow
<1>8. QED
  BY <1>1, <1>4, <1>6, <1>7 DEF RowFits, RowMade

\* The keys of rows.
LEMMA StatusOrderIsInt == \A status : StatusOrder(status) \in Int
BY DEF StatusOrder

\* The key of a candidate row is a tuple of integers that ends in its index.
LEMMA CandidateKeyFits ==
    ASSUME SoundPlan(plan), plan.route = "candidate", NEW row, RowFits(row)
    PROVE  CandidateKey(row) \in [1..5 -> Int] /\ CandidateKey(row)[5] = row.index
<1>1. PICK half : half = Max({1, Denominator(ScoredConditions(plan), "excluded")})
  OBVIOUS
<1>2. half \in Int
  <2>1. IsFiniteSet(ScoredConditions(plan))
    BY EvaluatedFacts
  <2>2. Denominator(ScoredConditions(plan), "excluded") \in Int
    BY <2>1, DenominatorIsInt
  <2>3. QED
    BY <1>1, <2>2, GreaterIsInt
<1>3. PICK status \in Int : status = StatusOrder(row.status)
  BY StatusOrderIsInt
<1>4. PICK a, b, c, d, e :
         /\ a = 2 * half * status + row.excluded /\ b = -row.required
         /\ c = -row.preferred /\ d = -row.lexical /\ e = row.index
  OBVIOUS
<1>5. a \in Int /\ b \in Int /\ c \in Int /\ d \in Int /\ e \in Int
  BY <1>2, <1>4 DEF RowFits
<1>6. CandidateKey(row) = <<a, b, c, d, e>>
  BY <1>1, <1>3, <1>4 DEF CandidateKey
<1>7. <<a, b, c, d, e>> \in [1..5 -> Int] /\ <<a, b, c, d, e>>[5] = e
  BY <1>5, KeyOfFive
<1>8. QED
  BY <1>4, <1>6, <1>7

\* A tuple of integers is a key.
LEMMA KeyOfSix ==
    ASSUME NEW a \in Int, NEW b \in Int, NEW c \in Int, NEW d \in Int, NEW e \in Int,
           NEW f \in Int
    PROVE  /\ <<a, b, c, d, e, f>> \in [1..6 -> Int]
           /\ <<a, b, c, d, e, f>>[6] = f
OBVIOUS
\* So is one of eight.
LEMMA KeyOfEight ==
    ASSUME NEW a \in Int, NEW b \in Int, NEW c \in Int, NEW d \in Int, NEW e \in Int,
           NEW f \in Int, NEW g \in Int, NEW h \in Int
    PROVE  /\ <<a, b, c, d, e, f, g, h>> \in [1..8 -> Int]
           /\ <<a, b, c, d, e, f, g, h>>[8] = h
OBVIOUS

\* The keys of the two completed rankings.
LEMMA ImageFreeKeyFits ==
    ASSUME NEW row, RowFits(row)
    PROVE  ImageFreeKey(row) \in [1..6 -> Int] /\ ImageFreeKey(row)[6] = row.index
<1>1. PICK a, b, c, d, e, f :
         /\ a = row.excluded /\ b = -row.lexical /\ c = -row.required /\ d = -row.preferred
         /\ e = -(IF row.rating = 0 THEN -1 ELSE row.rating) /\ f = row.index
  OBVIOUS
<1>2. a \in Int /\ b \in Int /\ c \in Int /\ d \in Int /\ e \in Int /\ f \in Int
  BY <1>1 DEF RowFits
<1>3. ImageFreeKey(row) = <<a, b, c, d, e, f>>
  BY <1>1 DEF ImageFreeKey
<1>4. <<a, b, c, d, e, f>> \in [1..6 -> Int] /\ <<a, b, c, d, e, f>>[6] = f
  BY <1>2, KeyOfSix
<1>5. QED
  BY <1>1, <1>3, <1>4

\* The key of a row with a picture ends in its index.
LEMMA PriorityKeyFits ==
    ASSUME NEW row, RowFits(row), row.text \in Int,
           row.image.status = "available" => row.image.score \in Int
    PROVE  PriorityKey(row) \in [1..8 -> Int] /\ PriorityKey(row)[8] = row.index
<1>1. PICK a, b, c, d, e, f, g, h :
         /\ a = row.excluded /\ b = -row.lexical /\ c = -row.required /\ d = -row.preferred
         /\ e = -row.text
         /\ f = -(IF row.image.status = "available" THEN row.image.score ELSE -1)
         /\ g = -(IF row.rating = 0 THEN -1 ELSE row.rating) /\ h = row.index
  OBVIOUS
<1>2. f \in Int
  BY <1>1
<1>3. a \in Int /\ b \in Int /\ c \in Int /\ d \in Int /\ e \in Int /\ g \in Int /\ h \in Int
  BY <1>1 DEF RowFits
<1>4. PriorityKey(row) = <<a, b, c, d, e, f, g, h>>
  BY <1>1 DEF PriorityKey
<1>5. <<a, b, c, d, e, f, g, h>> \in [1..8 -> Int] /\ <<a, b, c, d, e, f, g, h>>[8] = h
  BY <1>2, <1>3, KeyOfEight
<1>6. QED
  BY <1>1, <1>4, <1>5

-----------------------------------------------------------------------------
(* The typed score *)

\* What is known about a product has a weight and a score each.
ComponentsFit(components) ==
    /\ IsFiniteSet(components)
    /\ \A x \in components : x.weight \in Nat \ {0} /\ x.score \in Int

\* A component that may be missing fits.
LEMMA OneComponent ==
    ASSUME NEW available, NEW w \in Nat \ {0}, NEW s, available => s \in Int
    PROVE  ComponentsFit(When(available, Component(w, s)))
<1>1. CASE available
  <2>1. PICK x : x = Component(w, s)
    OBVIOUS
  <2>2. x.weight = w /\ x.score = s
    BY <2>1 DEF Component
  <2>3. When(available, Component(w, s)) = {x}
    BY <1>1, <2>1 DEF When
  <2>4. QED
    BY <1>1, <2>2, <2>3, FS_Singleton DEF ComponentsFit
<1>2. CASE ~ available
  BY <1>2, FS_EmptySet DEF When, ComponentsFit
<1>3. QED
  BY <1>1, <1>2

\* A title always has a component.
LEMMA TitleFits ==
    ASSUME NEW e, EntryAssumption(e)
    PROVE  ComponentsFit(TitleComponent(e)) /\ TitleComponent(e) # {}
<1>1. PICK s : s = (e.name * One) \div Full
  OBVIOUS
<1>2. s \in Int
  BY <1>1 DEF EntryAssumption, One, Full
<1>3. TitleComponent(e) = When(TRUE, Component(7, s))
  BY <1>1 DEF TitleComponent, When
<1>4. ComponentsFit(When(TRUE, Component(7, s)))
  <2>1. 7 \in Nat \ {0}
    OBVIOUS
  <2>2. QED
    BY <1>2, <2>1, OneComponent
<1>5. QED
  BY <1>3, <1>4 DEF When

\* So fits the component of the typed conditions,
LEMMA TypedFits ==
    ASSUME NEW conditions, IsFiniteSet(conditions), NEW states
    PROVE  ComponentsFit(TypedComponent(conditions, states))
<1>1. PICK n, m : /\ n = Cardinality({c \in conditions : Satisfied(c, states[c.id])})
                  /\ m = Cardinality(conditions)
  OBVIOUS
<1>2. n \in Nat /\ m \in Nat
  <2>1. IsFiniteSet({c \in conditions : Satisfied(c, states[c.id])})
    BY FS_Subset
  <2>2. QED
    BY <1>1, <2>1, FS_CardinalityType
<1>3. conditions # {} => m # 0
  BY <1>1, FS_EmptySet
<1>4. conditions # {} => (n * One) \div m \in Int
  BY <1>2, <1>3 DEF One
<1>5. ComponentsFit(When(conditions # {}, Component(6, (n * One) \div m)))
  <2>1. 6 \in Nat \ {0}
    OBVIOUS
  <2>2. QED
    BY <1>4, <2>1, OneComponent
<1>6. QED
  BY <1>1, <1>5 DEF TypedComponent

\* The price of an entry in yen.
LEMMA PriceIsNat ==
    ASSUME NEW e, EntryAssumption(e)
    PROVE  PriceJpy(e) \in Nat
<1>1. e.price \in Nat /\ UsdRate \in Nat
  BY NormalizationAssumption DEF EntryAssumption
<1>2. QED
  BY <1>1 DEF PriceJpy

\* the one of the price,
LEMMA PriceFits ==
    ASSUME NEW target, Amounts(target), NEW e, EntryAssumption(e)
    PROVE  ComponentsFit(PriceComponent(target, e))
<1>1. PICK price \in Nat : price = PriceJpy(e)
  BY PriceIsNat
<1>2. PICK s : s = CASE price \in target -> One
                     [] price < Min(target) -> (price * One) \div Min(target)
                     [] OTHER -> (Max(target) * One) \div price
  OBVIOUS
<1>3. target # {} /\ price # 0 => s \in Int
  <2>1. SUFFICES ASSUME target # {}, price # 0 PROVE s \in Int
    OBVIOUS
  <2>2. IsFiniteSet(target) /\ target \subseteq Int /\ target \subseteq Nat \ {0}
    BY DEF Amounts
  <2>3. PICK a, b : a = Min(target) /\ b = Max(target)
    OBVIOUS
  <2>4. a \in target /\ b \in target
    BY <2>1, <2>2, <2>3, MaxMin
  <2>5. a \in Nat \ {0} /\ b \in Nat \ {0}
    BY <2>2, <2>4
  <2>6. /\ One \in Int /\ (price * One) \div a \in Int /\ (b * One) \div price \in Int
    BY <2>1, <2>5 DEF One
  <2>7. s = IF price \in target THEN One
            ELSE IF price < a THEN (price * One) \div a ELSE (b * One) \div price
    <3>1. CASE price \in target
      BY <1>2, <2>4, <2>3, <2>2, <2>5, <3>1, MaxMin
    <3>2. CASE price \notin target
      BY <1>2, <2>3, <3>2
    <3>3. QED
      BY <3>1, <3>2
  <2>8. QED
    BY <2>6, <2>7
<1>4. ComponentsFit(When(target # {} /\ price # 0, Component(4, s)))
  <2>1. 4 \in Nat \ {0}
    OBVIOUS
  <2>2. QED
    BY <1>3, <2>1, OneComponent
<1>5. QED
  BY <1>1, <1>2, <1>4 DEF PriceComponent

\* the one of the picture
LEMMA PictureFits ==
    ASSUME NEW image, image.status = "available" => image.score \in Int
    PROVE  ComponentsFit(PictureComponent(image))
<1>1. Unit \in Nat /\ Unit # 0
  BY TypedRankingAssumption
<1>2. PICK s : s = (image.score * One) \div (2 * Unit)
  OBVIOUS
<1>3. image.status = "available" => s \in Int
  BY <1>1, <1>2 DEF One
<1>4. ComponentsFit(When(image.status = "available", Component(2, s)))
  <2>1. 2 \in Nat \ {0}
    OBVIOUS
  <2>2. QED
    BY <1>3, <2>1, OneComponent
<1>5. QED
  BY <1>2, <1>4 DEF PictureComponent

\* and the one of the reviews.
LEMMA ReviewFits ==
    ASSUME NEW e, EntryAssumption(e)
    PROVE  ComponentsFit(ReviewComponent(e))
<1>1. e.rating \in Nat
  BY DEF EntryAssumption
<1>2. PICK s : s = IF e.rating < HighRating \/ ~ e.reviews THEN 0
                   ELSE (e.rating * One) \div MaxRating
  OBVIOUS
<1>3. s \in Int
  BY <1>1, <1>2 DEF One, MaxRating
<1>4. ComponentsFit(When(e.rating # 0, Component(1, s)))
  <2>1. 1 \in Nat \ {0}
    OBVIOUS
  <2>2. QED
    BY <1>3, <2>1, OneComponent
<1>5. QED
  BY <1>2, <1>4 DEF ReviewComponent

\* Two sets of components fit together.
LEMMA BothFit ==
    ASSUME NEW A, NEW B, ComponentsFit(A), ComponentsFit(B)
    PROVE  ComponentsFit(A \cup B)
BY FS_Union DEF ComponentsFit

\* The score of a product is an integer: the weights never sum up to zero.
LEMMA TotalIsInt ==
    ASSUME NEW conditions, IsFiniteSet(conditions), NEW states, NEW target, Amounts(target),
           NEW e, EntryAssumption(e), NEW image, image.status = "available" => image.score \in Int
    PROVE  TotalScore(SourceComponents(conditions, states, target, e)
                          \cup PictureComponent(image), e) \in Int
<1>1. PICK all : all = SourceComponents(conditions, states, target, e) \cup PictureComponent(image)
  OBVIOUS
<1>2. ComponentsFit(all) /\ all # {}
  <2>1. ComponentsFit(TitleComponent(e)) /\ TitleComponent(e) # {}
    BY TitleFits
  <2>2. ComponentsFit(TypedComponent(conditions, states))
    BY TypedFits
  <2>3. ComponentsFit(PriceComponent(target, e))
    BY PriceFits
  <2>4. ComponentsFit(ReviewComponent(e)) /\ ComponentsFit(PictureComponent(image))
    BY ReviewFits, PictureFits
  <2>5. ComponentsFit(TitleComponent(e) \cup TypedComponent(conditions, states))
    BY <2>1, <2>2, BothFit
  <2>6. ComponentsFit(TitleComponent(e) \cup TypedComponent(conditions, states)
                          \cup PriceComponent(target, e))
    BY <2>3, <2>5, BothFit
  <2>7. ComponentsFit(SourceComponents(conditions, states, target, e))
    BY <2>4, <2>6, BothFit DEF SourceComponents
  <2>8. ComponentsFit(all)
    BY <1>1, <2>4, <2>7, BothFit
  <2>9. QED
    BY <1>1, <2>1, <2>8 DEF SourceComponents
<1>3. PICK f, g : /\ f = [x \in all |-> x.weight * x.score]
                  /\ g = [x \in all |-> x.weight]
  OBVIOUS
<1>4. SumFunction(f) \in Int
  <2>1. \A x \in all : x.weight \in Int /\ x.score \in Int
    BY <1>2 DEF ComponentsFit
  <2>2. f \in [all -> Int]
    BY <1>3, <2>1
  <2>3. IsFiniteSet(all)
    BY <1>2 DEF ComponentsFit
  <2>4. QED
    BY <2>2, <2>3, SumIsInt
<1>5. SumFunction(g) \in Nat \ {0}
  <2>1. g \in [all -> Nat \ {0}] /\ IsFiniteSet(all) /\ all # {}
    BY <1>2, <1>3 DEF ComponentsFit
  <2>2. QED
    BY <2>1, SumIsPositive
<1>6. PICK a \in Int, b \in Nat \ {0} : a = SumFunction(f) /\ b = SumFunction(g)
  BY <1>4, <1>5
<1>7. WeightedScore(all) = a \div b
  BY <1>3, <1>6 DEF WeightedScore
<1>8. PICK w \in Int : w = WeightedScore(all)
  BY <1>6, <1>7
<1>9. PICK p \in Int : p = Penalty(e)
  <2>1. One \div 2 \in Int /\ e.negatives * (One \div 5) \in Int
    BY DEF EntryAssumption, One
  <2>2. PICK x \in Int, y \in Int : x = One \div 2 /\ y = e.negatives * (One \div 5)
    BY <2>1
  <2>3. PICK S : S = {x, y}
    OBVIOUS
  <2>4. IsFiniteSet({x}) /\ IsFiniteSet({y})
    BY FS_Singleton
  <2>5. IsFiniteSet({x} \cup {y}) /\ S = {x} \cup {y}
    BY <2>3, <2>4, FS_Union
  <2>6. IsFiniteSet(S) /\ S \subseteq Int /\ S # {}
    BY <2>3, <2>5
  <2>7. Min(S) \in S
    BY <2>6, MaxMin
  <2>8. QED
    BY <2>2, <2>3, <2>7 DEF Penalty
<1>10. PICK d \in Int : d = w - p
  OBVIOUS
<1>11. Max({0, d}) \in Int
  BY GreaterIsInt
<1>12. QED
  BY <1>1, <1>8, <1>9, <1>10, <1>11 DEF TotalScore

\* The margin of a picture is an integer where there is one.
LEMMA MarginIsInt ==
    ASSUME NEW p \in Pictures, NEW i \in 1..MaxClauses
    PROVE  Margin[p][i] \in Int
<1>1. OnClauses(Margin[p], -Unit..Unit)
  BY ProductSearchAssumption
<1>2. Unit \in Nat
  BY TypedRankingAssumption
<1>3. QED
  BY <1>1, <1>2 DEF OnClauses

\* The picture component of a candidate.
LEMMA RelativeFits ==
    ASSUME NEW visual, IsFiniteSet(visual), \A c \in visual : c.at \in 1..MaxClauses,
           NEW close, NEW picture \in Pictures \cup {NoPicture},
           NEW image, image = RelativeComponent(visual, close, picture)
    PROVE  /\ image.status # "not_used"
           /\ image.status = "available" => image.score \in Int
<1>1. PICK usable : usable = {c.at : c \in visual} \ close
  OBVIOUS
<1>2. CASE picture = NoPicture
  BY <1>2 DEF RelativeComponent, Unavailable
<1>3. CASE picture # NoPicture /\ usable = {}
  BY <1>1, <1>3 DEF RelativeComponent, Unavailable
<1>4. CASE picture # NoPicture /\ usable # {}
  <2>1. PICK m : m = {Margin[picture][i] : i \in usable}
    OBVIOUS
  <2>2. image = Available(Min(m) + Unit)
    BY <1>1, <1>4, <2>1 DEF RelativeComponent
  <2>3. IsFiniteSet(usable) /\ \A i \in usable : i \in 1..MaxClauses
    <3>1. PICK g : g = [c \in visual |-> c.at]
      OBVIOUS
    <3>2. PICK T : T = {g[c] : c \in visual}
      OBVIOUS
    <3>3. IsFiniteSet(T)
      BY <3>1, <3>2, ImageFinite
    <3>4. T = {c.at : c \in visual}
      BY <3>1, <3>2
    <3>5. QED
      BY <1>1, <3>3, <3>4, FS_Subset
  <2>4. IsFiniteSet(m)
    <3>1. PICK g : g = [i \in usable |-> Margin[picture][i]]
      OBVIOUS
    <3>2. DOMAIN g = usable /\ m = {g[i] : i \in usable}
      BY <2>1, <3>1
    <3>3. QED
      BY <2>3, <3>2, ImageFinite
  <2>5. m \subseteq Int /\ m # {}
    BY <1>4, <2>1, <2>3, MarginIsInt
  <2>6. Min(m) \in Int
    BY <2>4, <2>5, MaxMin
  <2>7. Min(m) + Unit \in Int
    BY <2>6, TypedRankingAssumption
  <2>8. QED
    BY <2>2, <2>7 DEF Available
<1>5. QED
  BY <1>2, <1>3, <1>4

\* A picture component is missing without a picture, and otherwise the same
\* for all products; a score is a number.
ComponentFits(image, visual, close, seen, i) ==
    /\ image.status = "available" => image.score \in Int
    /\ image.status = (IF seen[i] = NoPicture THEN "missing"
                       ELSE IF CalibrationReady(visual, close, seen) THEN "available"
                       ELSE "unknown")
\* The picture component of the calibrated mode is one of these.
LEMMA CalibratedFits ==
    ASSUME NEW visual, IsFiniteSet(visual), visual # {},
           \A c \in visual : c.at \in 1..MaxClauses,
           NEW close, NEW seen, IsFiniteSet(DOMAIN seen),
           \A i \in DOMAIN seen : seen[i] \in Pictures \cup {NoPicture},
           NEW i \in DOMAIN seen,
           NEW image, image = CalibratedComponent(visual, close, seen, i)
    PROVE  ComponentFits(image, visual, close, seen, i)
<1> SUFFICES /\ image.status = "available" => image.score \in Int
             /\ image.status = (IF seen[i] = NoPicture THEN "missing"
                                ELSE IF CalibrationReady(visual, close, seen) THEN "available"
                                ELSE "unknown")
  BY DEF ComponentFits
<1>1. CASE seen[i] = NoPicture
  BY <1>1 DEF CalibratedComponent, Unavailable
<1>2. CASE seen[i] # NoPicture /\ ~ CalibrationReady(visual, close, seen)
  BY <1>2 DEF CalibratedComponent, Unavailable
<1>3. CASE seen[i] # NoPicture /\ CalibrationReady(visual, close, seen)
  <2>1. PICK m : m = {CalibratedMargin(seen, c.at, i) : c \in visual}
    OBVIOUS
  <2>2. image = Available(Min(m))
    BY <1>3, <2>1 DEF CalibratedComponent
  <2>3. IsFiniteSet(m)
    <3>1. PICK g : g = [c \in visual |-> CalibratedMargin(seen, c.at, i)]
      OBVIOUS
    <3>2. DOMAIN g = visual /\ m = {g[c] : c \in visual}
      BY <2>1, <3>1
    <3>3. QED
      BY <3>2, ImageFinite
  <2>4. ASSUME NEW c \in visual PROVE CalibratedMargin(seen, c.at, i) \in Int
    <3>1. PICK at \in 1..MaxClauses : at = c.at
      OBVIOUS
    <3>2. PICK S : S = Scored(seen)
      OBVIOUS
    <3>3. S \subseteq DOMAIN seen /\ i \in S /\ \A j \in S : seen[j] \in Pictures
      BY <1>3, <3>2 DEF Scored
    <3>4. PICK g, M : g = [j \in S |-> Margin[seen[j]][at]] /\ M = {g[j] : j \in S}
      OBVIOUS
    <3>5. IsFiniteSet(M)
      <4>1. IsFiniteSet(S) /\ DOMAIN g = S
        BY <3>3, <3>4, FS_Subset
      <4>2. QED
        BY <3>4, <4>1, ImageFinite
    <3>6. \A j \in S : g[j] \in Int
      BY <3>3, <3>4, MarginIsInt
    <3>7. M \subseteq Int /\ M # {}
      BY <3>3, <3>4, <3>6
    <3>8. PICK a \in Int, b \in Int : a = Min(M) /\ b = Max(M)
      BY <3>5, <3>7, MaxMin
    <3>9. M = {Margin[seen[j]][at] : j \in Scored(seen)}
      BY <3>2, <3>4
    <3>10. b - a >= MinSpan
      <4>1. Calibrated(seen, at)
        BY <1>3, <3>1 DEF CalibrationReady
      <4>2. QED
        BY <3>8, <3>9, <4>1 DEF Calibrated
    <3>11. MinSpan \in Int /\ MinSpan > 0 /\ Unit \in Int
      BY TypedRankingAssumption
    <3>12. b - a \in Int /\ b - a > 0
      BY <3>10, <3>11
    <3>13. PICK d \in Nat \ {0} : d = b - a
      BY <3>12
    <3>14. PICK n \in Int : n = (g[i] - a) * 2 * Unit
      <4>1. g[i] \in Int
        BY <3>3, <3>6
      <4>2. QED
        BY <3>11, <4>1
    <3>15. n \div d \in Int
      OBVIOUS
    <3>16. CalibratedMargin(seen, at, i) = n \div d
      BY <3>3, <3>4, <3>8, <3>9, <3>13, <3>14 DEF CalibratedMargin
    <3>17. QED
      BY <3>1, <3>15, <3>16
  <2>5. m \subseteq Int /\ m # {}
    BY <2>1, <2>4
  <2>6. Min(m) \in Int
    BY <2>3, <2>5, MaxMin
  <2>7. QED
    BY <1>3, <2>2, <2>6 DEF Available
<1>4. QED
  BY <1>1, <1>2, <1>3

\* The typed row of a product and its key.
LEMMA TypedRowFits ==
    ASSUME SoundPlan(plan), NEW i \in Int, EntryAssumption(response[i]),
           NEW image, image.status = "available" => image.score \in Int,
           NEW row, row = TypedRow(i, image)
    PROVE  /\ row.index = i /\ row.status = Status(Typed, TypedStates(response[i]))
           /\ row.image = image
           /\ TypedKey(row) \in [1..5 -> Int] /\ TypedKey(row)[5] = i
           /\ TypedKey(row)[1] = StatusOrder(row.status)
<1>1. PICK e : e = response[i]
  OBVIOUS
<1>2. EntryAssumption(e)
  BY <1>1
<1>3. IsFiniteSet(Typed) /\ Amounts(plan.target)
  BY DEF SoundPlan, Typed
<1>4. PICK states : states = TypedStates(e)
  OBVIOUS
<1>5. PICK total \in Int : total = TotalScore(SourceComponents(Typed, states, plan.target, e)
                                                  \cup PictureComponent(image), e)
  BY <1>2, <1>3, TotalIsInt
<1>6. PICK r, p : r = Matches(Typed, states, "required") /\ p = Matches(Typed, states, "preferred")
  OBVIOUS
<1>7. r \in Nat /\ p \in Nat
  <2>1. ASSUME NEW strength PROVE Matches(Typed, states, strength) \in Nat
    <3>1. IsFiniteSet({c \in Typed : c.strength = strength /\ states[c.id] = "match"})
      BY <1>3, FS_Subset
    <3>2. QED
      BY <3>1, FS_CardinalityType DEF Matches
  <2>2. QED
    BY <1>6, <2>1
<1>8. /\ row.index = i /\ row.status = Status(Typed, states) /\ row.image = image
      /\ row.required = r /\ row.preferred = p /\ row.total = total
  BY <1>1, <1>4, <1>5, <1>6 DEF TypedRow
<1>9. PICK a \in Int : a = StatusOrder(row.status)
  BY StatusOrderIsInt
<1>10. PICK b \in Int, c \in Int, d \in Int : b = -r /\ c = -p /\ d = -total
  BY <1>7
<1>11. TypedKey(row) = <<a, b, c, d, i>>
  BY <1>8, <1>9, <1>10 DEF TypedKey
<1>12. <<a, b, c, d, i>> \in [1..5 -> Int] /\ <<a, b, c, d, i>>[5] = i
  BY KeyOfFive
<1>13. <<a, b, c, d, i>>[1] = a
  OBVIOUS
<1>14. QED
  BY <1>1, <1>4, <1>8, <1>9, <1>11, <1>12, <1>13

-----------------------------------------------------------------------------
(* Rankings *)

\* A sorted sequence holds the rows it was made from.
Rearranged(rows, sorted, n, from) ==
    /\ Len(sorted) = n /\ DOMAIN sorted = 1..n
    /\ \A p \in 1..n : from[p] \in 1..n /\ sorted[p] = rows[from[p]]
    /\ \A p, q \in 1..n : p # q => from[p] # from[q]
    /\ \A k \in 1..n : \E p \in 1..n : from[p] = k
SameRows(rows, sorted) ==
    {sorted[p] : p \in DOMAIN sorted} = {rows[k] : k \in DOMAIN rows}
\* What the sorted rows are, without the bijection.
LEMMA SortedRows ==
    ASSUME NEW n \in Nat, NEW rows, DOMAIN rows = 1..n, NEW sorted, NEW from,
           Permuted(rows, sorted, n, from)
    PROVE  Rearranged(rows, sorted, n, from) /\ SameRows(rows, sorted)
<1>1. DOMAIN sorted = 1..n /\ sorted = [p \in 1..n |-> sorted[p]]
  BY DEF Permuted
<1>2. Len(sorted) = n
  BY <1>1, LengthOf
<1>3. /\ \A p \in 1..n : from[p] \in 1..n /\ sorted[p] = rows[from[p]]
      /\ \A p, q \in 1..n : p # q => from[p] # from[q]
      /\ \A k \in 1..n : \E p \in 1..n : from[p] = k
  BY DEF Permuted, Bijection, Injection, IsInjective, Surjection
<1>4. {sorted[p] : p \in DOMAIN sorted} = {rows[k] : k \in DOMAIN rows}
  <2>1. ASSUME NEW p \in DOMAIN sorted PROVE \E k \in DOMAIN rows : sorted[p] = rows[k]
    BY <1>1, <1>3
  <2>2. ASSUME NEW k \in DOMAIN rows PROVE \E p \in DOMAIN sorted : sorted[p] = rows[k]
    <3>1. PICK p \in 1..n : from[p] = k
      BY <1>3
    <3>2. p \in DOMAIN sorted /\ sorted[p] = rows[k]
      BY <1>1, <1>3, <3>1
    <3>3. QED
      BY <3>2
  <2>3. QED
    BY <2>1, <2>2
<1>5. QED
  BY <1>1, <1>2, <1>3, <1>4 DEF Rearranged, SameRows

\* The keys of a sorted sequence are in order.
LEMMA SortedInOrder ==
    ASSUME NEW n \in Nat, NEW keys, NEW from, Ranks(keys, n, from),
           NEW sortedKeys, DOMAIN sortedKeys = 1..n,
           sortedKeys = [p \in 1..n |-> sortedKeys[p]],
           \A p \in 1..n : sortedKeys[p] = keys[from[p]]
    PROVE  InOrder(sortedKeys)
<1>1. Len(sortedKeys) = n
  BY LengthOf
<1>2. ASSUME NEW p \in 1..(n - 1)
      PROVE  Before(sortedKeys[p], sortedKeys[p + 1])
  <2>1. p \in 1..n /\ p + 1 \in 1..n /\ p < p + 1
    OBVIOUS
  <2>2. Before(keys[from[p]], keys[from[p + 1]])
    BY <2>1 DEF Ranks
  <2>3. QED
    BY <2>1, <2>2
<1>3. QED
  BY <1>1, <1>2 DEF InOrder

\* The products of a batch: each once, and each an entry of the provider.
Listed(n) ==
    /\ n = Len(batch.products) /\ DOMAIN batch.products = 1..n
    /\ \A k \in 1..n : batch.products[k] \in Products
    /\ \A k, l \in 1..n : k # l => batch.products[k] # batch.products[l]
    /\ \A i \in Products : i \in Int /\ \E k \in 1..n : batch.products[k] = i
    /\ \A i \in Products : EntryAssumption(response[i])
    /\ IsFiniteSet(Products)
\* A batch that was kept lists its products.
LEMMA ProductsListed ==
    ASSUME PlanInv, BatchInv, batch # NoBatch \/ state \in Batched
    PROVE  \E n \in Nat : Listed(n)
<1>1. BatchOf(plan.queries, response, batch) /\ response \in Seq(Entries[plan.offer])
  BY DEF BatchInv
<1>2. PICK products : products = batch.products
  OBVIOUS
<1>3. products \in Seq(1..Len(response)) /\ Rising(products)
  BY <1>1, <1>2 DEF BatchOf
<1>4. PICK n \in Nat : n = Len(products) /\ DOMAIN products = 1..n
  BY <1>3, LenProperties
<1>5. Len(response) \in Nat /\ DOMAIN response = 1..Len(response)
  BY <1>1, LenProperties
<1>6. \A k \in 1..n : products[k] \in 1..Len(response)
  BY <1>3, <1>4, ElementOfSeq
<1>7. \A k, l \in 1..n : k # l => products[k] # products[l]
  <2>1. ASSUME NEW k \in 1..n, NEW l \in 1..n, k # l PROVE products[k] # products[l]
    <3>1. products[k] \in Int /\ products[l] \in Int
      BY <1>5, <1>6
    <3>2. k < l \/ l < k
      BY <2>1
    <3>3. products[k] < products[l] \/ products[l] < products[k]
      BY <1>3, <1>4, <3>2 DEF Rising
    <3>4. QED
      BY <3>1, <3>3
  <2>2. QED
    BY <2>1
<1>8. Products = {products[k] : k \in 1..n}
  BY <1>2, <1>4 DEF Products
<1>9. \A i \in Products : EntryAssumption(response[i])
  <2>1. PICK r \in Requests : OfRequest(plan, r)
    BY DEF PlanInv
  <2>2. r.offer \in DOMAIN Entries
    BY ProductSearchAssumption DEF RequestAssumption
  <2>3. \A e \in Entries[plan.offer] : EntryAssumption(e)
    BY <2>1, <2>2, ProductSearchAssumption DEF OfRequest
  <2>4. \A i \in Products : response[i] \in Entries[plan.offer]
    BY <1>1, <1>5, <1>6, <1>8, ElementOfSeq
  <2>5. QED
    BY <2>3, <2>4
<1>10. IsFiniteSet(Products)
  <2>1. IsFiniteSet(1..n)
    BY FS_Interval
  <2>2. PICK g : g = [k \in 1..n |-> products[k]]
    OBVIOUS
  <2>3. DOMAIN g = 1..n /\ Products = {g[k] : k \in 1..n}
    BY <1>8, <2>2
  <2>4. QED
    BY <2>1, <2>3, ImageFinite
<1>11. \A i \in Products : i \in Int /\ \E k \in 1..n : products[k] = i
  BY <1>5, <1>6, <1>8
<1>12. Listed(n)
  BY <1>2, <1>4, <1>7, <1>8, <1>9, <1>10, <1>11 DEF Listed
<1>13. QED
  BY <1>12

\* Rows that stand for the products, each once, and say "confirmed" only of
\* those that confirm every condition.
Stands(rows) ==
    /\ DOMAIN rows = DOMAIN batch.products
    /\ \A k \in DOMAIN rows : rows[k].index \in Products
    /\ \A i \in Products : \E k \in DOMAIN rows : rows[k].index = i
    /\ \A k, l \in DOMAIN rows : k # l => rows[k].index # rows[l].index
    /\ \A k \in DOMAIN rows :
          rows[k].status = "confirmed" => Confirms(response[rows[k].index])
Ranking(rows) == Stands(rows) /\ Len(rows) = Len(batch.products)

\* One row per product of the batch stands for the batch.
LEMMA RowsStand ==
    ASSUME NEW n \in Nat, Listed(n), NEW rows, DOMAIN rows = 1..n,
           \A k \in 1..n : rows[k].index = batch.products[k],
           \A k \in 1..n : rows[k].status = "confirmed"
                              => Confirms(response[batch.products[k]])
    PROVE  Stands(rows)
BY DEF Listed, Stands

\* Sorting keeps that.
LEMMA SortedStand ==
    ASSUME NEW n \in Nat, Listed(n), NEW rows, Stands(rows), NEW sorted, NEW from,
           Permuted(rows, sorted, n, from)
    PROVE  Ranking(sorted)
<1>1. DOMAIN rows = 1..n /\ n = Len(batch.products) /\ DOMAIN batch.products = 1..n
  BY DEF Listed, Stands
<1>2. Rearranged(rows, sorted, n, from)
  BY <1>1, SortedRows
<1>3. ASSUME NEW p \in 1..n
      PROVE  /\ sorted[p].index \in Products
             /\ sorted[p].status = "confirmed" => Confirms(response[sorted[p].index])
  <2>1. PICK k \in DOMAIN rows : k = from[p] /\ sorted[p] = rows[k]
    BY <1>1, <1>2 DEF Rearranged
  <2>2. /\ rows[k].index \in Products
        /\ rows[k].status = "confirmed" => Confirms(response[rows[k].index])
    BY DEF Stands
  <2>3. QED
    BY <2>1, <2>2
<1>4. ASSUME NEW i \in Products PROVE \E p \in 1..n : sorted[p].index = i
  <2>1. PICK k \in 1..n : rows[k].index = i
    BY <1>1 DEF Stands
  <2>2. PICK p \in 1..n : from[p] = k
    BY <1>2 DEF Rearranged
  <2>3. QED
    BY <1>2, <2>1, <2>2 DEF Rearranged
<1>5. ASSUME NEW p \in 1..n, NEW q \in 1..n, p # q PROVE sorted[p].index # sorted[q].index
  <2>1. PICK k, l : k = from[p] /\ l = from[q]
    OBVIOUS
  <2>2. k \in DOMAIN rows /\ sorted[p] = rows[k] /\ l \in DOMAIN rows /\ sorted[q] = rows[l]
    BY <1>1, <1>2, <2>1 DEF Rearranged
  <2>3. k # l
    BY <1>2, <1>5, <2>1 DEF Rearranged
  <2>4. rows[k].index # rows[l].index
    BY <2>3, <2>2 DEF Stands
  <2>5. QED
    BY <2>4, <2>2
<1>6. DOMAIN sorted = DOMAIN batch.products /\ Len(sorted) = Len(batch.products)
  BY <1>1, <1>2 DEF Rearranged
<1>7. QED
  BY <1>1, <1>3, <1>4, <1>5, <1>6 DEF Stands, Ranking

\* A row that was made from a product and says "confirmed" says it rightly.
LEMMA CandidateConfirms ==
    ASSUME SoundPlan(plan), plan.route = "candidate", NEW e, EntryAssumption(e),
           Status(Typed, States(e)) = "confirmed"
    PROVE  Confirms(e)
<1>1. PICK states : states = States(e)
  OBVIOUS
<1>2. \A c \in Typed : states[c.id] = Decision(e, c, LabelUsed(c))
  <2>1. ASSUME NEW c \in Typed PROVE states[c.id] = Decision(e, c, LabelUsed(c))
    <3>1. states[c.id] = Decision(e, ById(Typed, c.id), RankingLabels[c.id])
      BY <1>1 DEF States
    <3>2. ById(Typed, c.id) = c
      BY EvaluatedFacts, Found
    <3>3. QED
      BY <3>1, <3>2 DEF LabelUsed
  <2>2. QED
    BY <2>1
<1>3. \A c \in Typed : c.kind \in Kinds
  BY DEF SoundPlan, Typed, Kinds
<1>4. QED
  BY <1>1, <1>2, <1>3, ConfirmedConfirms

\* The status of the provisional route is about the product.
LEMMA TypedConfirms ==
    ASSUME SoundPlan(plan), plan.route # "candidate", NEW e, EntryAssumption(e),
           Status(Typed, TypedStates(e)) = "confirmed"
    PROVE  Confirms(e)
<1>1. PICK states : states = TypedStates(e)
  OBVIOUS
<1>2. Unique(Typed)
  BY DEF SoundPlan, Typed
<1>3. \A c \in Typed : states[c.id] = Decision(e, c, LabelUsed(c))
  <2>1. ASSUME NEW c \in Typed PROVE states[c.id] = Decision(e, c, LabelUsed(c))
    <3>1. states[c.id] = Decision(e, ById(Typed, c.id), ById(Typed, c.id).label)
      BY <1>1 DEF TypedStates
    <3>2. ById(Typed, c.id) = c
      BY <1>2, Found
    <3>3. QED
      BY <3>1, <3>2 DEF LabelUsed
  <2>2. QED
    BY <2>1
<1>4. \A c \in Typed : c.kind \in Kinds
  BY DEF SoundPlan, Typed, Kinds
<1>5. QED
  BY <1>1, <1>3, <1>4, ConfirmedConfirms

\* What a review asks about: the conditions of the plan, and quantities only.
Quantities == {c \in Typed : c.kind = "number"}
ReviewHolds ==
    /\ review.conditions = Typed
    /\ review.unresolved \cup review.automatic \subseteq {c.id : c \in Quantities}
    /\ \A id \in review.automatic : ById(Typed, id).label \in review.options
\* What was confirmed in it.
SelectionHolds ==
    /\ DOMAIN selected \subseteq {c.id : c \in Quantities}
    /\ \A id \in DOMAIN selected : selected[id] \in review.options

\* The labels the ranking contract reads again are the ones that were used:
\* a label is only selected for a quantity, and a quantity takes it.
LEMMA LabelsAgree ==
    ASSUME Unique(Typed), ReviewHolds, SelectionHolds
    PROVE  ContractLabels = RankingLabels
<1>1. PICK ids : ids = {c.id : c \in Typed}
  OBVIOUS
<1>2. review.conditions = Typed
  BY DEF ReviewHolds
<1>3. ASSUME NEW id \in ids
      PROVE  /\ id \in DOMAIN selected =>
                   ContractLabels[id] = selected[id] /\ RankingLabels[id] = selected[id]
             /\ id \notin DOMAIN selected =>
                   /\ ContractLabels[id] = ById(Typed, id).label
                   /\ RankingLabels[id] = ById(Typed, id).label
  <2>1. ContractLabels[id] =
          IF id \in DOMAIN selected THEN selected[id] ELSE ById(Typed, id).label
    BY <1>1, <1>2 DEF ContractLabels
  <2>2. RankingLabels[id] =
          IF ById(Typed, id).kind \in {"number", "price"} /\ id \in DOMAIN selected
          THEN selected[id] ELSE ById(Typed, id).label
    BY <1>1 DEF RankingLabels
  <2>3. id \in DOMAIN selected => ById(Typed, id).kind = "number"
    <3>1. SUFFICES ASSUME id \in DOMAIN selected PROVE ById(Typed, id).kind = "number"
      OBVIOUS
    <3>2. PICK c \in Quantities : id = c.id
      BY <3>1 DEF SelectionHolds
    <3>3. c \in Typed /\ c.kind = "number"
      BY DEF Quantities
    <3>4. ById(Typed, id) = c
      BY <3>2, <3>3, Found
    <3>5. QED
      BY <3>3, <3>4
  <2>4. QED
    BY <2>1, <2>2, <2>3
<1>4. /\ DOMAIN ContractLabels = ids /\ DOMAIN RankingLabels = ids
      /\ ContractLabels = [id \in ids |-> ContractLabels[id]]
      /\ RankingLabels = [id \in ids |-> RankingLabels[id]]
  BY <1>1, <1>2 DEF ContractLabels, RankingLabels
<1>5. \A id \in ids : ContractLabels[id] = RankingLabels[id]
  BY <1>3
<1>6. QED
  BY <1>4, <1>5

\* The rows CandidateSearch.rank makes and their order.
Made(rows) ==
    \A k \in DOMAIN rows : rows[k] = CandidateRow(rows[k].index, rows[k].states, RankingLabels)
CandidateRows ==
    LET scored == [k \in DOMAIN batch.products |-> RankedRow(batch.products[k])]
    IN Sorted(scored, [k \in DOMAIN scored |-> CandidateKey(scored[k])])
\* They rank the batch, and rank accepts them.
LEMMA CandidateRanked ==
    ASSUME PlanInv, BatchInv, SoundPlan(plan), plan.route = "candidate", state \in Batched,
           ReviewHolds, SelectionHolds, NEW rows, rows = CandidateRows
    PROVE  Ranking(rows) /\ Made(rows) /\ RankingAccepted(rows)
<1>1. PICK n \in Nat : Listed(n)
  BY ProductsListed
<1>2. PICK scored, keys :
         /\ scored = [k \in DOMAIN batch.products |-> RankedRow(batch.products[k])]
         /\ keys = [k \in DOMAIN scored |-> CandidateKey(scored[k])]
  OBVIOUS
<1>3. rows = Sorted(scored, keys) /\ DOMAIN scored = 1..n /\ DOMAIN keys = 1..n
  BY <1>2, <1>1 DEF CandidateRows, Listed
<1>4. ASSUME NEW k \in 1..n
      PROVE  /\ RowFits(scored[k]) /\ scored[k].index = batch.products[k]
             /\ scored[k] = CandidateRow(scored[k].index, scored[k].states, RankingLabels)
             /\ scored[k].status = "confirmed" => Confirms(response[batch.products[k]])
  <2>1. PICK i \in Products : i = batch.products[k]
    BY <1>1 DEF Listed
  <2>2. i \in Int /\ EntryAssumption(response[i])
    BY <1>1 DEF Listed
  <2>3. PICK row : row = scored[k]
    OBVIOUS
  <2>4. PICK states, labels : states = States(response[i]) /\ labels = RankingLabels
    OBVIOUS
  <2>5. row = CandidateRow(i, states, labels)
    BY <1>2, <1>3, <2>1, <2>3, <2>4 DEF RankedRow
  <2>6. RowMade(row, i, states)
    BY <2>2, <2>5, CandidateRowFits
  <2>7. RowFits(row) /\ row.index = i /\ row.status = Status(Typed, states) /\ row.states = states
    BY <2>6 DEF RowMade
  <2>8. row.status = "confirmed" => Confirms(response[i])
    BY <2>2, <2>4, <2>7, CandidateConfirms
  <2>9. row = CandidateRow(row.index, row.states, RankingLabels)
    BY <2>4, <2>5, <2>7
  <2>10. QED
    BY <2>1, <2>3, <2>7, <2>8, <2>9
<1>5. Stands(scored)
  BY <1>1, <1>3, <1>4, RowsStand
<1>6. Ordered(keys, n)
  <2>1. ASSUME NEW k \in 1..n
        PROVE  keys[k] \in [1..5 -> Int] /\ keys[k][5] = batch.products[k]
    BY <1>2, <1>3, <1>4, CandidateKeyFits
  <2>2. keys \in [1..n -> [1..5 -> Int]]
    BY <1>2, <1>3, <2>1
  <2>3. \A k, l \in 1..n : k # l => keys[k][5] # keys[l][5]
    <3>1. \A k, l \in 1..n : k # l => batch.products[k] # batch.products[l]
      BY <1>1 DEF Listed
    <3>2. \A k \in 1..n : keys[k][5] = batch.products[k]
      BY <2>1
    <3>3. QED
      BY <3>1, <3>2
  <2>4. 5 \in Nat \ {0}
    OBVIOUS
  <2>5. QED
    BY <2>2, <2>3, <2>4, KeysOrdered
<1>7. PICK from : Permuted(scored, rows, n, from) /\ Ranks(keys, n, from)
  BY <1>3, <1>6, SortedPermutes
<1>8. Ranking(rows)
  BY <1>1, <1>5, <1>7, SortedStand
<1>9. Rearranged(scored, rows, n, from)
  BY <1>3, <1>7, SortedRows
<1>10. Made(rows)
  <2>1. ASSUME NEW p \in 1..n
        PROVE  rows[p] = CandidateRow(rows[p].index, rows[p].states, RankingLabels)
    <3>1. PICK k \in 1..n : k = from[p] /\ rows[p] = scored[k]
      BY <1>9 DEF Rearranged
    <3>2. QED
      BY <1>4, <3>1
  <2>2. QED
    BY <1>9, <2>1 DEF Made, Rearranged
<1>11. PICK sortedKeys : sortedKeys = [k \in DOMAIN rows |-> CandidateKey(rows[k])]
  OBVIOUS
<1>12. InOrder(sortedKeys)
  <2>1. DOMAIN rows = 1..n /\ \A p \in 1..n : from[p] \in 1..n /\ rows[p] = scored[from[p]]
    BY <1>9 DEF Rearranged
  <2>2. \A p \in 1..n : sortedKeys[p] = keys[from[p]]
    BY <1>2, <1>3, <1>11, <2>1
  <2>3. DOMAIN sortedKeys = 1..n /\ sortedKeys = [p \in 1..n |-> sortedKeys[p]]
    BY <1>11, <2>1
  <2>4. QED
    BY <1>7, <2>2, <2>3, SortedInOrder
<1>13. /\ {c.id : c \in Typed \cup plan.visual}
             = {c.id : c \in review.conditions \cup plan.visual}
       /\ \A id \in DOMAIN selected : selected[id] \in review.options
  BY DEF ReviewHolds, SelectionHolds
<1>14. ContractLabels = RankingLabels
  BY EvaluatedFacts, LabelsAgree
<1>15. QED
  BY <1>8, <1>10, <1>11, <1>12, <1>13, <1>14 DEF RankingAccepted, Made

\* No other product stands before one that says "confirmed".
ConfirmedFirst(rows) ==
    \A k \in DOMAIN rows : rows[k].status = "confirmed" =>
        \A l \in 1..(k - 1) : rows[l].status = "confirmed"

\* A key that stands before one of a confirmed row is one of a confirmed row.
LEMMA ConfirmedBefore ==
    ASSUME NEW k, NEW l, k \in [1..5 -> Int], l \in [1..5 -> Int], Before(k, l),
           NEW status, k[1] = StatusOrder(status), l[1] = StatusOrder("confirmed")
    PROVE  status = "confirmed"
<1>1. PICK i \in 1..5 : k[i] < l[i] /\ \A j \in 1..(i - 1) : k[j] = l[j]
  BY DEF Before
<1>2. StatusOrder("confirmed") = 0 /\ StatusOrder(status) >= 0
      /\ (StatusOrder(status) = 0 => status = "confirmed")
  BY DEF StatusOrder
<1>3. i # 1
  BY <1>1, <1>2
<1>4. 1 \in 1..(i - 1)
  BY <1>1, <1>3
<1>5. k[1] = l[1]
  BY <1>1, <1>4
<1>6. QED
  BY <1>2, <1>5

\* The rows of the typed routes and their order.
LEMMA TypedRanked ==
    ASSUME PlanInv, BatchInv, SoundPlan(plan), plan.route # "candidate", state \in Batched,
           NEW images, \A i \in Products : images[i].status = "available"
                                              => images[i].score \in Int,
           NEW rows, rows = TypedRows(images)
    PROVE  Ranking(rows) /\ ConfirmedFirst(rows) /\ TypedAccepted(rows, images)
<1>1. PICK n \in Nat : Listed(n)
  BY ProductsListed
<1>2. PICK scored, keys :
         /\ scored = [k \in DOMAIN batch.products |->
                        TypedRow(batch.products[k], images[batch.products[k]])]
         /\ keys = [k \in DOMAIN scored |-> TypedKey(scored[k])]
  OBVIOUS
<1>3. rows = Sorted(scored, keys) /\ DOMAIN scored = 1..n /\ DOMAIN keys = 1..n
  BY <1>1, <1>2 DEF TypedRows, Listed
<1>4. ASSUME NEW k \in 1..n
      PROVE  /\ scored[k].index = batch.products[k]
             /\ scored[k] = TypedRow(batch.products[k], images[batch.products[k]])
             /\ scored[k].status = "confirmed" => Confirms(response[batch.products[k]])
             /\ keys[k] \in [1..5 -> Int] /\ keys[k][5] = batch.products[k]
             /\ keys[k][1] = StatusOrder(scored[k].status)
  <2>1. PICK i \in Products : i = batch.products[k]
    BY <1>1 DEF Listed
  <2>2. i \in Int /\ EntryAssumption(response[i])
    BY <1>1 DEF Listed
  <2>3. PICK row, image : row = scored[k] /\ image = images[i]
    OBVIOUS
  <2>4. row = TypedRow(i, image) /\ keys[k] = TypedKey(row)
    BY <1>2, <1>3, <2>1, <2>3
  <2>5. image.status = "available" => image.score \in Int
    BY <2>3
  <2>6. /\ row.index = i /\ row.status = Status(Typed, TypedStates(response[i]))
        /\ TypedKey(row) \in [1..5 -> Int] /\ TypedKey(row)[5] = i
        /\ TypedKey(row)[1] = StatusOrder(row.status)
    BY <2>2, <2>4, <2>5, TypedRowFits
  <2>7. row.status = "confirmed" => Confirms(response[i])
    BY <2>2, <2>6, TypedConfirms
  <2>8. QED
    BY <2>1, <2>3, <2>4, <2>6, <2>7
<1>5. Stands(scored)
  BY <1>1, <1>3, <1>4, RowsStand
<1>6. Ordered(keys, n)
  <2>1. keys \in [1..n -> [1..5 -> Int]]
    BY <1>2, <1>3, <1>4
  <2>2. \A k, l \in 1..n : k # l => keys[k][5] # keys[l][5]
    BY <1>1, <1>4 DEF Listed
  <2>3. 5 \in Nat \ {0}
    OBVIOUS
  <2>4. QED
    BY <2>1, <2>2, <2>3, KeysOrdered
<1>7. PICK from : Permuted(scored, rows, n, from) /\ Ranks(keys, n, from)
  BY <1>3, <1>6, SortedPermutes
<1>8. Ranking(rows)
  BY <1>1, <1>5, <1>7, SortedStand
<1>9. Rearranged(scored, rows, n, from)
  BY <1>3, <1>7, SortedRows
<1>10. ConfirmedFirst(rows)
  <2>1. ASSUME NEW p \in 1..n, rows[p].status = "confirmed", NEW q \in 1..(p - 1)
        PROVE  rows[q].status = "confirmed"
    <3>1. q \in 1..n /\ q < p
      BY <2>1
    <3>2. PICK k, l : k = from[q] /\ l = from[p]
      OBVIOUS
    <3>3. k \in 1..n /\ rows[q] = scored[k] /\ l \in 1..n /\ rows[p] = scored[l]
      BY <1>9, <3>1, <3>2 DEF Rearranged
    <3>4. Before(keys[k], keys[l])
      BY <1>7, <3>1, <3>2 DEF Ranks
    <3>5. PICK a, b : a = keys[k] /\ b = keys[l]
      OBVIOUS
    <3>6. PICK status : status = scored[k].status
      OBVIOUS
    <3>7. /\ a \in [1..5 -> Int] /\ b \in [1..5 -> Int] /\ Before(a, b)
          /\ a[1] = StatusOrder(status) /\ b[1] = StatusOrder("confirmed")
      BY <1>4, <2>1, <3>3, <3>4, <3>5, <3>6
    <3>8. status = "confirmed"
      BY <3>7, ConfirmedBefore
    <3>9. QED
      BY <3>3, <3>6, <3>8
  <2>2. DOMAIN rows = 1..n
    BY <1>9 DEF Rearranged
  <2>3. QED
    BY <2>1, <2>2 DEF ConfirmedFirst
<1>11. \A k \in DOMAIN rows : rows[k] = TypedRow(rows[k].index, images[rows[k].index])
  <2>1. ASSUME NEW p \in 1..n
        PROVE  rows[p] = TypedRow(rows[p].index, images[rows[p].index])
    <3>1. PICK k \in 1..n : k = from[p] /\ rows[p] = scored[k]
      BY <1>9 DEF Rearranged
    <3>2. QED
      BY <1>4, <3>1
  <2>2. QED
    BY <1>9, <2>1 DEF Rearranged
<1>12. PICK sortedKeys : sortedKeys = [k \in DOMAIN rows |-> TypedKey(rows[k])]
  OBVIOUS
<1>13. InOrder(sortedKeys)
  <2>1. DOMAIN rows = 1..n /\ \A p \in 1..n : from[p] \in 1..n /\ rows[p] = scored[from[p]]
    BY <1>9 DEF Rearranged
  <2>2. \A p \in 1..n : sortedKeys[p] = keys[from[p]]
    BY <1>2, <1>3, <1>12, <2>1
  <2>3. DOMAIN sortedKeys = 1..n /\ sortedKeys = [p \in 1..n |-> sortedKeys[p]]
    BY <1>12, <2>1
  <2>4. QED
    BY <1>7, <2>2, <2>3, SortedInOrder
<1>14. QED
  BY <1>8, <1>10, <1>11, <1>12, <1>13 DEF TypedAccepted

-----------------------------------------------------------------------------
(* The completed rankings *)

\* What a candidate row becomes once its picture was looked at.
LEMMA WithPictureFits ==
    ASSUME SoundPlan(plan), plan.route = "candidate", NEW i \in Int,
           EntryAssumption(response[i]), NEW states, NEW labels,
           NEW row, row = CandidateRow(i, states, labels),
           NEW fetched, fetched[i] \in Pictures \cup {NoPicture},
           NEW shown, shown = WithPicture(row, fetched)
    PROVE  /\ RowFits(shown) /\ shown.index = i /\ shown.text \in Int
           /\ shown.status = row.status /\ shown.weights = row.weights
           /\ shown.image.status # "not_used"
           /\ shown.image.status = "available" => shown.image.score \in Int
<1>1. /\ RowFits(row) /\ row.index = i
      /\ DOMAIN row = {"index", "status", "states", "scores", "weights", "required", "preferred",
                       "excluded", "lexical", "rating", "image", "text"}
  <2>1. RowMade(row, i, states)
    BY CandidateRowFits
  <2>2. QED
    BY <2>1 DEF RowMade
<1>2. PICK picture : picture = fetched[i]
  OBVIOUS
<1>3. PICK image, text : /\ image = RelativeComponent(plan.visual, plan.close, picture)
                         /\ text = IF picture = NoPicture THEN -1 ELSE TextFit[picture]
  OBVIOUS
<1>4. PICK r : r = row
  OBVIOUS
<1>5. shown = [r EXCEPT !.image = image, !.text = text]
  BY <1>1, <1>2, <1>3, <1>4 DEF WithPicture
<1>6. /\ shown.index = r.index /\ shown.status = r.status /\ shown.weights = r.weights
      /\ shown.required = r.required /\ shown.preferred = r.preferred
      /\ shown.excluded = r.excluded /\ shown.lexical = r.lexical
      /\ shown.rating = r.rating /\ shown.image = image /\ shown.text = text
  BY <1>1, <1>4, <1>5
<1>7. text \in Int
  <2>1. picture # NoPicture => TextFit[picture] \in 0..(2 * Unit)
    BY <1>2, ProductSearchAssumption
  <2>2. QED
    BY <1>3, <2>1
<1>8. image.status # "not_used" /\ (image.status = "available" => image.score \in Int)
  <2>1. IsFiniteSet(plan.visual) /\ \A c \in plan.visual : c.at \in 1..MaxClauses
    BY DEF SoundPlan, VisualSound
  <2>2. QED
    BY <1>2, <1>3, <2>1, RelativeFits
<1>9. QED
  BY <1>1, <1>4, <1>6, <1>7, <1>8 DEF RowFits

\* The weights the history computes again are those of the row.
LEMMA HistoryWeighs ==
    ASSUME SoundPlan(plan), plan.route = "candidate", plan.bilingual, NEW row,
           row.weights = [id \in {c.id : c \in Evaluated} |->
                            Weight(ScoredConditions(plan), ById(Evaluated, id))]
    PROVE  HistoryWeights(row)
<1>1. PICK conditions : conditions = {c \in Typed \cup plan.visual : c.id \in DOMAIN row.weights}
  OBVIOUS
<1>2. Evaluated = Typed \cup plan.visual
  BY DEF Evaluated
<1>3. conditions = Evaluated
  BY <1>1, <1>2
<1>4. ScoredConditions(plan) = Evaluated
  BY EvaluatedFacts
<1>5. ASSUME NEW c \in conditions PROVE row.weights[c.id] = Weight(conditions, c)
  <2>1. c \in Evaluated
    BY <1>3
  <2>2. ById(Evaluated, c.id) = c
    BY <2>1, EvaluatedFacts, Found
  <2>3. row.weights[c.id] = Weight(ScoredConditions(plan), ById(Evaluated, c.id))
    BY <2>1
  <2>4. QED
    BY <1>3, <1>4, <2>2, <2>3
<1>6. QED
  BY <1>1, <1>5 DEF HistoryWeights

\* A ranking without pictures as the history gets it.
ImageFreeRows == Sorted(ranked, [k \in DOMAIN ranked |-> ImageFreeKey(ranked[k])])
\* The history accepts it unless a title was cut.
LEMMA ImageFreeRanked ==
    ASSUME PlanInv, BatchInv, SoundPlan(plan), plan.route = "candidate", state \in Batched,
           Ranking(ranked), Made(ranked), plan.images = "off",
           NEW rows, rows = ImageFreeRows
    PROVE  /\ Ranking(rows)
           /\ HistoryAccepted(rows) \/ \E i \in Products : ~ Displayable(response[i])
<1>1. PICK n \in Nat : Listed(n)
  BY ProductsListed
<1>2. PICK keys : keys = [k \in DOMAIN ranked |-> ImageFreeKey(ranked[k])]
  OBVIOUS
<1>3. rows = Sorted(ranked, keys) /\ DOMAIN ranked = 1..n /\ DOMAIN keys = 1..n
  BY <1>1, <1>2 DEF ImageFreeRows, Listed, Ranking, Stands
<1>4. ASSUME NEW k \in 1..n
      PROVE  /\ RowFits(ranked[k]) /\ ranked[k].image.status = "not_used"
             /\ plan.bilingual => HistoryWeights(ranked[k])
             /\ keys[k] \in [1..6 -> Int] /\ keys[k][6] = ranked[k].index
  <2>1. PICK row, i : row = ranked[k] /\ i = row.index
    OBVIOUS
  <2>2. i \in Products
    BY <1>3, <2>1 DEF Ranking, Stands
  <2>3. i \in Int /\ EntryAssumption(response[i])
    BY <1>1, <2>2 DEF Listed
  <2>4. row = CandidateRow(i, row.states, RankingLabels)
    BY <1>3, <2>1 DEF Made
  <2>5. /\ RowFits(row) /\ row.image = [status |-> "not_used", score |-> 0]
        /\ row.weights = [id \in {c.id : c \in Evaluated} |->
                            Weight(ScoredConditions(plan), ById(Evaluated, id))]
    <3>1. PICK states, labels : states = row.states /\ labels = RankingLabels
      OBVIOUS
    <3>2. RowMade(row, i, states)
      BY <2>3, <2>4, <3>1, CandidateRowFits
    <3>3. QED
      BY <3>2 DEF RowMade
  <2>6. plan.bilingual => HistoryWeights(row)
    BY <2>5, HistoryWeighs
  <2>7. ImageFreeKey(row) \in [1..6 -> Int] /\ ImageFreeKey(row)[6] = row.index
    BY <2>5, ImageFreeKeyFits
  <2>8. keys[k] = ImageFreeKey(row)
    BY <1>2, <1>3, <2>1
  <2>9. QED
    BY <2>1, <2>5, <2>6, <2>7, <2>8
<1>5. Ordered(keys, n)
  <2>1. keys \in [1..n -> [1..6 -> Int]]
    BY <1>2, <1>3, <1>4
  <2>2. \A k, l \in 1..n : k # l => ranked[k].index # ranked[l].index
    BY <1>3 DEF Ranking, Stands
  <2>3. \A k, l \in 1..n : k # l => keys[k][6] # keys[l][6]
    BY <1>4, <2>2
  <2>4. 6 \in Nat \ {0}
    OBVIOUS
  <2>5. QED
    BY <2>1, <2>3, <2>4, KeysOrdered
<1>6. PICK from : Permuted(ranked, rows, n, from)
  BY <1>3, <1>5, SortedPermutes
<1>7. Ranking(rows)
  BY <1>1, <1>6, SortedStand DEF Ranking
<1>8. Rearranged(ranked, rows, n, from)
  BY <1>3, <1>6, SortedRows
<1>9. ASSUME NEW p \in DOMAIN rows
      PROVE  /\ rows[p].image.status = "not_used"
             /\ plan.bilingual => HistoryWeights(rows[p])
             /\ rows[p].index \in Products
  <2>1. p \in 1..n
    BY <1>8 DEF Rearranged
  <2>2. from[p] \in 1..n /\ rows[p] = ranked[from[p]]
    BY <1>8, <2>1 DEF Rearranged
  <2>3. PICK k \in 1..n : rows[p] = ranked[k]
    BY <2>2
  <2>4. ranked[k].index \in Products
    BY <1>3, <2>3 DEF Ranking, Stands
  <2>5. ranked[k].image.status = "not_used" /\ (plan.bilingual => HistoryWeights(ranked[k]))
    BY <1>4, <2>3
  <2>6. QED
    BY <2>3, <2>4, <2>5
<1>10. QED
  BY <1>7, <1>9 DEF HistoryAccepted

\* A ranking with pictures as the history gets it.
SeenRows(fetched) == [k \in DOMAIN ranked |-> WithPicture(ranked[k], fetched)]
PictureRows(fetched) ==
    LET seen == SeenRows(fetched)
    IN Sorted(seen, [k \in DOMAIN seen |-> PriorityKey(seen[k])])
\* Its order is accepted, and the history takes it unless a title was cut.
LEMMA PictureRanked ==
    ASSUME PlanInv, BatchInv, SoundPlan(plan), plan.route = "candidate", state \in Batched,
           Ranking(ranked), Made(ranked), plan.images = "on", Len(ranked) >= 1,
           NEW fetched \in Fetched, NEW rows, rows = PictureRows(fetched)
    PROVE  /\ Ranking(rows) /\ VisualAccepted(rows, fetched)
           /\ HistoryAccepted(rows) \/ \E i \in Products : ~ Displayable(response[i])
<1>1. PICK n \in Nat : Listed(n)
  BY ProductsListed
<1>2. PICK seen, keys : /\ seen = SeenRows(fetched)
                        /\ keys = [k \in DOMAIN seen |-> PriorityKey(seen[k])]
  OBVIOUS
<1>3. /\ rows = Sorted(seen, keys) /\ DOMAIN ranked = 1..n
      /\ DOMAIN seen = 1..n /\ DOMAIN keys = 1..n
  BY <1>1, <1>2 DEF PictureRows, SeenRows, Listed, Ranking, Stands
<1>4. ASSUME NEW k \in 1..n
      PROVE  /\ seen[k].index = ranked[k].index /\ seen[k].status = ranked[k].status
             /\ seen[k] = WithPicture(ranked[k], fetched)
             /\ seen[k].image.status # "not_used"
             /\ plan.bilingual => HistoryWeights(seen[k])
             /\ keys[k] \in [1..8 -> Int] /\ keys[k][8] = ranked[k].index
  <2>1. PICK row, i, shown : row = ranked[k] /\ i = row.index /\ shown = seen[k]
    OBVIOUS
  <2>2. i \in Products
    BY <1>3, <2>1 DEF Ranking, Stands
  <2>3. i \in Int /\ EntryAssumption(response[i])
    BY <1>1, <2>2 DEF Listed
  <2>4. row = CandidateRow(i, row.states, RankingLabels) /\ fetched[i] \in Pictures \cup {NoPicture}
    BY <1>3, <2>1, <2>2 DEF Made, Fetched
  <2>5. shown = WithPicture(row, fetched)
    BY <1>2, <1>3, <2>1 DEF SeenRows
  <2>6. PICK states, labels : states = row.states /\ labels = RankingLabels
    OBVIOUS
  <2>7. row = CandidateRow(i, states, labels)
    BY <2>4, <2>6
  <2>8. /\ RowFits(shown) /\ shown.index = i /\ shown.text \in Int
        /\ shown.status = row.status /\ shown.weights = row.weights
        /\ shown.image.status # "not_used"
        /\ shown.image.status = "available" => shown.image.score \in Int
    BY <2>3, <2>4, <2>5, <2>7, WithPictureFits
  <2>9. row.weights = [id \in {c.id : c \in Evaluated} |->
                         Weight(ScoredConditions(plan), ById(Evaluated, id))]
    <3>1. RowMade(row, i, states)
      BY <2>3, <2>7, CandidateRowFits
    <3>2. QED
      BY <3>1 DEF RowMade
  <2>10. plan.bilingual => HistoryWeights(shown)
    BY <2>8, <2>9, HistoryWeighs
  <2>11. PriorityKey(shown) \in [1..8 -> Int] /\ PriorityKey(shown)[8] = shown.index
    BY <2>8, PriorityKeyFits
  <2>12. keys[k] = PriorityKey(shown)
    BY <1>2, <1>3, <2>1
  <2>13. QED
    BY <2>1, <2>5, <2>8, <2>10, <2>11, <2>12
<1>5. Stands(seen)
  <2>1. DOMAIN seen = DOMAIN batch.products
    BY <1>3 DEF Ranking, Stands
  <2>2. \A k \in 1..n : seen[k].index = ranked[k].index /\ seen[k].status = ranked[k].status
    BY <1>4
  <2>3. \A k \in 1..n : seen[k].index \in Products
    BY <1>3, <2>2 DEF Ranking, Stands
  <2>4. \A i \in Products : \E k \in 1..n : seen[k].index = i
    BY <1>3, <2>2 DEF Ranking, Stands
  <2>5. \A k, l \in 1..n : k # l => seen[k].index # seen[l].index
    BY <1>3, <2>2 DEF Ranking, Stands
  <2>6. \A k \in 1..n : seen[k].status = "confirmed" => Confirms(response[seen[k].index])
    BY <1>3, <2>2 DEF Ranking, Stands
  <2>7. QED
    BY <1>3, <2>1, <2>3, <2>4, <2>5, <2>6 DEF Stands
<1>6. Ordered(keys, n)
  <2>1. keys \in [1..n -> [1..8 -> Int]]
    BY <1>2, <1>3, <1>4
  <2>2. \A k, l \in 1..n : k # l => ranked[k].index # ranked[l].index
    BY <1>3 DEF Ranking, Stands
  <2>3. \A k \in 1..n : keys[k][8] = ranked[k].index
    BY <1>4
  <2>4. \A k, l \in 1..n : k # l => keys[k][8] # keys[l][8]
    BY <2>2, <2>3
  <2>5. 8 \in Nat \ {0}
    OBVIOUS
  <2>6. QED
    BY <2>1, <2>4, <2>5, KeysOrdered
<1>7. PICK from : Permuted(seen, rows, n, from) /\ Ranks(keys, n, from)
  BY <1>3, <1>6, SortedPermutes
<1>8. Ranking(rows)
  BY <1>1, <1>5, <1>7, SortedStand
<1>9. Rearranged(seen, rows, n, from) /\ SameRows(seen, rows)
  BY <1>3, <1>7, SortedRows
<1>10. VisualAccepted(rows, fetched)
  <2>1. PICK sortedKeys : sortedKeys = [k \in DOMAIN rows |-> PriorityKey(rows[k])]
    OBVIOUS
  <2>2. DOMAIN rows = 1..n /\ \A p \in 1..n : from[p] \in 1..n /\ rows[p] = seen[from[p]]
    BY <1>9 DEF Rearranged
  <2>3. \A p \in 1..n : sortedKeys[p] = keys[from[p]]
    BY <1>2, <1>3, <2>1, <2>2
  <2>4. DOMAIN sortedKeys = 1..n /\ sortedKeys = [p \in 1..n |-> sortedKeys[p]]
    BY <2>1, <2>2
  <2>5. InOrder(sortedKeys)
    BY <1>7, <2>3, <2>4, SortedInOrder
  <2>6. {seen[k] : k \in DOMAIN seen} = {WithPicture(ranked[k], fetched) : k \in DOMAIN ranked}
    <3>1. \A k \in 1..n : seen[k] = WithPicture(ranked[k], fetched)
      BY <1>4
    <3>2. QED
      BY <1>3, <3>1
  <2>7. Len(rows) = Len(ranked)
    BY <1>8 DEF Ranking
  <2>8. QED
    BY <1>9, <2>1, <2>5, <2>6, <2>7 DEF VisualAccepted, SameRows
<1>11. ASSUME NEW p \in DOMAIN rows
       PROVE  /\ rows[p].image.status # "not_used"
              /\ plan.bilingual => HistoryWeights(rows[p])
              /\ rows[p].index \in Products
  <2>1. p \in 1..n
    BY <1>9 DEF Rearranged
  <2>2. from[p] \in 1..n /\ rows[p] = seen[from[p]]
    BY <1>9, <2>1 DEF Rearranged
  <2>3. PICK k \in 1..n : rows[p] = seen[k]
    BY <2>2
  <2>4. seen[k].index \in Products
    BY <1>3, <1>5, <2>3 DEF Stands
  <2>5. seen[k].image.status # "not_used" /\ (plan.bilingual => HistoryWeights(seen[k]))
    BY <1>4, <2>3
  <2>6. QED
    BY <2>3, <2>4, <2>5
<1>12. rows # <<>>
  <2>1. Len(rows) >= 1
    BY <1>8 DEF Ranking
  <2>2. QED
    BY <2>1
<1>13. QED
  BY <1>8, <1>10, <1>11, <1>12 DEF HistoryAccepted

\* The counts of the picture component fit the outcome of the provisional
\* route: either no picture is usable, or enough products have one that is.
LEMMA ResultCounts ==
    ASSUME NEW n \in Nat, Listed(n), NEW rows, Ranking(rows), n >= MinCalibrated,
           NEW seen, DOMAIN seen = Products,
           \A k \in DOMAIN rows : rows[k].image.status =
               (IF seen[rows[k].index] = NoPicture THEN "missing"
                ELSE IF CalibrationReady(plan.visual, plan.close, seen) THEN "available"
                ELSE "unknown")
    PROVE  ResultAccepted(rows)
<1>1. DOMAIN rows = 1..n /\ Len(rows) = n /\ IsFiniteSet(1..n)
  BY FS_Interval DEF Listed, Ranking, Stands
<1>2. PICK A, U, M : /\ A = {i \in DOMAIN rows : rows[i].image.status = "available"}
                     /\ U = {i \in DOMAIN rows : rows[i].image.status = "unknown"}
                     /\ M = {i \in DOMAIN rows : rows[i].image.status = "missing"}
  OBVIOUS
<1>3. IsFiniteSet(A) /\ IsFiniteSet(U) /\ IsFiniteSet(M)
  BY <1>1, <1>2, FS_Subset
<1>4. PICK a \in Nat, u \in Nat, m \in Nat :
         a = Cardinality(A) /\ u = Cardinality(U) /\ m = Cardinality(M)
  BY <1>3, FS_CardinalityType
<1>5. MinCalibrated \in Nat /\ MinCalibrated > 0
  BY TypedRankingAssumption
<1>6. PICK outcome : outcome = Outcome(rows)
  OBVIOUS
<1>7. outcome = IF a >= MinCalibrated THEN "image_ready"
                ELSE IF u > 0 THEN "image_unknown" ELSE "image_unavailable"
  BY <1>2, <1>4, <1>6 DEF Outcome
<1>8. SUFFICES CASE outcome = "image_ready" -> u = 0
                 [] outcome = "image_unknown" -> a = 0
                 [] OTHER -> a = 0 /\ m > 0
  BY <1>1, <1>2, <1>4, <1>6 DEF ResultAccepted
<1>9. CASE CalibrationReady(plan.visual, plan.close, seen)
  <2>1. U = {}
    BY <1>2, <1>9
  <2>2. u = 0
    BY <1>4, <2>1, FS_EmptySet
  <2>3. PICK g, T : g = [k \in A |-> rows[k].index] /\ T = {g[k] : k \in A}
    OBVIOUS
  <2>4. IsFiniteSet(T) /\ Cardinality(T) <= Cardinality(A)
    BY <1>3, <2>3, ImageFinite
  <2>5. T = Scored(seen)
    <3>1. ASSUME NEW k \in A PROVE g[k] \in Scored(seen)
      <4>1. k \in DOMAIN rows /\ rows[k].image.status = "available"
        BY <1>2
      <4>2. rows[k].index \in Products /\ seen[rows[k].index] # NoPicture
        BY <4>1 DEF Ranking, Stands
      <4>3. QED
        BY <2>3, <4>2 DEF Scored
    <3>2. ASSUME NEW i \in Scored(seen) PROVE \E k \in A : g[k] = i
      <4>1. i \in Products /\ seen[i] # NoPicture
        BY DEF Scored
      <4>2. PICK k \in DOMAIN rows : rows[k].index = i
        BY <4>1 DEF Ranking, Stands
      <4>3. rows[k].image.status = "available"
        BY <1>9, <4>1, <4>2
      <4>4. k \in A
        BY <1>2, <4>3
      <4>5. QED
        BY <2>3, <4>2, <4>4
    <3>3. QED
      BY <2>3, <3>1, <3>2
  <2>6. Cardinality(Scored(seen)) >= MinCalibrated
    BY <1>9 DEF CalibrationReady
  <2>7. Cardinality(T) \in Nat
    BY <2>4, FS_CardinalityType
  <2>8. PICK t \in Nat : t = Cardinality(T)
    BY <2>7
  <2>9. t <= a /\ t >= MinCalibrated
    BY <1>4, <2>4, <2>5, <2>6, <2>8
  <2>10. a >= MinCalibrated
    BY <1>5, <2>9
  <2>11. QED
    BY <1>7, <2>2, <2>10
<1>10. CASE ~ CalibrationReady(plan.visual, plan.close, seen)
  <2>1. A = {}
    BY <1>2, <1>10
  <2>2. a = 0
    BY <1>4, <2>1, FS_EmptySet
  <2>3. u = 0 => m > 0
    <3>1. SUFFICES ASSUME u = 0 PROVE m > 0
      OBVIOUS
    <3>2. U = {}
      BY <1>3, <1>4, <3>1, FS_EmptySet
    <3>3. \A k \in DOMAIN rows : rows[k].image.status # "unknown"
      BY <1>2, <3>2
    <3>4. \A k \in DOMAIN rows : rows[k].image.status = "missing"
      BY <1>10, <3>3
    <3>5. M = 1..n
      BY <1>1, <1>2, <3>4
    <3>6. 1 \in M
      BY <1>5, <3>5
    <3>7. Cardinality(M) # 0
      BY <1>3, <3>6, FS_EmptySet
    <3>8. QED
      BY <1>4, <3>7
  <2>4. QED
    BY <1>5, <1>7, <2>2, <2>3
<1>11. QED
  BY <1>9, <1>10

\* The picture components of the provisional route.
CalibratedImages(fetched) ==
    LET seen == Deduplicated(batch.products, fetched)
    IN [i \in Products |-> CalibratedComponent(plan.visual, plan.close, seen, i)]
\* Each product has one, and it is scored if the calibration is ready.
LEMMA ImagesCalibrated ==
    ASSUME NEW n \in Nat, Listed(n), SoundPlan(plan), plan.route = "provisional",
           NEW fetched \in Fetched, NEW seen, seen = Deduplicated(batch.products, fetched),
           NEW images, images = CalibratedImages(fetched)
    PROVE  /\ DOMAIN seen = Products
           /\ \A i \in Products :
                /\ images[i].status = "available" => images[i].score \in Int
                /\ images[i].status =
                     (IF seen[i] = NoPicture THEN "missing"
                      ELSE IF CalibrationReady(plan.visual, plan.close, seen) THEN "available"
                      ELSE "unknown")
<1>1. DOMAIN fetched = Products /\ \A i \in Products : fetched[i] \in Pictures \cup {NoPicture}
  BY DEF Fetched
<1>2. DOMAIN seen = Products
  BY <1>1 DEF Deduplicated
<1>3. \A i \in DOMAIN seen : seen[i] \in Pictures \cup {NoPicture}
  BY <1>1 DEF Deduplicated
<1>4. /\ IsFiniteSet(plan.visual) /\ plan.visual # {}
      /\ \A c \in plan.visual : c.at \in 1..MaxClauses
  BY DEF SoundPlan, VisualSound
<1>5. IsFiniteSet(DOMAIN seen)
  BY <1>2 DEF Listed
<1>6. ASSUME NEW i \in Products
      PROVE  /\ images[i].status = "available" => images[i].score \in Int
             /\ images[i].status =
                  (IF seen[i] = NoPicture THEN "missing"
                   ELSE IF CalibrationReady(plan.visual, plan.close, seen) THEN "available"
                   ELSE "unknown")
  <2>1. PICK image : image = images[i]
    OBVIOUS
  <2>2. image = CalibratedComponent(plan.visual, plan.close, seen, i)
    BY <2>1 DEF CalibratedImages
  <2>3. i \in DOMAIN seen
    BY <1>2
  <2>4. PICK visual, close : visual = plan.visual /\ close = plan.close
    OBVIOUS
  <2>5. image = CalibratedComponent(visual, close, seen, i)
    BY <2>2, <2>4
  <2>6. /\ IsFiniteSet(visual) /\ visual # {}
        /\ \A c \in visual : c.at \in 1..MaxClauses
    BY <1>4, <2>4
  <2>7. ComponentFits(image, visual, close, seen, i)
    BY ONLY <1>3, <1>5, <2>3, <2>5, <2>6, CalibratedFits
  <2>8. QED
    BY <2>1, <2>4, <2>7 DEF ComponentFits
<1>7. QED
  BY <1>2, <1>6

-----------------------------------------------------------------------------
(* Where a search stops after the retrieval was paid *)

\* The reasons HistoryAccepts gives, each by its name.
TwiceSaid ==
    \E i, j \in DOMAIN plan.source :
        /\ i # j /\ plan.source[i].about = plan.source[j].about
        /\ \/ plan.source[i].kind \in {"quantity", "capability", "common"}
           \/ plan.source[i].suffix \in {"unwanted", "without"}
ManyValues ==
    \E i \in Products, c \in Typed :
        c.kind # "price" /\ Cardinality({f.value : f \in response[i].facts})
            > Min({MaxEvidence, MaxMatches})
NotEvaluated(shown) ==
    \/ Len(batch.products) > MaxEvaluated
    \/ Len(batch.products) < (IF plan.route = "candidate" THEN 1 ELSE MinCalibrated)
    \/ \E i \in Products : shown[i] \in ReferencePictures
CutTitle == \E i \in Products : ~ Displayable(response[i])

\* The ranking requires two conditions to differ where two clauses of the
\* sentence speak of one attribute.
LEMMA NotReady ==
    ASSUME SoundPlan(plan), plan.route = "candidate", ~ ProposalReady(Typed)
    PROVE  TwiceSaid
<1>1. PICK c \in Typed, d \in Typed :
         /\ c # d
         /\ \/ /\ c.kind \in {"number", "labelled"} /\ d.kind \in {"number", "labelled"}
               /\ c.label = d.label
            \/ /\ c.kind = "common" /\ d.kind = "common" /\ c.label = d.label
  BY DEF ProposalReady
<1>2. PICK source : source = plan.source
  OBVIOUS
<1>3. StatedBy(source, c) /\ StatedBy(source, d)
  BY <1>2 DEF SoundPlan, Typed
<1>4. c.kind # "price" /\ d.kind # "price"
  BY <1>1
<1>5. PICK i \in DOMAIN source : i = c.at /\ StatesFact(source[i])
                                 /\ c = Requirement(FactOf(source, i))
  BY <1>3, <1>4 DEF StatedBy
<1>6. PICK j \in DOMAIN source : j = d.at /\ StatesFact(source[j])
                                 /\ d = Requirement(FactOf(source, j))
  BY <1>3, <1>4 DEF StatedBy
<1>7. c.label = source[i].about /\ d.label = source[j].about
  <2>1. c.label = FactOf(source, i).label /\ d.label = FactOf(source, j).label
    BY <1>5, <1>6 DEF Requirement
  <2>2. FactOf(source, i).label = source[i].about
    BY <1>5, FactFields
  <2>3. FactOf(source, j).label = source[j].about
    BY <1>6, FactFields
  <2>4. QED
    BY <2>1, <2>2, <2>3
<1>8. i # j
  BY <1>1, <1>5, <1>6
<1>9. \/ source[i].kind \in {"quantity", "capability", "common"}
      \/ source[i].suffix \in {"unwanted", "without"}
  BY <1>5 DEF StatesFact
<1>10. source[i].about = source[j].about
  BY <1>1, <1>7
<1>11. QED
  BY <1>2, <1>8, <1>9, <1>10 DEF TwiceSaid

\* Evidence is only refused where a product shows more values than are taken.
LEMMA EvidenceBound ==
    ASSUME NEW n \in Nat, Listed(n), SoundPlan(plan), EvidenceRefused
    PROVE  ManyValues
<1>1. PICK i \in Products, c \in Typed : TooMuchEvidence(response[i], c, RankingLabels[c.id])
  BY DEF EvidenceRefused
<1>2. PICK e, label : e = response[i] /\ label = RankingLabels[c.id]
  OBVIOUS
<1>3. EntryAssumption(e) /\ c.kind \in Kinds
  BY <1>2 DEF Listed, SoundPlan, Typed, Kinds
<1>4. PICK all : all = {f.value : f \in e.facts}
  OBVIOUS
<1>5. /\ IsFiniteSet(all) /\ \A s : ValuesFrom(e, label, s) \in SUBSET all
      /\ c.kind # "price" => Values(e, c, label) \in SUBSET all
  BY <1>3, <1>4, ValuesFinite
<1>6. TooMuchEvidence(e, c, label)
  BY <1>1, <1>2
<1>7. c.kind # "price"
  BY <1>6 DEF TooMuchEvidence
<1>8. PICK m : m = Min({MaxEvidence, MaxMatches})
  OBVIOUS
<1>9. m \in Nat /\ m <= MaxEvidence /\ m <= MaxMatches
  <2>1. PICK a \in Nat, b \in Nat : a = MaxEvidence /\ b = MaxMatches
    BY EvaluationAssumption
  <2>2. PICK S : S = {a, b}
    OBVIOUS
  <2>3. IsFiniteSet({a}) /\ IsFiniteSet({b})
    BY FS_Singleton
  <2>4. IsFiniteSet({a} \cup {b}) /\ S = {a} \cup {b}
    BY <2>2, <2>3, FS_Union
  <2>5. IsFiniteSet(S) /\ S \subseteq Int /\ S # {}
    BY <2>2, <2>4
  <2>6. Min(S) \in S /\ \A y \in S : Min(S) <= y
    BY <2>5, MaxMin
  <2>7. QED
    BY <1>8, <2>1, <2>2, <2>6
<1>10. \E T \in SUBSET all : Cardinality(T) > m
  <2>1. CASE c.kind \in {"number", "labelled"}
    <3>1. Cardinality(Values(e, c, label)) > MaxEvidence
      BY <1>6, <2>1 DEF TooMuchEvidence
    <3>2. PICK T \in SUBSET all : T = Values(e, c, label)
      BY <1>5, <1>7
    <3>3. IsFiniteSet(T)
      BY <1>5, FS_Subset
    <3>4. PICK k \in Nat : k = Cardinality(T)
      BY <3>3, FS_CardinalityType
    <3>5. MaxEvidence \in Nat /\ k > MaxEvidence
      BY <3>1, <3>2, <3>4, EvaluationAssumption
    <3>6. k > m
      BY <1>9, <3>5
    <3>7. QED
      BY <3>4, <3>6
  <2>2. CASE c.kind = "common"
    <3>1. PICK s : Cardinality(ValuesFrom(e, label, s)) > MaxMatches
      BY <1>6, <2>2 DEF TooMuchEvidence
    <3>2. PICK T \in SUBSET all : T = ValuesFrom(e, label, s)
      BY <1>5
    <3>3. IsFiniteSet(T)
      BY <1>5, FS_Subset
    <3>4. PICK k \in Nat : k = Cardinality(T)
      BY <3>3, FS_CardinalityType
    <3>5. MaxMatches \in Nat /\ k > MaxMatches
      BY <3>1, <3>2, <3>4, EvaluationAssumption
    <3>6. k > m
      BY <1>9, <3>5
    <3>7. QED
      BY <3>4, <3>6
  <2>3. QED
    BY <1>3, <1>7, <2>1, <2>2 DEF Kinds
<1>11. Cardinality(all) > m
  <2>1. PICK T \in SUBSET all : Cardinality(T) > m
    BY <1>10
  <2>2. IsFiniteSet(T) /\ Cardinality(T) <= Cardinality(all)
    BY <1>5, FS_Subset
  <2>3. PICK a \in Nat, b \in Nat : a = Cardinality(T) /\ b = Cardinality(all)
    BY <1>5, <2>2, FS_CardinalityType
  <2>4. b > m
    BY <1>9, <2>1, <2>2, <2>3
  <2>5. QED
    BY <2>3, <2>4
<1>12. Cardinality({f.value : f \in response[i].facts}) > Min({MaxEvidence, MaxMatches})
  BY <1>2, <1>4, <1>8, <1>11
<1>13. QED
  BY <1>7, <1>12 DEF ManyValues

\* The pictures are only refused where the property says so.
LEMMA EvaluationBound ==
    ASSUME NEW n \in Nat, Listed(n), NEW fetched \in Fetched,
           NEW rows, Len(rows) = n, NEW minimum,
           minimum = (IF plan.route = "candidate" THEN 1 ELSE MinCalibrated),
           EvaluationRefused(minimum, rows, fetched)
    PROVE  NotEvaluated(fetched)
BY DEF Listed, Fetched, EvaluationRefused, NotEvaluated

-----------------------------------------------------------------------------
(* The ranking follows the evidence *)

\* Only the candidate route is reviewed, and what is ranked stands for the
\* products; until it is completed it is what the rows are made again from.
RankInv ==
    /\ state \in {"attribute_review", "confirmed", "ranked", "history_pending", "saved"}
         => plan.route = "candidate"
    /\ state \in {"normalized", "completed"} => plan.route # "candidate"
    /\ ranked # <<>> \/ state = "ranked" =>
         /\ Ranking(ranked)
         /\ plan.route # "candidate" => ConfirmedFirst(ranked)
    /\ state = "ranked" => Made(ranked)

\* The invariant of the ranking implies the property.
LEMMA RankInvFollows ==
    ASSUME BatchInv, RankInv
    PROVE  RankedFromEvidence
<1>1. Normalizing => BatchExact
  BY BatchIsExact
<1>2. ASSUME ranked # <<>>
      PROVE  /\ Len(ranked) = Len(batch.products)
             /\ {ranked[k].index : k \in DOMAIN ranked} = Products
             /\ \A k \in DOMAIN ranked :
                  /\ ranked[k].status = "confirmed" => Confirms(response[ranked[k].index])
                  /\ plan.route # "candidate" /\ ranked[k].status = "confirmed" =>
                       \A l \in 1..(k - 1) : ranked[l].status = "confirmed"
  <2>1. Ranking(ranked) /\ (plan.route # "candidate" => ConfirmedFirst(ranked))
    BY <1>2 DEF RankInv
  <2>2. {ranked[k].index : k \in DOMAIN ranked} = Products
    BY <2>1 DEF Ranking, Stands
  <2>3. QED
    BY <2>1, <2>2 DEF Ranking, Stands, ConfirmedFirst
<1>3. QED
  BY <1>1, <1>2 DEF RankedFromEvidence

\* What the rows are made from stays.
SameSearch == UNCHANGED <<plan, response, batch, review, selected>>
\* A ranking stays one while they do.
LEMMA RankingStays ==
    ASSUME SameSearch, NEW rows, Ranking(rows), ranked' = rows
    PROVE  Ranking(ranked)'
<1>1. Products' = Products /\ Typed' = Typed
  BY DEF SameSearch, Products, Typed
<1>2. RankingLabels' = RankingLabels
  BY <1>1 DEF SameSearch, RankingLabels
<1>3. \A e : Confirms(e)' <=> Confirms(e)
  BY <1>1, <1>2 DEF SameSearch, Confirms
<1>4. QED
  BY <1>1, <1>3 DEF SameSearch, Ranking, Stands

\* So does the order that puts confirmed rows first,
LEMMA ConfirmedStays ==
    ASSUME NEW rows, ConfirmedFirst(rows), ranked' = rows
    PROVE  ConfirmedFirst(ranked)'
BY DEF ConfirmedFirst

\* and the rows stay the ones that rank made.
LEMMA MadeStays ==
    ASSUME SameSearch, NEW rows, Made(rows), ranked' = rows
    PROVE  Made(ranked)'
<1>1. Typed' = Typed /\ Evaluated' = Evaluated
  BY DEF SameSearch, Typed, Evaluated
<1>2. RankingLabels' = RankingLabels
  BY <1>1 DEF SameSearch, RankingLabels
<1>3. \A e, c, states, labels : Score(e, c, states, labels)' = Score(e, c, states, labels)
  BY DEF SameSearch, Score
<1>4. \A e, states, labels : Scores(e, states, labels)' = Scores(e, states, labels)
  BY <1>1, <1>3 DEF Scores
<1>5. \A scores, strength : Ratio(scores, strength)' = Ratio(scores, strength)
  BY <1>1 DEF SameSearch, Ratio
<1>6. \A i, states, labels : CandidateRow(i, states, labels)' = CandidateRow(i, states, labels)
  BY <1>1, <1>4, <1>5 DEF SameSearch, CandidateRow
<1>7. QED
  BY <1>2, <1>6 DEF Made

\* Where nothing is ranked there is nothing to say.
LEMMA NotRanked ==
    ASSUME ranked' = <<>>, state' \notin Batched
    PROVE  RankInv'
BY DEF RankInv, Batched

\* A failed search keeps the rows it had.
LEMMA RankFails ==
    ASSUME RankInv, BatchInv, SameSearch, state \in {"confirmed", "ranked", "normalized"},
           state' = "failed", ranked' = ranked
    PROVE  RankInv'
<1>1. CASE ranked = <<>>
  BY <1>1, NotRanked DEF Batched
<1>2. CASE ranked # <<>>
  <2>1. PICK rows : rows = ranked
    OBVIOUS
  <2>2. Ranking(rows) /\ (plan.route # "candidate" => ConfirmedFirst(rows))
    BY <1>2, <2>1 DEF RankInv
  <2>3. Ranking(ranked)' /\ (plan.route # "candidate" => ConfirmedFirst(ranked)')
    BY <2>1, <2>2, RankingStays, ConfirmedStays
  <2>4. plan'.route = plan.route
    BY DEF SameSearch
  <2>5. QED
    BY <2>3, <2>4 DEF RankInv
<1>3. QED
  BY <1>1, <1>2

\* While there is a review it asks about the plan, and what was confirmed in
\* it is among what it offers.
ReviewInv ==
    /\ state \in {"attribute_review", "confirmed"} => ReviewHolds
    /\ state = "confirmed" => SelectionHolds

\* What is known when a search ranks.
Known == PlanInv /\ BatchInv /\ ConditionsInv /\ ReviewInv /\ RankInv /\ HistoryAccepts
\* Then the plan is sound and the batch lists its products.
LEMMA KnownFacts ==
    ASSUME Known, state \in Batched
    PROVE  SoundPlan(plan) /\ \E n \in Nat : Listed(n)
<1>1. state \notin Unmade \cup {"failed"}
  BY DEF Batched, Unmade
<1>2. QED
  BY <1>1, ProductsListed DEF Known, ConditionsInv

\* The search stops for a reason the property names.
LEMMA StopsForRequirements ==
    ASSUME TwiceSaid, SameSearch, failure' = "ranking_requirements"
    PROVE  HistoryAccepts'
BY DEF TwiceSaid, SameSearch, HistoryAccepts
\* A ranking that fails for a product of too many values names it too,
LEMMA StopsForEvidence ==
    ASSUME ManyValues, SameSearch, failure' = "ranking"
    PROVE  HistoryAccepts'
<1>1. Products' = Products /\ Typed' = Typed
  BY DEF SameSearch, Products, Typed
<1>2. QED
  BY <1>1 DEF ManyValues, SameSearch, HistoryAccepts
\* as does an evaluation that fails for its pictures,
LEMMA StopsForPictures ==
    ASSUME NEW shown, NotEvaluated(shown), SameSearch, pictures' = shown,
           failure' = "visual_evaluation"
    PROVE  HistoryAccepts'
<1>1. Products' = Products
  BY DEF SameSearch, Products
<1>2. QED
  BY <1>1 DEF NotEvaluated, SameSearch, HistoryAccepts
\* and a history that fails for a cut title.
LEMMA StopsForTitle ==
    ASSUME CutTitle, SameSearch, failure' = "history_snapshot"
    PROVE  HistoryAccepts'
<1>1. Products' = Products
  BY DEF SameSearch, Products
<1>2. QED
  BY <1>1 DEF CutTitle, Displayable, SameSearch, HistoryAccepts
\* A failure before the ranking is not about the history.
LEMMA StopsBefore ==
    ASSUME failure' \in {"none", "retrieval"} \cup PreparationStages
    PROVE  HistoryAccepts'
BY DEF HistoryAccepts, PreparationStages

\* CandidateSearch.rank
LEMMA KnownRank ==
    ASSUME Known, Rank
    PROVE  RankInv' /\ HistoryAccepts'
<1>1. /\ state = "confirmed" /\ SameSearch /\ state \in Batched
      /\ plan.route = "candidate" /\ failure = "none"
  BY DEF Rank, SameSearch, Batched, Known, RankInv, PlanInv
<1>2. SoundPlan(plan)
  BY <1>1, KnownFacts
<1>3. PICK n \in Nat : Listed(n)
  BY <1>1, KnownFacts
<1>4. PICK rows : rows = CandidateRows
  OBVIOUS
<1>5. Ranking(rows) /\ Made(rows) /\ RankingAccepted(rows)
  BY <1>1, <1>2, <1>4, CandidateRanked DEF Known, ReviewInv
<1>6. \/ ~ ProposalReady(Typed) /\ Fail("ranking_requirements") /\ ranked' = ranked
      \/ EvidenceRefused /\ Fail("ranking") /\ ranked' = ranked
      \/ state' = "ranked" /\ ranked' = rows /\ failure' = failure
  BY <1>4, <1>5 DEF Rank, CandidateRows
<1>7. CASE ~ ProposalReady(Typed) /\ Fail("ranking_requirements") /\ ranked' = ranked
  <2>1. TwiceSaid
    BY <1>1, <1>2, <1>7, NotReady
  <2>2. QED
    BY <1>1, <1>7, <2>1, RankFails, StopsForRequirements DEF Known, Fail
<1>8. CASE EvidenceRefused /\ Fail("ranking") /\ ranked' = ranked
  <2>1. ManyValues
    BY <1>2, <1>3, <1>8, EvidenceBound
  <2>2. QED
    BY <1>1, <1>8, <2>1, RankFails, StopsForEvidence DEF Known, Fail
<1>9. CASE state' = "ranked" /\ ranked' = rows /\ failure' = failure
  <2>1. Ranking(ranked)' /\ Made(ranked)'
    BY <1>1, <1>5, <1>9, RankingStays, MadeStays
  <2>2. plan'.route = "candidate"
    BY <1>1 DEF SameSearch
  <2>3. RankInv'
    BY <1>9, <2>1, <2>2 DEF RankInv
  <2>4. QED
    BY <1>1, <1>9, <2>3, StopsBefore
<1>10. QED
  BY <1>6, <1>7, <1>8, <1>9

\* What is kept for the history.
LEMMA KnownKept ==
    ASSUME Known, SameSearch, state = "ranked", NEW rows, Ranking(rows),
           HistoryAccepted(rows) \/ CutTitle, Keep(rows)
    PROVE  RankInv' /\ HistoryAccepts'
<1>1. plan.route = "candidate" /\ plan'.route = plan.route /\ failure = "none"
  BY DEF Known, RankInv, PlanInv, SameSearch
<1>2. CASE HistoryAccepted(rows)
  <2>1. state' = "history_pending" /\ ranked' = rows /\ failure' = failure
    BY <1>2 DEF Keep
  <2>2. Ranking(ranked)'
    BY <2>1, RankingStays
  <2>3. RankInv'
    BY <1>1, <2>1, <2>2 DEF RankInv
  <2>4. QED
    BY <1>1, <2>1, <2>3, StopsBefore
<1>3. CASE ~ HistoryAccepted(rows)
  <2>1. Fail("history_snapshot") /\ ranked' = ranked
    BY <1>3 DEF Keep
  <2>2. RankInv'
    BY <2>1, RankFails DEF Known, Fail
  <2>3. HistoryAccepts'
    BY <1>3, <2>1, StopsForTitle DEF Fail
  <2>4. QED
    BY <2>2, <2>3
<1>4. QED
  BY <1>2, <1>3

\* complete_image_free
LEMMA KnownImageFree ==
    ASSUME Known, CompleteImageFree
    PROVE  RankInv' /\ HistoryAccepts'
<1>1. /\ state = "ranked" /\ SameSearch /\ state \in Batched /\ plan.images = "off"
      /\ plan.route = "candidate" /\ Ranking(ranked) /\ Made(ranked)
  BY DEF CompleteImageFree, SameSearch, Batched, Known, RankInv
<1>2. SoundPlan(plan)
  BY <1>1, KnownFacts
<1>3. PICK rows : rows = ImageFreeRows
  OBVIOUS
<1>4. Ranking(rows) /\ (HistoryAccepted(rows) \/ CutTitle)
  BY <1>1, <1>2, <1>3, ImageFreeRanked DEF Known, CutTitle
<1>5. Keep(rows)
  BY <1>3 DEF CompleteImageFree, ImageFreeRows
<1>6. QED
  BY <1>1, <1>4, <1>5, KnownKept

\* complete_candidate_ranking
LEMMA KnownImages ==
    ASSUME Known, NEW fetched \in Fetched, CompleteWithImages(fetched)
    PROVE  RankInv' /\ HistoryAccepts'
<1>1. /\ state = "ranked" /\ SameSearch /\ state \in Batched /\ plan.images = "on"
      /\ plan.route = "candidate" /\ Ranking(ranked) /\ Made(ranked) /\ pictures' = fetched
  BY DEF CompleteWithImages, SameSearch, Batched, Known, RankInv
<1>2. SoundPlan(plan)
  BY <1>1, KnownFacts
<1>3. PICK n \in Nat : Listed(n)
  BY <1>1, KnownFacts
<1>4. Len(ranked) = n
  BY <1>1, <1>3 DEF Ranking, Listed
<1>5. PICK rows : rows = PictureRows(fetched)
  OBVIOUS
<1>6. \/ EvaluationRefused(1, ranked, fetched) /\ Fail("visual_evaluation") /\ ranked' = ranked
      \/ /\ ~ EvaluationRefused(1, ranked, fetched) /\ ~ VisualAccepted(rows, fetched)
      \/ ~ EvaluationRefused(1, ranked, fetched) /\ Keep(rows)
  BY <1>5 DEF CompleteWithImages, PictureRows, SeenRows
<1>7. CASE EvaluationRefused(1, ranked, fetched) /\ Fail("visual_evaluation") /\ ranked' = ranked
  <2>1. NotEvaluated(fetched)
    BY <1>1, <1>3, <1>4, <1>7, EvaluationBound
  <2>2. RankInv'
    BY <1>1, <1>7, RankFails DEF Known, Fail
  <2>3. HistoryAccepts'
    BY <1>1, <1>7, <2>1, StopsForPictures DEF Fail
  <2>4. QED
    BY <2>2, <2>3
<1>8. CASE ~ EvaluationRefused(1, ranked, fetched)
  <2>1. Len(ranked) >= 1
    BY <1>4, <1>8 DEF EvaluationRefused
  <2>2. /\ Ranking(rows) /\ VisualAccepted(rows, fetched)
        /\ HistoryAccepted(rows) \/ CutTitle
    BY <1>1, <1>2, <1>5, <2>1, PictureRanked DEF Known, CutTitle
  <2>3. Keep(rows)
    BY <1>6, <1>8, <2>2
  <2>4. QED
    BY <1>1, <2>2, <2>3, KnownKept
<1>9. QED
  BY <1>7, <1>8, <1>6

\* rank_typed_product_batch
LEMMA KnownRankTyped ==
    ASSUME Known, RankTyped
    PROVE  RankInv' /\ HistoryAccepts'
<1>1. /\ state = "normalized" /\ SameSearch /\ state \in Batched
      /\ plan.route # "candidate" /\ failure = "none"
  BY DEF RankTyped, SameSearch, Batched, Known, RankInv, PlanInv
<1>2. SoundPlan(plan)
  BY <1>1, KnownFacts
<1>3. PICK n \in Nat : Listed(n)
  BY <1>1, KnownFacts
<1>4. PICK images, rows : /\ images = [i \in Products |-> Unavailable("disabled")]
                          /\ rows = TypedRows(images)
  OBVIOUS
<1>5. \A i \in Products : images[i].status = "available" => images[i].score \in Int
  BY <1>4 DEF Unavailable
<1>6. Ranking(rows) /\ ConfirmedFirst(rows) /\ TypedAccepted(rows, images)
  BY <1>1, <1>2, <1>4, <1>5, TypedRanked DEF Known
<1>7. \/ EvidenceRefused /\ Fail("ranking") /\ ranked' = ranked
      \/ state' = "completed" /\ ranked' = rows /\ failure' = failure
  BY <1>4, <1>6 DEF RankTyped
<1>8. CASE EvidenceRefused /\ Fail("ranking") /\ ranked' = ranked
  <2>1. ManyValues
    BY <1>2, <1>3, <1>8, EvidenceBound
  <2>2. QED
    BY <1>1, <1>8, <2>1, RankFails, StopsForEvidence DEF Known, Fail
<1>9. CASE state' = "completed" /\ ranked' = rows /\ failure' = failure
  <2>1. Ranking(ranked)' /\ ConfirmedFirst(ranked)'
    BY <1>1, <1>6, <1>9, RankingStays, ConfirmedStays
  <2>2. plan'.route # "candidate"
    BY <1>1 DEF SameSearch
  <2>3. RankInv'
    BY <1>9, <2>1, <2>2 DEF RankInv
  <2>4. QED
    BY <1>1, <1>9, <2>3, StopsBefore
<1>10. QED
  BY <1>7, <1>8, <1>9

\* run_provisional_search
LEMMA KnownRankProvisional ==
    ASSUME Known, NEW fetched \in Fetched, RankProvisional(fetched)
    PROVE  RankInv' /\ HistoryAccepts'
<1>1. /\ state = "normalized" /\ SameSearch /\ state \in Batched /\ pictures' = fetched
      /\ plan.route = "provisional" /\ failure = "none"
  BY DEF RankProvisional, SameSearch, Batched, Known, PlanInv
<1>2. SoundPlan(plan)
  BY <1>1, KnownFacts
<1>3. PICK n \in Nat : Listed(n)
  BY <1>1, KnownFacts
<1>4. PICK seen, images, rows : /\ seen = Deduplicated(batch.products, fetched)
                                /\ images = CalibratedImages(fetched)
                                /\ rows = TypedRows(images)
  OBVIOUS
<1>5. /\ DOMAIN seen = Products
      /\ \A i \in Products :
           /\ images[i].status = "available" => images[i].score \in Int
           /\ images[i].status =
                (IF seen[i] = NoPicture THEN "missing"
                 ELSE IF CalibrationReady(plan.visual, plan.close, seen) THEN "available"
                 ELSE "unknown")
  BY <1>1, <1>2, <1>3, <1>4, ImagesCalibrated
<1>6. Ranking(rows) /\ ConfirmedFirst(rows) /\ TypedAccepted(rows, images)
  BY <1>1, <1>2, <1>4, <1>5, TypedRanked DEF Known
<1>7. \/ EvidenceRefused /\ Fail("ranking") /\ ranked' = ranked
      \/ /\ EvaluationRefused(MinCalibrated, batch.products, fetched)
         /\ Fail("visual_evaluation") /\ ranked' = ranked
      \/ /\ ~ EvaluationRefused(MinCalibrated, batch.products, fetched)
         /\ \/ ~ ResultAccepted(rows)
            \/ state' = "completed" /\ ranked' = rows /\ failure' = failure
  BY <1>4, <1>6 DEF RankProvisional, CalibratedImages
<1>8. CASE EvidenceRefused /\ Fail("ranking") /\ ranked' = ranked
  <2>1. ManyValues
    BY <1>2, <1>3, <1>8, EvidenceBound
  <2>2. QED
    BY <1>1, <1>8, <2>1, RankFails, StopsForEvidence DEF Known, Fail
<1>9. CASE /\ EvaluationRefused(MinCalibrated, batch.products, fetched)
           /\ Fail("visual_evaluation") /\ ranked' = ranked
  <2>1. Len(batch.products) = n
    BY <1>3 DEF Listed
  <2>2. NotEvaluated(fetched)
    BY <1>1, <1>3, <1>9, <2>1, EvaluationBound
  <2>3. RankInv'
    BY <1>1, <1>9, RankFails DEF Known, Fail
  <2>4. HistoryAccepts'
    BY <1>1, <1>9, <2>2, StopsForPictures DEF Fail
  <2>5. QED
    BY <2>3, <2>4
<1>10. CASE /\ ~ EvaluationRefused(MinCalibrated, batch.products, fetched)
            /\ \/ ~ ResultAccepted(rows)
               \/ state' = "completed" /\ ranked' = rows /\ failure' = failure
  <2>1. n >= MinCalibrated
    <3>1. n = Len(batch.products) /\ MinCalibrated \in Nat
      BY <1>3, TypedRankingAssumption DEF Listed
    <3>2. QED
      BY <1>10, <3>1 DEF EvaluationRefused
  <2>2. ASSUME NEW k \in DOMAIN rows
        PROVE  rows[k].image.status =
                 (IF seen[rows[k].index] = NoPicture THEN "missing"
                  ELSE IF CalibrationReady(plan.visual, plan.close, seen) THEN "available"
                  ELSE "unknown")
    <3>1. PICK i \in Products : i = rows[k].index
      BY <1>6 DEF Ranking, Stands
    <3>2. rows[k] = TypedRow(i, images[i])
      BY <1>6, <3>1 DEF TypedAccepted
    <3>3. rows[k].image = images[i]
      BY <3>2 DEF TypedRow
    <3>4. QED
      BY <1>5, <3>1, <3>3
  <2>3. ResultAccepted(rows)
    BY <1>3, <1>5, <1>6, <2>1, <2>2, ResultCounts
  <2>4. state' = "completed" /\ ranked' = rows /\ failure' = failure
    BY <1>10, <2>3
  <2>5. Ranking(ranked)' /\ ConfirmedFirst(ranked)'
    BY <1>1, <1>6, <2>4, RankingStays, ConfirmedStays
  <2>6. plan'.route # "candidate"
    BY <1>1 DEF SameSearch
  <2>7. RankInv'
    BY <2>4, <2>5, <2>6 DEF RankInv
  <2>8. QED
    BY <1>1, <2>4, <2>7, StopsBefore
<1>11. QED
  BY <1>7, <1>8, <1>9, <1>10

\* A search that has not come to the ranking.
LEMMA KnownBefore ==
    ASSUME ranked' = <<>>, state' \notin Batched,
           failure' \in {"none", "retrieval"} \cup PreparationStages
    PROVE  RankInv' /\ HistoryAccepts'
BY NotRanked, StopsBefore

\* The invariants hold after every step.
LEMMA KnownStep ==
    ASSUME Known, [Next]_vars
    PROVE  RankInv' /\ HistoryAccepts'
<1>1. \A s \in {"retrieval_review", "failed", "extracting", "asking", "blocked", "fetching"} :
         s \notin Batched
  BY DEF Batched
<1>2. ASSUME state \in {"preparing", "extracting", "asking", "retrieval_review", "fetching"}
      PROVE  ranked = <<>> /\ failure = "none"
  BY <1>2 DEF Known, BatchInv, PlanInv, Unmade
<1>3. ASSUME NEW stage \in PreparationStages, Refuse(stage)
      PROVE  state' = "failed" /\ failure' \in PreparationStages
  BY <1>3 DEF Refuse, Fail
<1>4. ASSUME NEW rows, Build(rows)
      PROVE  /\ state' \in {"retrieval_review", "failed"}
             /\ failure' = failure \/ failure' \in PreparationStages
  <2>1. CASE Refuse("query_build")
    <3>1. "query_build" \in PreparationStages
      BY DEF PreparationStages
    <3>2. QED
      BY <1>3, <2>1, <3>1
  <2>2. CASE Planned(CandidateConditions(plan.source, rows),
                     {VisualRequirement(r) : r \in rows}, plan.queries, NoPrice)
    BY <2>2 DEF Planned
  <2>3. QED
    BY <1>4, <2>1, <2>2 DEF Build
<1>5. CASE Prepare
  <2>1. {"condition_strength", "product_scope", "visual_count", "empty_conditions"}
           \subseteq PreparationStages
    BY DEF PreparationStages
  <2>2. /\ state' \in {"retrieval_review", "failed", "extracting"}
        /\ failure' = failure \/ failure' \in PreparationStages
    BY <1>3, <1>4, <1>5, <2>1 DEF Prepare
  <2>3. ranked' = <<>> /\ failure = "none"
    BY <1>2, <1>5 DEF Prepare
  <2>4. QED
    BY <1>1, <2>2, <2>3, KnownBefore
<1>6. CASE \E rows \in {s \in SUBSET Rows : Cardinality(s) <= MaxVisual + 1} : Extract(rows)
  <2>1. PICK rows : Extract(rows)
    BY <1>6
  <2>2. "visual_extraction" \in PreparationStages
    BY DEF PreparationStages
  <2>3. /\ state' \in {"retrieval_review", "failed"}
        /\ failure' = failure \/ failure' \in PreparationStages
    BY <1>3, <1>4, <2>1, <2>2 DEF Extract
  <2>4. ranked' = <<>> /\ failure = "none"
    BY <1>2, <2>1 DEF Extract
  <2>5. QED
    BY <1>1, <2>3, <2>4, KnownBefore
<1>7. CASE ExtractFails
  <2>1. "visual_extraction" \in PreparationStages
    BY DEF PreparationStages
  <2>2. state' = "failed" /\ failure' \in PreparationStages
    BY <1>3, <1>7, <2>1 DEF ExtractFails
  <2>3. ranked' = <<>>
    BY <1>2, <1>7 DEF ExtractFails
  <2>4. QED
    BY <1>1, <2>2, <2>3, KnownBefore
<1>8. CASE Ask
  BY <1>1, <1>2, <1>8, KnownBefore DEF Ask
<1>9. CASE \E reply \in plan.replies : Answer(reply)
  <2>1. PICK reply : Answer(reply)
    BY <1>9
  <2>2. "request" \in PreparationStages /\ "response" \in PreparationStages
    BY DEF PreparationStages
  <2>3. ASSUME NEW conditions, NEW visual, NEW queries, NEW target,
               Planned(conditions, visual, queries, target)
        PROVE  state' = "retrieval_review" /\ failure' = failure
    BY <2>3 DEF Planned
  <2>4. /\ state' \in {"retrieval_review", "failed", "blocked"}
        /\ failure' = failure \/ failure' \in PreparationStages
    BY <1>3, <2>1, <2>2, <2>3 DEF Answer
  <2>5. ranked' = <<>> /\ failure = "none"
    BY <1>2, <2>1 DEF Answer
  <2>6. QED
    BY <1>1, <2>4, <2>5, KnownBefore
<1>10. CASE Expire
  <2>1. ranked = <<>> /\ ranked' = <<>> /\ state' = state /\ plan' = plan
        /\ failure' = "none" /\ state # "ranked"
    BY <1>10 DEF Expire, Known, BatchInv, PlanInv
  <2>2. RankInv'
    BY <1>10, <2>1 DEF Known, RankInv, Expire
  <2>3. QED
    BY <2>1, <2>2, StopsBefore
<1>11. CASE ApproveAndFetch
  BY <1>1, <1>2, <1>11, KnownBefore DEF ApproveAndFetch
<1>12. CASE \E e \in Entries[plan.offer] : Deliver(e)
  BY <1>1, <1>2, <1>12, KnownBefore DEF Deliver
<1>13. CASE FetchFails
  BY <1>1, <1>2, <1>13, KnownBefore DEF FetchFails, Fail
<1>14. CASE FetchReturns
  <2>1. state = "fetching" /\ ranked' = ranked /\ plan' = plan
    BY <1>14 DEF FetchReturns
  <2>2. ranked' = <<>> /\ failure = "none"
    BY <1>2, <2>1
  <2>3. CASE Fail("retrieval")
    BY <1>1, <2>2, <2>3, KnownBefore DEF Fail
  <2>4. CASE /\ state' = IF plan.route = "candidate" THEN "attribute_review" ELSE "normalized"
             /\ failure' = failure
    <3>1. RankInv'
      BY <2>1, <2>2, <2>4 DEF RankInv
    <3>2. QED
      BY <2>2, <2>4, <3>1, StopsBefore
  <2>5. QED
    BY <1>14, <2>3, <2>4 DEF FetchReturns
<1>15. CASE \E selections \in [review.unresolved -> review.options] : Confirm(selections)
  <2>1. /\ state = "attribute_review" /\ state' = "confirmed" /\ plan' = plan
        /\ ranked' = ranked /\ failure' = failure
    BY <1>15 DEF Confirm
  <2>2. ranked = <<>> /\ failure = "none" /\ plan.route = "candidate"
    BY <2>1 DEF Known, BatchInv, PlanInv, RankInv
  <2>3. RankInv'
    BY <2>1, <2>2 DEF RankInv
  <2>4. QED
    BY <2>1, <2>2, <2>3, StopsBefore
<1>16. CASE Rank
  BY <1>16, KnownRank
<1>17. CASE CompleteImageFree
  BY <1>17, KnownImageFree
<1>18. CASE \E fetched \in Fetched : CompleteWithImages(fetched)
  BY <1>18, KnownImages
<1>19. CASE Save
  <2>1. state = "history_pending" /\ state' = "saved" /\ SameSearch
        /\ ranked' = ranked /\ failure' = failure
    BY <1>19 DEF Save, SameSearch
  <2>2. plan.route = "candidate" /\ plan'.route = "candidate" /\ failure = "none"
    BY <2>1 DEF Known, RankInv, PlanInv, SameSearch
  <2>3. ranked # <<>> => Ranking(ranked)'
    <3>1. PICK rows : rows = ranked
      OBVIOUS
    <3>2. ranked # <<>> => Ranking(rows)
      BY <3>1 DEF Known, RankInv
    <3>3. QED
      BY <2>1, <3>1, <3>2, RankingStays
  <2>4. RankInv'
    BY <2>1, <2>2, <2>3 DEF RankInv
  <2>5. QED
    BY <2>1, <2>2, <2>4, StopsBefore
<1>20. CASE \E playwright \in BOOLEAN : Reopen(playwright)
  <2>1. /\ state = "saved" /\ state' = "retrieval_review" /\ ranked' = <<>>
        /\ failure' = failure
    BY <1>20 DEF Reopen
  <2>2. failure = "none"
    BY <2>1 DEF Known, PlanInv
  <2>3. QED
    BY <1>1, <2>1, <2>2, KnownBefore
<1>21. CASE RankTyped
  BY <1>21, KnownRankTyped
<1>22. CASE \E fetched \in Fetched : RankProvisional(fetched)
  BY <1>22, KnownRankProvisional
<1>23. CASE UNCHANGED vars
  <2>1. SameSearch /\ ranked' = ranked /\ state' = state /\ failure' = failure
        /\ pictures' = pictures
    BY <1>23 DEF vars, SameSearch
  <2>2. PICK rows : rows = ranked
    OBVIOUS
  <2>3. /\ Ranking(rows) => Ranking(ranked)'
        /\ ConfirmedFirst(rows) => ConfirmedFirst(ranked)'
        /\ Made(rows) => Made(ranked)'
    BY <2>1, <2>2, RankingStays, ConfirmedStays, MadeStays
  <2>4. RankInv'
    BY <2>1, <2>2, <2>3 DEF Known, RankInv, SameSearch
  <2>5. HistoryAccepts'
    <3>1. Products' = Products /\ Typed' = Typed
      BY <2>1 DEF SameSearch, Products, Typed
    <3>2. QED
      BY <2>1, <3>1 DEF Known, HistoryAccepts, SameSearch
  <2>6. QED
    BY <2>4, <2>5
<1>24. QED
  BY <1>5, <1>6, <1>7, <1>8, <1>9, <1>10, <1>11, <1>12, <1>13, <1>14, <1>15, <1>16, <1>17,
     <1>18, <1>19, <1>20, <1>21, <1>22, <1>23 DEF Next

\* The review holds after every step: it is made from the plan when the
\* response is in, and the plan stays until it is confirmed.
LEMMA ReviewStep ==
    ASSUME Known, [Next]_vars
    PROVE  ReviewInv'
<1>1. CASE state' \notin {"attribute_review", "confirmed"}
  BY <1>1 DEF ReviewInv
<1>2. CASE FetchReturns /\ state' = "attribute_review"
  <2>1. /\ state = "fetching" /\ plan' = plan
        /\ \E made : review' = Asked(Options(made))
    BY <1>2 DEF FetchReturns, Fail
  <2>2. PICK options : review' = Asked(options)
    BY <2>1
  <2>3. Unique(Typed)
    BY <2>1 DEF Known, ConditionsInv, Unmade, SoundPlan, Typed
  <2>4. /\ review'.conditions = Typed /\ review'.options = options
        /\ review'.unresolved = {c.id : c \in {d \in Quantities : d.label = NoLabel}}
        /\ review'.automatic = {c.id : c \in {d \in Quantities : d.label \in options \ {NoLabel}}}
    BY <2>2 DEF Asked, Quantities
  <2>5. Typed' = Typed /\ Quantities' = Quantities
    BY <2>1 DEF Typed, Quantities
  <2>6. ASSUME NEW id \in review'.automatic PROVE ById(Typed, id).label \in options
    <3>1. PICK c \in Quantities : id = c.id /\ c.label \in options
      BY <2>4
    <3>2. c \in Typed
      BY DEF Quantities
    <3>3. ById(Typed, id) = c
      BY <2>3, <3>1, <3>2, Found
    <3>4. QED
      BY <3>1, <3>3
  <2>7. ReviewHolds'
    BY <2>4, <2>5, <2>6 DEF ReviewHolds
  <2>8. QED
    BY <1>2, <2>7 DEF ReviewInv
<1>3. CASE \E selections \in [review.unresolved -> review.options] : Confirm(selections)
  <2>1. PICK selections \in [review.unresolved -> review.options] : Confirm(selections)
    BY <1>3
  <2>2. /\ state = "attribute_review" /\ plan' = plan /\ review' = review
        /\ selected' = [id \in review.unresolved \cup review.automatic |->
                          IF id \in review.unresolved THEN selections[id]
                          ELSE ById(review.conditions, id).label]
    BY <2>1 DEF Confirm
  <2>3. ReviewHolds
    BY <2>2 DEF Known, ReviewInv
  <2>4. Typed' = Typed /\ Quantities' = Quantities
    BY <2>2 DEF Typed, Quantities
  <2>5. DOMAIN selected' \subseteq {c.id : c \in Quantities}
    BY <2>2, <2>3 DEF ReviewHolds
  <2>6. ASSUME NEW id \in DOMAIN selected' PROVE selected'[id] \in review.options
    <3>1. CASE id \in review.unresolved
      BY <2>2, <3>1
    <3>2. CASE id \notin review.unresolved
      <4>1. id \in review.automatic /\ selected'[id] = ById(review.conditions, id).label
        BY <2>2, <3>2
      <4>2. QED
        BY <2>3, <4>1 DEF ReviewHolds
    <3>3. QED
      BY <3>1, <3>2
  <2>7. SelectionHolds'
    BY <2>2, <2>4, <2>5, <2>6 DEF SelectionHolds
  <2>8. ReviewHolds'
    BY <2>2, <2>3, <2>4 DEF ReviewHolds
  <2>9. QED
    BY <2>7, <2>8 DEF ReviewInv
<1>4. CASE UNCHANGED <<plan, state, review, selected>>
  <2>1. Typed' = Typed /\ Quantities' = Quantities
    BY <1>4 DEF Typed, Quantities
  <2>2. (ReviewHolds' <=> ReviewHolds) /\ (SelectionHolds' <=> SelectionHolds)
    BY <1>4, <2>1 DEF ReviewHolds, SelectionHolds
  <2>3. QED
    BY <1>4, <2>2 DEF Known, ReviewInv
<1>5. CASE state' \in {"attribute_review", "confirmed"}
  <2>1. ASSUME NEW rows PROVE ~ Build(rows)
    BY <1>5 DEF Build, Planned, Refuse, Fail
  <2>2. ~ Prepare /\ ~ ExtractFails /\ ~ Ask /\ ~ ApproveAndFetch /\ ~ FetchFails
    BY <1>5, <2>1 DEF Prepare, ExtractFails, Ask, ApproveAndFetch, FetchFails, Refuse, Fail
  <2>3. ASSUME NEW rows PROVE ~ Extract(rows)
    BY <1>5, <2>1 DEF Extract, Refuse, Fail
  <2>4. ASSUME NEW reply PROVE ~ Answer(reply)
    BY <1>5 DEF Answer, Planned, Refuse, Fail
  <2>5. ASSUME NEW rows PROVE ~ Keep(rows)
    BY <1>5 DEF Keep, Fail
  <2>6. ~ Rank /\ ~ CompleteImageFree /\ ~ Save /\ ~ RankTyped
    BY <1>5, <2>5 DEF Rank, CompleteImageFree, Save, RankTyped, Fail
  <2>7. ASSUME NEW fetched PROVE ~ CompleteWithImages(fetched) /\ ~ RankProvisional(fetched)
    BY <1>5, <2>5 DEF CompleteWithImages, RankProvisional, Fail
  <2>8. ASSUME NEW playwright PROVE ~ Reopen(playwright)
    BY <1>5 DEF Reopen
  <2>9. (Expire \/ \E e \in Entries[plan.offer] : Deliver(e))
           => UNCHANGED <<plan, state, review, selected>>
    BY DEF Expire, Deliver
  <2>10. FetchReturns => state' = "attribute_review"
    BY <1>5 DEF FetchReturns, Fail
  <2>11. UNCHANGED vars => UNCHANGED <<plan, state, review, selected>>
    BY DEF vars
  <2>12. QED
    BY <1>2, <1>3, <1>4, <2>2, <2>3, <2>4, <2>6, <2>7, <2>8, <2>9, <2>10, <2>11 DEF Next
<1>6. QED
  BY <1>1, <1>5

\* All of it holds before the search,
LEMMA KnownStarts == Init => Known
<1>1. SUFFICES ASSUME Init PROVE ReviewInv /\ RankInv /\ HistoryAccepts
  BY PlanStarts, BatchStarts, ConditionsStart DEF Known
<1>2. state = "preparing" /\ ranked = <<>> /\ failure = "none"
  BY <1>1 DEF Init
<1>3. RankInv
  BY <1>2 DEF RankInv
<1>4. ReviewInv /\ HistoryAccepts
  BY <1>2 DEF ReviewInv, HistoryAccepts
<1>5. QED
  BY <1>3, <1>4

\* and always.
LEMMA KnownAlways == Spec => []Known
<1>1. Known /\ [Next]_vars => Known'
  BY PlanStep, BatchStep, ConditionsStep, ReviewStep, KnownStep DEF Known
<1>2. QED
  BY <1>1, KnownStarts, PTL DEF Spec

\* Everything the provider delivered is ranked once or rejected with a reason;
\* a row says "confirmed" only of a product that shows it for every condition,
\* and on the typed routes no other product stands before a confirmed one
\* (normalize_outscraper_products, adjudicate_requirement,
\* typed_product_sort_key).
THEOREM RankingTheorem == Spec => []RankedFromEvidence
<1>1. Known => RankedFromEvidence
  BY RankInvFollows DEF Known
<1>2. QED
  BY <1>1, KnownAlways, PTL

\* A ranking the program made is never refused by its own contracts: the
\* labels read again from the review and what was confirmed in it are those the
\* rows were scored under (LabelsAgree).  What stops a search after the
\* retrieval was paid is one of the four things the property names
\* (validate_text_scoring, _requirements, validate_ranking_metadata,
\* validate_counts).
THEOREM HistoryTheorem == Spec => []HistoryAccepts
<1>1. Known => HistoryAccepts
  BY DEF Known
<1>2. QED
  BY <1>1, KnownAlways, PTL

=============================================================================
