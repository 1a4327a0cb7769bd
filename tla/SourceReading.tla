---------------------------- MODULE SourceReading ----------------------------
(***************************************************************************)
(* How the program reads the user's sentence without a model               *)
(* (condition_language.py, source_constraints.py, candidate_queries.py and *)
(* the clause scope of bonsai_visual_conditions.py).                       *)
(*                                                                         *)
(* A source is a sequence of clauses, records                              *)
(*   kind      "product" (a noun alone), "look" (an adjective), "deed" (it *)
(*             has a verb), "quantity", "price", "capability" or "common"  *)
(*             (a word the registry knows, such as a colour)               *)
(*   about     the name in front: the label of a quantity (NoName when it  *)
(*             has none, Obscure when it is not a plain noun), the         *)
(*             capability, the attribute of the registry; for a price      *)
(*             "least", "most", "range" or "bare" (no relation)            *)
(*   accepted  the values that satisfy it                                  *)
(*   word      which of several spellings of the same it uses              *)
(*   prefix    a subset of {"preferred", "required"}: words in front       *)
(*   suffix    "none", "preferred", "required", "avoided" (both readers    *)
(*             know the word), "unwanted" (the older one only sees that it *)
(*             does not know it), "without" (the older one overlooks it)   *)
(*             or "permitted"                                              *)
(*   form      "plain", "twisted" (a doubled negation), "choice" (or) or,  *)
(*             of a quantity, "strict" (a bound that is not included)      *)
(***************************************************************************)
EXTENDS Integers, Sequences, FiniteSets

CONSTANTS
    MaxClauses,        \* 24 in analyze_conditions
    MaxFacts,          \* _MAX_CONDITIONS
    MaxVisual,         \* MAX_VISUAL_CONDITIONS
    Obscure,           \* a name with particles or predicates in it
    Reserved,          \* labels of the registry a quantity may not use
    Width,             \* the one it may: dimensions.width, in millimetres
    Hidden             \* attributes with visual_prompt_allowed = False

NoName == "none"
Strengths == {"required", "preferred", "excluded"}

-----------------------------------------------------------------------------
(* condition-language-v1.                                                  *)

Avoidances == {"avoided", "unwanted", "without"}
Prefers(c) == "preferred" \in c.prefix \/ c.suffix = "preferred"
Demands(c) == "required" \in c.prefix \/ c.suffix = "required"

(* interpret_clause: permission, then exclusion, then the rest. *)
Strength(c) ==
    CASE c.suffix = "permitted" -> "neutral"
      [] c.suffix \in Avoidances -> "excluded"
      [] OTHER -> IF Prefers(c) THEN "preferred" ELSE "required"

Interpretable(c) ==
    /\ c.form # "twisted"
    /\ Demands(c) => ~ Prefers(c) /\ c.suffix \notin Avoidances \cup {"permitted"}

Explicit(c) == c.prefix = {} /\ c.suffix = "none"
Target(c) == <<c.kind, c.about, c.accepted, c.word>>

(* analyze_conditions *)
Analyzable(source) ==
    /\ \A i \in DOMAIN source : Interpretable(source[i])
    /\ Len(source) <= MaxClauses
    /\ \A i, j \in DOMAIN source :
         Target(source[i]) = Target(source[j]) => Strength(source[i]) = Strength(source[j])

Neutral(source) == {i \in DOMAIN source : Strength(source[i]) = "neutral"}
Prices(source) == {i \in DOMAIN source \ Neutral(source) : source[i].kind = "price"}

-----------------------------------------------------------------------------
(* Facts: the conditions a clause states in so many words.                 *)

Fact(i, kind, label, accepted, strength) ==
    [at |-> i, kind |-> kind, label |-> label, accepted |-> accepted, strength |-> strength]

NoBool == 2
YesBool == 1

(* What one clause says once its modifiers are read; with a second half,   *)
(* or a name that cannot be told from a sentence, it is uncertain.         *)
UncertainClause(c) ==
    \/ c.form = "choice"
    \/ /\ c.kind = "quantity" /\ c.form # "strict"
       /\ c.about \in {Obscure} \cup Reserved
ReadClause(source, i, strength) ==
    LET c == source[i]
    IN CASE c.kind = "quantity" /\ c.form # "strict" ->
              {Fact(i, IF c.about = Width THEN "common" ELSE "quantity",
                    c.about, c.accepted, strength)}
         [] c.kind \in {"capability", "common"} -> {Fact(i, c.kind, c.about, c.accepted, strength)}
         [] OTHER -> {}

SameQuote(source, facts) ==
    \E f, g \in facts : f.at # g.at /\ source[f.at] = source[g.at]

(* _source_facts(natural=True), over the clauses of a part of the source.  *)
NaturalFacts(source, part) ==
    LET heard == part \ Neutral(source)
        certain(i) == ~ UncertainClause(source[i])
        named(i) == /\ source[i].kind \in {"product", "look"}
                    /\ source[i].suffix \in {"unwanted", "without"}
                    /\ source[i].about # Obscure
    IN (UNION {IF certain(i) THEN ReadClause(source, i, Strength(source[i])) ELSE {} : i \in heard})
         \cup {Fact(i, "capability", source[i].about, {YesBool}, "excluded")
                 : i \in {j \in heard : named(j)}}

(* ... raises when two required clauses say that a capability must and     *)
(* must not be there.                                                      *)
Contradictory(facts) ==
    \E f, g \in facts :
        /\ f.kind = "capability" /\ g.kind = "capability" /\ f.label = g.label
        /\ f.strength = "required" /\ g.strength = "required" /\ f.accepted # g.accepted

NaturalUncertain(source, part) ==
    LET facts == NaturalFacts(source, part)
    IN \/ \E i \in part \ Neutral(source) : UncertainClause(source[i])
       \/ Cardinality(facts) > MaxFacts
       \/ SameQuote(source, facts)

(* The older reader knows four endings and no words in front.              *)
LegacyStrength(c) ==
    CASE c.suffix = "preferred" -> "preferred"
      [] c.suffix = "avoided" -> "excluded"
      [] OTHER -> "required"
LegacySuffixes == {"none", "preferred", "avoided"}
LegacyRead(c) == c.prefix = {} /\ c.suffix \in LegacySuffixes

(* _common_facts: one fact for each value, where it is said first.         *)
FirstSaid(source, i) ==
    \A j \in 1..(i - 1) : \/ source[j].kind # "common"
                          \/ source[j].about # source[i].about
                          \/ source[j].accepted # source[i].accepted

LegacyFacts(source) ==
    UNION {LET c == source[i]
           IN IF c.form = "choice" /\ c.kind # "common" THEN {}
              ELSE IF c.kind = "common"
                THEN IF FirstSaid(source, i) THEN ReadClause(source, i, LegacyStrength(c)) ELSE {}
              ELSE IF LegacyRead(c) /\ ~ UncertainClause(c)
                THEN ReadClause(source, i, LegacyStrength(c)) ELSE {}
             : i \in DOMAIN source}

(* Clauses after the first that no rule of the older reader consumed. *)
Unparsed(source) ==
    {i \in DOMAIN source \ {1} :
        LET c == source[i]
        IN \/ c.kind \in {"product", "look", "deed"} \/ c.form = "strict"
           \/ c.kind = "price" /\ (c.about = "bare" \/ c.suffix \notin LegacySuffixes)
           \/ c.kind \in {"capability", "common"} /\ ~ LegacyRead(c)}

LegacyUncertain(source) ==
    LET facts == LegacyFacts(source)
        custom == {f \in facts : f.kind # "common"}
        commons == {i \in DOMAIN source : source[i].kind = "common"}
    IN \/ \E i \in DOMAIN source : source[i].form = "choice"
       \/ \E i \in DOMAIN source :
            /\ source[i].kind = "quantity" /\ source[i].form # "strict"
            /\ UncertainClause(source[i]) \/ ~ LegacyRead(source[i])
       \/ \E i \in commons : FirstSaid(source, i) /\ source[i].suffix \in {"unwanted", "permitted"}
       \/ \E i, j \in commons :
            source[i].about = source[j].about /\ source[i].accepted # source[j].accepted
       \/ custom # {} /\ Unparsed(source) # {}
       \/ Cardinality(facts) > MaxFacts
       \/ SameQuote(source, facts)

-----------------------------------------------------------------------------
(* _explicit_source_price: one bounded amount, a range, or a lower and     *)
(* then an upper bound; anything else is no price.  The clauses in blank   *)
(* are not read.                                                           *)
NoPrice == {}
ExplicitPrice(source, blank) ==
    LET prices == {i \in DOMAIN source \ blank : source[i].kind = "price"}
        first == CHOOSE i \in prices : \A j \in prices : i <= j
        last == CHOOSE i \in prices : \A j \in prices : i >= j
    IN CASE Cardinality(prices) = 1 ->
              IF source[first].about = "bare" THEN NoPrice ELSE source[first].accepted
         [] Cardinality(prices) = 2 ->
              IF /\ source[first].about = "least" /\ source[last].about = "most"
                 /\ (first + 1)..(last - 1) \subseteq blank
                THEN source[first].accepted \cap source[last].accepted ELSE NoPrice
         [] OTHER -> NoPrice

(* _visual_clauses: what a picture may show.  Without the parser's         *)
(* structure one noun is the product, and two cannot be told apart.        *)
Pictured(source, facts, i) ==
    LET c == source[i]
    IN /\ i \notin Neutral(source) /\ c.form # "choice"
       /\ c.kind \notin {"quantity", "price"}
       /\ ~ \E f \in facts : source[f.at] = c
                 /\ (f.kind # "common" \/ f.label \in Hidden \cup {Width})
Nouns(source, facts) ==
    {i \in DOMAIN source :
        /\ Pictured(source, facts, i) /\ Explicit(source[i])
        /\ source[i].kind = "product" /\ source[i].about # Obscure}

VisualClauses(source, parsed) ==
    LET facts == NaturalFacts(source, DOMAIN source)
    IN {i \in DOMAIN source \ Nouns(source, facts) :
          /\ Pictured(source, facts, i)
          /\ parsed => source[i].kind # "deed"}
=============================================================================
