-------------------------- MODULE IntentGrounding --------------------------
(***************************************************************************)
(* What the routes with a language model make of a source: the reply of    *)
(* the model to the request of bonsai_request.py is parsed and held        *)
(* against the source (bonsai_adapter.py, source_constraints.py,           *)
(* dynamic_attributes.py) before a plan is built from it.                  *)
(*                                                                         *)
(* A reply is a record                                                     *)
(*   kind     "unreachable" (transport or status), "broken" (a body that   *)
(*            does not parse or does not fit the schema), "asks" (only     *)
(*            ambiguities), "names" (names for the quantities without      *)
(*            one) or "draft" (an intent); the rest is read for a draft    *)
(*   product  "named" (its words stand in the source), "invented" or       *)
(*            "mixed" (with the end of a sentence in it)                   *)
(*   english  does an English name stand in the source too?                *)
(*   claims   the typed conditions: facts with one more field, whole (does *)
(*            the quote hold the words about the strength too?)            *)
(*   terms    words for a material among the search terms, records         *)
(*            [accepted, strength]                                         *)
(*   price    the prices the model accepts, NoPrice for none               *)
(***************************************************************************)
EXTENDS SourceReading

CONSTANTS
    MaxWire,           \* _MAX_WIRE_TYPED_CONDITIONS
    Material           \* material.type of the registry

Claim(f, whole) ==
    [at |-> f.at, kind |-> f.kind, label |-> f.label, accepted |-> f.accepted,
     strength |-> f.strength, whole |-> whole]

(* Quantities the older reader knows but that have no name: only the names *)
(* are asked for, and with them the plan still waits for a person.         *)
NeedsNames(source) ==
    /\ ~ LegacyUncertain(source)
    /\ \E f \in LegacyFacts(source) : f.kind = "quantity" /\ f.label = NoName

(* validate_source_response: a reply may ask, but it may not change what   *)
(* the source says in so many words.                                       *)
FollowsFacts(source, reply) ==
    LET facts == LegacyFacts(source)
    IN CASE facts = {} /\ ~ LegacyUncertain(source) -> TRUE
         [] reply.kind = "asks" -> TRUE
         [] NeedsNames(source) -> reply.kind = "names"
         [] OTHER -> /\ ~ LegacyUncertain(source)
                     /\ reply.claims = {Claim(f, TRUE) : f \in facts}

-----------------------------------------------------------------------------
(* _ground_source_conditions.                                              *)

(* The strength a quote has by the words in it. *)
QuotedStrength(c, whole) ==
    CASE whole /\ c.suffix \in {"avoided", "unwanted"} -> "excluded"
      [] whole /\ Prefers(c) -> "preferred"
      [] OTHER -> "required"

QuotedTwice(source, i, whole) ==
    \E j \in DOMAIN source \ {i} :
        /\ Target(source[j]) = Target(source[i])
        /\ ~ whole \/ Explicit(source[i]) \/ source[j] = source[i]

(* custom_condition_grounded: a quantity needs its name and its bound, a   *)
(* capability only its words, and the quote may not stop before words that *)
(* turn its meaning round.  Under which name a capability is looked for is *)
(* the model's choice; other words become one under their own name.        *)
CustomGrounded(source, claim) ==
    /\ claim.at \in DOMAIN source
    /\ LET c == source[claim.at]
       IN /\ ~ QuotedTwice(source, claim.at, claim.whole)
          /\ ~ claim.whole => c.suffix \notin {"preferred", "avoided", "unwanted"}
          /\ claim.label \notin Reserved \cup {Width}
          /\ claim.strength = QuotedStrength(c, claim.whole)
          /\ CASE c.kind = "quantity" ->
                    /\ claim.kind = "quantity" /\ claim.label = c.about /\ c.form # "strict"
                    /\ claim.accepted = c.accepted /\ (claim.whole => c.prefix = {})
               [] c.kind = "capability" ->
                    claim.kind = "capability" /\ claim.accepted = c.accepted
               [] OTHER ->
                    /\ c.kind # "price" /\ claim.kind = "capability" /\ claim.label = c.about
                    /\ claim.accepted = {YesBool} /\ (claim.whole => Explicit(c))

(* A value of the registry counts wherever its word stands; its claim has  *)
(* no quote of its own and stands for one of these places.                 *)
WordOf(source, label, accepted) ==
    {i \in DOMAIN source : /\ source[i].kind = "common" /\ source[i].about = label
                           /\ source[i].accepted = accepted}
Registered(source, claim) == claim.at \in WordOf(source, claim.label, claim.accepted)

Grounded(source, claims) ==
    {k \in claims : IF k.kind = "common"
                    THEN \/ Registered(source, k)
                         \/ k.label = Width /\ \E f \in LegacyFacts(source) : Claim(f, TRUE) = k
                    ELSE CustomGrounded(source, k)}
CustomInvalid(source, claims) ==
    \E k \in claims : k.kind # "common" /\ ~ CustomGrounded(source, k)

(* _material_term_conditions: materials named in the search terms, and     *)
(* those the source says it goes without.                                  *)
Unwanted(source) ==
    {[accepted |-> source[i].accepted, strength |-> "excluded"] :
        i \in {j \in DOMAIN source :
                 /\ source[j].kind = "common" /\ source[j].about = Material
                 /\ source[j].prefix = {} /\ source[j].suffix \in Avoidances}}
MaterialTerms(source, reply) ==
    {t \in reply.terms : WordOf(source, Material, t.accepted) # {}} \cup Unwanted(source)

WithMaterials(source, reply) ==
    LET kept == Grounded(source, reply.claims)
        first(t) == CHOOSE i \in WordOf(source, Material, t.accepted) :
                        \A j \in WordOf(source, Material, t.accepted) : i <= j
        added == {Fact(first(t), "common", Material, t.accepted, t.strength) :
                    t \in {u \in MaterialTerms(source, reply) :
                             ~ \E k \in kept : /\ k.label = Material /\ k.strength = u.strength
                                               /\ k.accepted = u.accepted}}
    IN kept \cup {Claim(f, FALSE) : f \in added}

(* _missing_material, _missing_quantity *)
MissingMaterial(source, conditions) ==
    \E i \in DOMAIN source :
        /\ source[i].kind = "common" /\ source[i].about = Material
        /\ ~ \E k \in conditions : k.label = Material /\ k.accepted = source[i].accepted
MissingQuantity(source, conditions) ==
    \E i \in DOMAIN source :
        /\ source[i].kind = "quantity"
        /\ ~ \E k \in conditions : k.at = i

(* Something to search for: the product, or else words that are wanted. *)
Searchable(source, reply) ==
    \/ reply.product # "invented"
    \/ \E k \in Grounded(source, reply.claims) : k.strength # "excluded"
    \/ \E t \in reply.terms : /\ t.strength # "excluded"
                              /\ WordOf(source, Material, t.accepted) # {}

(* Does the intent wait for a person instead of becoming a plan? *)
Blocking(source, reply) ==
    LET conditions == WithMaterials(source, reply)
    IN \/ reply.kind \in {"asks", "names"}
       \/ MissingQuantity(source, conditions)
       \/ reply.product = "mixed"
       \/ CustomInvalid(source, reply.claims)
       \/ MissingMaterial(source, conditions) \/ Cardinality(conditions) > MaxWire
       \/ ~ Searchable(source, reply)

(* The conditions and the prices of a plan; a price of the source wins.    *)
IntentConditions(source, reply) ==
    {[id |-> <<k.at, k.kind, k.label, k.accepted, k.strength, k.whole>>, strength |-> k.strength,
      accepted |-> k.accepted, at |-> k.at, label |-> k.label,
      kind |-> IF k.kind = "common" THEN "common" ELSE "labelled"]
        : k \in WithMaterials(source, reply)}
IntentPrice(source, reply) ==
    IF ExplicitPrice(source, {}) # NoPrice THEN ExplicitPrice(source, {}) ELSE reply.price
=============================================================================
