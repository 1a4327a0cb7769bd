--------------------------- MODULE MCProductSearch ---------------------------
EXTENDS ProductSearch

Clause(kind, about, accepted) ==
    [kind |-> kind, about |-> about, accepted |-> accepted, word |-> 1,
     prefix |-> {}, suffix |-> "none", form |-> "plain"]
Ending(c, suffix) == [c EXCEPT !.suffix = suffix]
Starting(c, prefix) == [c EXCEPT !.prefix = {prefix}]
Formed(c, form) == [c EXCEPT !.form = form]

Thing == Clause("product", "kettle", {})
Height == Clause("quantity", "height", {1, 2})
LessHeight == Clause("quantity", "height", {1})
Anything == Clause("quantity", NoName, {3})
Color == Clause("common", "color", {1})
Wood == Clause("common", "material", {1})
Price == Clause("price", "most", {100})
Shape == Clause("look", "round", {})
Surface == Clause("look", "matte", {})
Proof == Clause("capability", "proof", {YesBool})
Deed == Clause("deed", "pours", {})

Request(route, source) ==
    [route |-> route, source |-> source, queries |-> 1, images |-> "off", parsed |-> FALSE,
     extractor |-> FALSE, allowEmpty |-> FALSE, bilingual |-> FALSE, lifetime |-> FALSE,
     looks |-> {}, close |-> {}, replies |-> {}, offer |-> "few"]

(* Sentences that lead to a search without a language model. *)
Text(source) == Request("candidate", source)
Pictured3(source) == [Text(source) EXCEPT !.images = "on", !.extractor = TRUE]
MCCandidates ==
    {[Text(<<Thing, Height, Ending(Anything, "avoided"), Ending(Price, "preferred")>>)
         EXCEPT !.lifetime = TRUE, !.offer = "all"],
     [Pictured3(<<Thing, Height, Color, Shape>>)
         EXCEPT !.bilingual = TRUE, !.close = {4}, !.offer = "all"],
     [Text(<<Starting(Shape, "preferred"), Thing, Ending(Color, "without")>>)
         EXCEPT !.bilingual = TRUE],
     Text(<<Height, LessHeight, Thing>>),
     [Text(<<Thing, Proof, Deed>>) EXCEPT !.parsed = TRUE, !.images = "on"],
     [Text(<<Thing, Ending(Surface, "unwanted"), Ending(Shape, "permitted")>>)
         EXCEPT !.parsed = TRUE]}

(* Sentences that are refused before anything is paid. *)
MCRefused ==
    {Text(<<Thing, Formed(Height, "twisted")>>),
     Text(<<Thing, Proof, Ending(Proof, "avoided")>>),
     Text(<<Thing, Proof, [Proof EXCEPT !.accepted = {NoBool}, !.word = 2]>>),
     Text(<<Thing, Clause("product", "pot", {})>>),
     Text(<<Shape, Surface, Ending(Color, "preferred"), Starting(Wood, "required")>>),
     [Pictured3(<<Thing, Ending(Color, "permitted")>>) EXCEPT !.parsed = TRUE],
     [Text(<<Thing, Deed>>) EXCEPT !.parsed = TRUE, !.images = "on"],
     Text(<<Thing, Starting(Height, "preferred")>>),
     Text(<<Thing, Formed(Height, "choice")>>)}

-----------------------------------------------------------------------------
(* Replies of the language model. *)
Reply(kind, claims) ==
    [kind |-> kind, product |-> "named", english |-> FALSE, claims |-> claims,
     terms |-> {}, price |-> NoPrice]
Failing == {Reply("unreachable", {}), Reply("broken", {}), Reply("asks", {})}
Faithful(source) == Reply("draft", {Claim(f, TRUE) : f \in LegacyFacts(source)})
Unfaithful(source) ==
    {[Faithful(source) EXCEPT !.claims = {}]}
      \cup {[Faithful(source) EXCEPT !.claims =
                {[k EXCEPT !.strength = "preferred"] : k \in Faithful(source).claims}]}
Free(at, label, strength, whole) ==
    Claim(Fact(at, "capability", label, {YesBool}, strength), whole)

Typed1(route, source, replies) ==
    [Request(route, source) EXCEPT !.replies = Failing \cup Unfaithful(source) \cup replies]
MCTyped ==
    {[Typed1("pipeline", <<Thing, Height, Color, Price>>,
             {[Faithful(<<Thing, Height, Color>>) EXCEPT !.english = TRUE, !.price = {200}],
              Reply("names", {})}) EXCEPT !.offer = "all"],
     Typed1("pipeline", <<Thing, Starting(Proof, "preferred")>>,
            {Reply("draft", {Free(2, "proof", "preferred", TRUE)}),
             Reply("draft", {Free(2, "height", "required", FALSE)}),
             Reply("draft", {Free(2, "proof", "excluded", TRUE)}),
             Reply("draft", {Free(1, "kettle", "required", FALSE)}),
             [Reply("draft", {}) EXCEPT !.product = "invented"],
             [Reply("draft", {}) EXCEPT !.price = {200}]}),
     Typed1("pipeline", <<Thing, Ending(Wood, "preferred")>>,
            {Faithful(<<Thing, Ending(Wood, "preferred")>>),
             [Faithful(<<Thing, Ending(Wood, "preferred")>>)
                 EXCEPT !.terms = {[accepted |-> {1}, strength |-> "required"]}]}),
     Typed1("pipeline", <<Thing, Formed(Height, "strict")>>, {Reply("draft", {})}),
     Typed1("pipeline", <<Thing, Anything>>, {Reply("names", {})}),
     [Typed1("provisional", <<Thing, Color>>, {Faithful(<<Thing, Color>>)})
         EXCEPT !.looks = {VisualRequirement([at |-> 3, strength |-> "required"])}, !.offer = "all"],
     [Typed1("provisional", <<Thing, Height>>,
             {Faithful(<<Thing, Height>>), [Faithful(<<Thing, Height>>) EXCEPT !.english = TRUE]})
         EXCEPT !.looks = {VisualRequirement([at |-> i, strength |-> "preferred"]) : i \in 3..4},
                !.close = {3}]}

(* Prices: bounds that make a range, and the ways in which they get lost. *)
Least == Clause("price", "least", {100, 200})
Bare == Clause("price", "bare", {100})
Span == Clause("price", "range", {100, 200})
MCPriced ==
    {[request EXCEPT !.offer = "one"] : request \in
        {Text(<<Thing, Height, Least, Price>>),
         Text(<<Thing, Least, Ending(Bare, "permitted"), Price>>),
         Text(<<Thing, Ending(Span, "avoided")>>),
         Text(<<Thing, Ending(Span, "preferred"), Price>>),
         Text(<<Thing, Height, Bare>>),
         Text(<<Thing, Price, Bare>>),
         Text(<<Thing, [Least EXCEPT !.accepted = {200}], Price>>),
         Text(<<Thing, Price, [Price EXCEPT !.accepted = {100, 50}]>>),
         Text(<<Thing, Least, Bare, Price>>),
         Typed1("pipeline", <<Thing, Least, Price>>, {[Reply("draft", {}) EXCEPT !.price = {50}]}),
         Typed1("pipeline", <<Thing, Bare>>, {[Reply("draft", {}) EXCEPT !.price = {50}]})}}

MCRequests == MCCandidates \cup MCPriced \cup MCRefused \cup MCTyped

-----------------------------------------------------------------------------
(* What the provider delivers. *)
Shows(label, source, value) == [label |-> label, source |-> source, value |-> value]
Texts(n) == [i \in 1..4 |-> n]
Entry == [object |-> TRUE, place |-> "first", query |-> 0, title |-> "plain", titleEn |-> "none",
          asin |-> 0, url |-> 0, currency |-> "JPY", price |-> 100, facts |-> {}, told |-> Texts(1),
          head |-> Texts(0), cut |-> FALSE, english |-> FALSE, en |-> Texts(0), name |-> 1,
          nameEn |-> 0, rating |-> 0, reviews |-> FALSE, negatives |-> 0, image |-> TRUE]
MCFew ==
    {[Entry EXCEPT !.asin = 1, !.url = 1, !.english = TRUE, !.en = Texts(2),
                   !.facts = {Shows("height", 1, 1), Shows("color", 1, 1), Shows("proof", 1, 1),
                              Shows("material", 1, 2)}],
     [Entry EXCEPT !.asin = 1, !.url = 2, !.place = "next",
                   !.facts = {Shows("height", 3, 3), Shows("color", 2, 1), Shows("proof", 1, 2)}],
     [Entry EXCEPT !.url = 1, !.place = "bare", !.rating = 5, !.reviews = TRUE, !.image = FALSE,
                   !.facts = {Shows("height", 1, Unreadable), Shows("height", 1, 2),
                              Shows("color", 2, 2), Shows("material", 1, 1)}]}
MCAll == MCFew \cup
    {[Entry EXCEPT !.url = 2, !.cut = TRUE, !.name = 2, !.currency = "USD", !.price = 2,
                   !.facts = {Shows("height", 1, 1), Shows("height", 1, 3), Shows("color", 1, 1)}],
     [Entry EXCEPT !.query = 2, !.place = "next", !.told = Texts(Denies),
                   !.facts = {Shows("height", 2, 1), Shows("height", 3, 3),
                              Shows("color", 1, 1), Shows("color", 1, 2)}],
     [Entry EXCEPT !.asin = 2, !.head = Texts(2), !.negatives = 3, !.currency = "none",
                   !.titleEn = "cut",
                   !.facts = {Shows("color", 1, v) : v \in 1..3} \cup {Shows("height", 1, Unreadable)}],
     [Entry EXCEPT !.asin = 2, !.currency = "bad"],
     [Entry EXCEPT !.title = "cut", !.asin = 3, !.place = "next"],
     [Entry EXCEPT !.object = FALSE, !.place = "bare"]}
MCEntries == [one |-> {Entry}, few |-> MCFew, all |-> MCAll]

MCMargin == [p \in {1, 2, 3} |->
    [i \in 1..4 |-> CASE p = 1 -> 2 [] p = 2 -> (IF i = 3 THEN -2 ELSE 2) [] OTHER -> 0]]
MCTextFit == [p \in {1, 2, 3} |-> p]
=============================================================================
