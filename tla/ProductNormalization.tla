------------------------ MODULE ProductNormalization ------------------------
(***************************************************************************)
(* normalize_outscraper_products (src/search_v2/product_normalization.py): *)
(* the products and rejections made from one provider response.            *)
(*                                                                         *)
(* An entry of the response is a record of what the code reads from it:    *)
(*   object    is it a JSON object?                                        *)
(*   place     where it stands: "bare" is an element of data on its own,   *)
(*             "first" opens a group of data, "next" continues one         *)
(*   query     the query it names, 0 for none                              *)
(*   title     "none", "plain" or "cut": cut after MAX_PRODUCT_TITLE       *)
(*             characters so that it ends with a space                     *)
(*   titleEn   the same for the English title, which may be missing        *)
(*   asin, url the values that identify it, 0 when missing or malformed    *)
(*   currency  "none", "JPY", "USD", or "bad" for another or mixed ones    *)
(*   price     in that currency, 0 when missing, malformed or not positive *)
(* Empty groups, other attributes and the bytes of texts are left out.     *)
(***************************************************************************)
EXTENDS Integers, Sequences, FiniteSets, SequencesExt

CONSTANTS
    MaxCandidates,     \* maximum_candidates of the request
    UsdRate            \* usd_to_jpy_rate of the profile

ASSUME NormalizationAssumption ==
    MaxCandidates \in Nat \ {0} /\ UsdRate \in Nat \ {0}

Accepted == "accepted"
NoIndex == 0

(* The index of the group an entry of the response stands in. *)
SuggestedQuery(response, i) ==
    IF response[i].place = "bare" THEN 0
    ELSE Cardinality({j \in 1..i : response[j].place # "next"})

(* Which approved query the entry answers, or why that is not known. *)
QueryReason(queries, response, i) ==
    LET named == response[i].query
        suggested == SuggestedQuery(response, i)
    IN IF named # 0
         THEN IF named > queries \/ suggested \notin {0, named}
              THEN "unapproved_query" ELSE Accepted
       ELSE IF suggested > queries THEN "unapproved_query"
       ELSE IF suggested = 0 /\ queries # 1 THEN "unknown_query_provenance"
       ELSE Accepted

(* Why the entry is no product on its own account, in the code's order. *)
CandidateReason(queries, response, i) ==
    LET e == response[i]
        query == QueryReason(queries, response, i)
    IN IF ~ e.object THEN "not_an_object"
       ELSE IF query # Accepted THEN query
       ELSE IF e.title = "none" THEN "missing_title"
       ELSE IF e.currency = "bad" THEN "unsupported_currency"
       ELSE Accepted

(* price_jpy of a product: an amount without a currency is not used. *)
PriceJpy(e) ==
    CASE e.currency = "JPY" -> e.price
      [] e.currency = "USD" -> e.price * UsdRate
      [] OTHER -> 0

Rejection(i, reason, of) == [index |-> i, reason |-> reason, of |-> of]

EmptyBatch == [products |-> <<>>, rejections |-> {}, asins |-> {}, urls |-> {}]

(* seen_asins and seen_urls are sets of pairs of a value and an index. *)
Seen(pairs, value) == \E p \in pairs : p[1] = value
SeenAt(pairs, value) == (CHOOSE p \in pairs : p[1] = value)[2]

Rejected(acc, i, reason, of) ==
    [acc EXCEPT !.rejections = @ \cup {Rejection(i, reason, of)}]

\* mutant: an entry is retained without its URL being remembered when it has an ASIN
RetainedForgetsUrl(acc, i, e) ==
    [acc EXCEPT !.products = Append(@, i),
                !.asins = IF e.asin = 0 THEN @ ELSE @ \cup {<<e.asin, i>>},
                !.urls = IF e.url = 0 \/ e.asin # 0 \/ Seen(@, e.url) THEN @
                         ELSE @ \cup {<<e.url, i>>}]

(* seen_urls.setdefault: the first product with the URL stays the one that *)
(* later duplicates are reported against.                                  *)
Retained(acc, i, e) ==
    [acc EXCEPT !.products = Append(@, i),
                !.asins = IF e.asin = 0 THEN @ ELSE @ \cup {<<e.asin, i>>},
                !.urls = IF e.url = 0 \/ Seen(@, e.url) THEN @
                         ELSE @ \cup {<<e.url, i>>}]

(* One turn of the loop over the entries. *)
Normalized(queries, response, acc, i) ==
    LET e == response[i]
        reason == CandidateReason(queries, response, i)
    IN IF reason # Accepted THEN Rejected(acc, i, reason, NoIndex)
       ELSE IF e.asin # 0 /\ Seen(acc.asins, e.asin)
         THEN Rejected(acc, i, "duplicate_asin", SeenAt(acc.asins, e.asin))
       ELSE IF e.asin = 0 /\ e.url # 0 /\ Seen(acc.urls, e.url)
         THEN Rejected(acc, i, "duplicate_product_url", SeenAt(acc.urls, e.url))
       ELSE Retained(acc, i, e)

(* More entries than were approved make the whole response invalid. *)
TooMany(response) == Len(response) > MaxCandidates

Normalize(queries, response) ==
    LET Turn(acc, i) == Normalized(queries, response, acc, i)
        batch == FoldLeft(Turn, EmptyBatch, [i \in 1..Len(response) |-> i])
    IN [products |-> batch.products, rejections |-> batch.rejections]
=============================================================================
