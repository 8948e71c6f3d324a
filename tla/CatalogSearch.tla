----------------------------- MODULE CatalogSearch -----------------------------
(***************************************************************************)
(* What the two halves of the gift search select (app/search): the filters *)
(* made from what the customer wants, the SQL half's products and gift     *)
(* boxes, the points the vector store returns, and how the hits are merged *)
(* and counted.  Names, texts, scores and the order of the hits are left   *)
(* out; a hit is [kind, id, source, similar], similar when its score       *)
(* reaches search_min_similarity.                                          *)
(*                                                                         *)
(* slots are [budget_per_recipient, total_budget, recipient_count,         *)
(* theme_preferences, branding_needed]; rows and points are functions from *)
(* ids, None where there is nothing.                                       *)
(***************************************************************************)
EXTENDS Integers, FiniteSets, FiniteSetsExt

CONSTANTS
    Categories,
    ParentOf,       \* category |-> its parent_id, None at the top
    KeywordIndex,   \* keyword |-> the category whose slug or name has it
    Customizable,   \* products with is_customizable
    MinOrder,       \* product |-> min_order_quantity or None
    TopK,           \* search_top_k_semantic
    SqlLimit,       \* search_top_k_sql
    BoxLimit,       \* the limit of get_gift_boxes_in_budget
    MinResults,     \* search_min_catalog_results
    None

Truthy(x) == x # None /\ x # 0

\* A budget is amount / per.  build_filters_from_slots takes 0 for a budget.
PerRecipientBudget(slots) ==
    IF slots.budget_per_recipient # None
    THEN [amount |-> slots.budget_per_recipient, per |-> 1]
    ELSE IF slots.total_budget # None /\ Truthy(slots.recipient_count)
    THEN [amount |-> slots.total_budget, per |-> slots.recipient_count]
    ELSE None

\* The semantic half takes 0 for no budget.
SemanticBudget(slots) ==
    IF Truthy(slots.budget_per_recipient)
    THEN [amount |-> slots.budget_per_recipient, per |-> 1]
    ELSE IF Truthy(slots.total_budget) /\ Truthy(slots.recipient_count)
    THEN [amount |-> slots.total_budget, per |-> slots.recipient_count]
    ELSE None

\* From search_budget_band_low = 0.6 to search_budget_band_high = 1.15 of it.
InBand(price, budget) ==
    budget = None
    \/ /\ price # None
       /\ 60 * budget.amount <= 100 * budget.per * price
       /\ 100 * budget.per * price <= 115 * budget.amount

\* max_price_ceiling: 1.3 times the upper end.
UnderCeiling(price, budget) ==
    price # None /\ 1000 * budget.per * price <= 1495 * budget.amount

\* _resolve_category_ids: the categories and everything below them, also when
\* parents form a circle.
Subtree(roots) ==
    LET Below[n \in 0..Cardinality(Categories)] ==
            IF n = 0 THEN roots
            ELSE Below[n - 1] \cup {c \in Categories : ParentOf[c] \in Below[n - 1]}
    IN Below[Cardinality(Categories)]

ThemeCategories(slots) == {KeywordIndex[k] : k \in slots.theme_preferences \cap DOMAIN KeywordIndex}

\* LIMIT n without an ORDER BY.
Cut(S, n) == {T \in SUBSET S : Cardinality(T) = IF Cardinality(S) < n THEN Cardinality(S) ELSE n}

\* The filters but the price: branding only from customisable products, no
\* minimum above the number of recipients, the themes' categories.
Suits(p, row, slots) ==
    /\ slots.branding_needed = TRUE => p \in Customizable
    /\ slots.recipient_count # None => MinOrder[p] = None \/ MinOrder[p] <= slots.recipient_count
    /\ ThemeCategories(slots) # {} => row.category_id \in Subtree(ThemeCategories(slots))

\* Products on sale, in the price band.
StructuredProducts(rows, products, slots) ==
    {p \in products :
        /\ rows[p] # None /\ rows[p].status = "active"
        /\ InBand(rows[p].base_price, PerRecipientBudget(slots))
        /\ Suits(p, rows[p], slots)}

StructuredBoxes(rows, boxes, slots) ==
    {b \in boxes : rows[b] # None /\ InBand(rows[b].selling_price, PerRecipientBudget(slots))}

\* Mutant of SemanticPoints: the filter asks only for the price.
SemanticPointsOfAnyStatus(points, products, slots) ==
    {p \in products :
        /\ points[p] # None
        /\ SemanticBudget(slots) # None => UnderCeiling(points[p].base_price, SemanticBudget(slots))}

\* Points and their payloads; the filter is set only with a budget.
SemanticPoints(points, products, slots) ==
    {p \in products :
        /\ points[p] # None
        /\ SemanticBudget(slots) # None =>
             points[p].status = "active" /\ UnderCeiling(points[p].base_price, SemanticBudget(slots))}

\* get_by_ids asks for nothing but the id.
Hydrated(rows, found) == {p \in found : rows[p] # None}
-----------------------------------------------------------------------------
Hit(kind, id, source, similar) == [kind |-> kind, id |-> id, source |-> source, similar |-> similar]

\* _merge_and_dedupe.
Merge(sqlHits, semantic, similar) ==
    {Hit(h.kind, h.id, IF h.kind = "product" /\ h.id \in semantic THEN "both" ELSE "sql_filter",
         h.kind = "product" /\ h.id \in similar) : h \in sqlHits}
    \cup {Hit("product", p, "semantic", p \in similar) :
             p \in {q \in semantic : \A h \in sqlHits : h.id # q \/ h.kind # "product"}}

StrongHits(merged) == {h \in merged : h.source \in {"sql_filter", "both"} \/ h.similar}

UsesWebFallback(merged) == Cardinality(StrongHits(merged)) < MinResults
=============================================================================
