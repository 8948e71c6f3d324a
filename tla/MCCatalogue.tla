------------------------------ MODULE MCCatalogue ------------------------------
(***************************************************************************)
(* Two requests of staff, one search and the job on two products, a box    *)
(* and its two items: edits of items and of the box's line that overlap;   *)
(* products withdrawn, put on sale and deleted under the job and the       *)
(* search; requests that are refused, and lists.                           *)
(***************************************************************************)
EXTENDS Catalogue

CONSTANTS p1, p2, p3, b1, b2, i1, i2, r1, r2

Theme == "eco"
TheCategories == {"gifts", "green"}
TheParents == [c \in TheCategories |-> IF c = "green" THEN "gifts" ELSE None]
TheIndex == [k \in {Theme} |-> "gifts"]
TheMinOrder == [p \in {p1, p2, p3} |-> IF p = p2 THEN 3 ELSE None]

TheRows ==
    (p1 :> ProductRow("draft", 100, "green")) @@ (p2 :> ProductRow("active", 100, None))
    @@ (p3 :> None) @@ (b1 :> BoxRow(100, Blank)) @@ (b2 :> None)
    @@ (i1 :> ItemRow(b1, p2)) @@ (i2 :> None)

Slots(per, total, count, themes, branding) ==
    [budget_per_recipient |-> per, total_budget |-> total, recipient_count |-> count,
     theme_preferences |-> themes, branding_needed |-> branding]
Sales == [profile |-> "active", groups |-> {"sales"}]
Ask(op, table, key, values) ==
    [op |-> op, table |-> table, key |-> key, values |-> values, claims |-> Sales]
By(claims, q) == [q EXCEPT !.claims = claims]
Listing(filters, sort, ascending, page) ==
    Ask("list", "products", None, [filters |-> filters, sort |-> sort, ascending |-> ascending,
                                   page |-> page, size |-> 1])

Both(q, q2) == (r1 :> q) @@ (r2 :> q2)
AddItem   == Ask("create", "gift_box_items", i2, [gift_box_id |-> b1, product_id |-> p1])
MoveItem  == Ask("update", "gift_box_items", i1, [gift_box_id |-> b2])
SwapItem  == Ask("update", "gift_box_items", i1, [product_id |-> p1])
TakeOut   == Ask("update", "gift_box_items", i1, [gift_box_id |-> None])
DropItem  == Ask("delete", "gift_box_items", i1, <<>>)
TypeLine  == Ask("update", "gift_boxes", b1, [contents_line |-> Line("staff", {})])
KeepPrice == Ask("update", "gift_boxes", b1, [selling_price |-> 100])
RaisePrice == Ask("update", "gift_boxes", b1, [selling_price |-> 120])
AddBox    == Ask("create", "gift_boxes", b2, [selling_price |-> 100])
DropBox   == Ask("delete", "gift_boxes", b1, <<>>)
Activate  == Ask("update", "products", p1, [status |-> "active"])
Embed     == Ask("update", "products", p1, [status |-> "ACTIVE"])
Withdraw  == Ask("update", "products", p2, [status |-> "draft"])
Promote   == Ask("update", "products", p2, [status |-> "ACTIVE"])
AddProduct == Ask("create", "products", p3, [status |-> "ACTIVE", base_price |-> 100])
DropProduct == Ask("delete", "products", p1, <<>>)

OnBoxes ==
    {Both(AddItem, TypeLine), Both(AddItem, DropItem), Both(SwapItem, RaisePrice), Both(AddBox, MoveItem),
     Both(TakeOut, TypeLine),
     Both(DropItem, DropBox), Both(KeepPrice, RaisePrice), Both(DropProduct, AddItem)}
OnProducts == {Both(Embed, Activate), Both(Embed, Promote), Both(Embed, DropProduct), Both(Withdraw, AddProduct)}
Refused ==
    {By([profile |-> "inactive", groups |-> {"sales"}], Withdraw),
     By([profile |-> "active", groups |-> {}], Withdraw),
     Ask("create", "users", None, <<>>), Ask("delete", "product_embeddings", p1, <<>>),
     Ask("create", "products", p3, [base_price |-> 50]), Ask("update", "products", p1, [id |-> 7]),
     Ask("update", "products", p1, <<>>), Ask("delete", "gift_boxes", b2, <<>>)}
Lists ==
    {Listing([status |-> {"active"}], "base_price", TRUE, 0), Listing(<<>>, "base_price", FALSE, 1),
     Listing([status |-> {"active", "draft"}], "base_price", TRUE, 0),
     Listing([base_price |-> 50..100], "base_price", TRUE, 0), Listing(<<>>, "category_id", TRUE, 0),
     Ask("related", "products", None, [filters |-> [status |-> {"active"}], sort |-> "base_price",
                                       ascending |-> TRUE, size |-> 2]),
     Ask("related", "gift_box_items", None, [filters |-> [product_id |-> {p2}], sort |-> "gift_box_id",
                                             ascending |-> TRUE, size |-> 2]),
     Ask("related", "gift_box_items", None, [filters |-> [gift_box_id |-> {b1}], sort |-> "gift_box_id",
                                             ascending |-> TRUE, size |-> 2]),
     Ask("lookup", "products", None, [sort |-> "base_price"]), Ask("lookup", "products", None, [sort |-> "sku"]),
     Ask("detail", "products", p1, <<>>), Ask("detail", "gift_boxes", b2, <<>>)}

TheTasks == OnBoxes \cup OnProducts \cup {Both(q, Activate) : q \in Refused \cup Lists}

PerPerson == Slots(100, None, None, {}, None)
InAll     == Slots(None, 200, 2, {Theme}, TRUE)
NoBudget  == Slots(None, None, 2, {}, None)

\* Searches only while products change.
TheNeeds ==
    [t \in TheTasks |->
        CASE t \notin OnProducts          -> {None}
          [] t = Both(Embed, Activate)    -> {InAll, NoBudget}
          [] t = Both(Embed, Promote)     -> {PerPerson}
          [] t = Both(Embed, DropProduct) -> {NoBudget}
          [] OTHER                        -> {PerPerson}]
=============================================================================
