------------------------------- MODULE MCAgent -------------------------------
(* Small instances of AgentTurn.                                           *)
EXTENDS AgentTurn, TLC

Heard(occasion, count, per, total) ==
    [occasion |-> occasion, recipient_count |-> count, budget_per_recipient |-> per,
     total_budget |-> total, extras |-> {}]

\* Nothing, an occasion, a lump sum for three people, a budget per head for
\* nobody yet, and an answer that contradicts the others.
SmallExtractions ==
    {EmptySlots, Heard("diwali", None, None, None), Heard(None, 3, None, 100000),
     Heard("diwali", 0, 50000, None), Heard("onboarding", 2, 70000, None)}

SmallRefinements ==
    {[adjustment |-> "cheaper", value |-> None], [adjustment |-> "cheaper", value |-> 20000],
     [adjustment |-> "pricier", value |-> None],
     [adjustment |-> "more_recipients", value |-> 5], [adjustment |-> "other", value |-> None]}

Product(id)    == [kind |-> "product", ref_id |-> id, gift |-> <<"product", id>>, image |-> TRUE]
GiftBox(id)    == [kind |-> "gift_box", ref_id |-> id, gift |-> <<"box", id>>, image |-> FALSE]
WebIdea(i, id) == [kind |-> "web_idea", ref_id |-> i, gift |-> <<"idea", id>>, image |-> FALSE]

SmallSearchResults == {{}, {Product(1), WebIdea(0, 7)}, {GiftBox(1), WebIdea(0, 8)}}
SmallRankings ==
    {<<Product(1), WebIdea(0, 7)>>, <<WebIdea(0, 8), Product(1)>>, <<GiftBox(1), GiftBox(1)>>}
=============================================================================
