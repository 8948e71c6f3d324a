------------------------------ MODULE GiftSlots ------------------------------
(***************************************************************************)
(* The gifting requirements a conversation collects (agent/state.py Slots) *)
(* and the pure functions of agent/slot_schema.py and of                   *)
(* agent/nodes/handle_refinement.py that merge and adjust them.  Amounts   *)
(* are in hundredths of a rupee; an unset slot is None.                    *)
(***************************************************************************)
EXTENDS Integers, Sequences

CONSTANT None

\* The nice-to-have slots, of which only being filled matters: themes,
\* branding, city, timeline.
Extras == {"theme_preferences", "branding_needed", "delivery_city", "delivery_timeline"}

EmptySlots == [occasion |-> None, recipient_count |-> None,
               budget_per_recipient |-> None, total_budget |-> None, extras |-> {}]

HasBudgetSignal(s) == s.budget_per_recipient # None \/ s.total_budget # None

IsSufficientForSearch(s) ==
    s.occasion # None /\ s.recipient_count # None /\ HasBudgetSignal(s)

\* compute_missing_slots, in SLOT_QUESTION_PRIORITY.
Missing(s, key) ==
    CASE key = "budget_signal" -> ~HasBudgetSignal(s)
      [] key \in Extras        -> key \notin s.extras
      [] OTHER                 -> s[key] = None

SlotQuestionPriority ==
    <<"occasion", "recipient_count", "budget_signal", "theme_preferences",
      "branding_needed", "delivery_city", "delivery_timeline">>

MissingSlots(s) == SelectSeq(SlotQuestionPriority, LAMBDA key : Missing(s, key))

\* Two slots are asked about at once if they form one of the safe pairs.
Bundles == {{"recipient_count", "budget_signal"}, {"delivery_city", "delivery_timeline"}}

NextQuestionSlots(missing) ==
    IF Len(missing) >= 2 /\ {missing[1], missing[2]} \in Bundles
    THEN SubSeq(missing, 1, 2)
    ELSE SubSeq(missing, 1, 1)

\* Decimal.quantize: a / b rounded to an integer, ties to the even one.
RoundHalfEven(a, b) ==
    LET n == IF b > 0 THEN a ELSE -a
        d == IF b > 0 THEN b ELSE -b
        q == n \div d
        r == n % d
    IN  IF 2 * r < d THEN q ELSE IF 2 * r > d THEN q + 1 ELSE q + (q % 2)

\* _derive_cross_fields: one budget from the other.  Zero recipients is as
\* good as none.
Derived(s) ==
    IF s.recipient_count \in {None, 0} THEN s
    ELSE IF s.budget_per_recipient = None /\ s.total_budget # None
    THEN [s EXCEPT !.budget_per_recipient =
                       RoundHalfEven(s.total_budget, s.recipient_count)]
    ELSE IF s.total_budget = None /\ s.budget_per_recipient # None
    THEN [s EXCEPT !.total_budget = s.budget_per_recipient * s.recipient_count]
    ELSE s

\* Mutant of Filled: what the user says last wins.
FilledOverwriting(old, new) == IF new # None THEN new ELSE old

Filled(old, new) == IF old = None THEN new ELSE old

\* merge_slots without allow_overwrite, which no caller sets.
MergeSlots(s, e) ==
    Derived([occasion             |-> Filled(s.occasion, e.occasion),
             recipient_count      |-> Filled(s.recipient_count, e.recipient_count),
             budget_per_recipient |-> Filled(s.budget_per_recipient, e.budget_per_recipient),
             total_budget         |-> Filled(s.total_budget, e.total_budget),
             extras               |-> s.extras \cup e.extras])

\* Mutant of ExplicitBudget: the total is dropped without a new budget.
ExplicitBudgetDropped(s, amount) ==
    IF s.total_budget # None /\ s.budget_per_recipient \in {None, 0}
    THEN [s EXCEPT !.total_budget = amount]
    ELSE [s EXCEPT !.budget_per_recipient = None, !.total_budget = None]

\* _nudge_budget with a number the user gave.
ExplicitBudget(s, amount) ==
    IF s.total_budget # None /\ s.budget_per_recipient \in {None, 0}
    THEN [s EXCEPT !.total_budget = amount]
    ELSE [s EXCEPT !.budget_per_recipient = amount, !.total_budget = None]

\* _nudge_budget without one: 0.8 of the budget, or 1 / 0.8 of it, rounded to
\* whole rupees.
Rupee == 100
Nudged(amount, adjustment) ==
    Rupee * IF adjustment = "cheaper" THEN RoundHalfEven(4 * amount, 5 * Rupee)
                                      ELSE RoundHalfEven(5 * amount, 4 * Rupee)

NudgeBudget(s, adjustment) ==
    IF s.budget_per_recipient # None
    THEN [s EXCEPT !.budget_per_recipient = Nudged(@, adjustment)]
    ELSE IF s.total_budget # None
    THEN [s EXCEPT !.total_budget = Nudged(@, adjustment)]
    ELSE s

\* _apply_refinement: `value` is the number or word parsed from the user's
\* text, None if there is none.
ApplyRefinement(s, adjustment, value) ==
    CASE adjustment \in {"cheaper", "pricier"} ->
           IF value # None THEN ExplicitBudget(s, value) ELSE NudgeBudget(s, adjustment)
      [] adjustment \in {"more_recipients", "fewer_recipients"} ->
           IF value # None THEN [s EXCEPT !.recipient_count = value] ELSE s
      [] adjustment = "theme_change" ->
           IF value # None THEN [s EXCEPT !.extras = @ \cup {"theme_preferences"}] ELSE s
      [] adjustment = "branding_change" ->
           IF value # None THEN [s EXCEPT !.extras = @ \cup {"branding_needed"}] ELSE s
      [] OTHER -> s
=============================================================================
