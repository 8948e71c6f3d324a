---------------------------- MODULE AgentTurnProofs ----------------------------
(***************************************************************************)
(* Theorems about AgentTurn: whatever the models and the search answer and *)
(* the user taps, no gift is kept that was not found, one shortlist gets   *)
(* one selection, and requirements only grow.                              *)
(***************************************************************************)
EXTENDS AgentTurn, SequenceFacts

\* What the graph queues.
BodyKinds == {"text", "interactive_list", "interactive_buttons", "image"}
OutBodies == [kind : BodyKinds, tappable : Seq(Items \cup Buttons)]

States ==
    [stage : Stages, slots : SlotRecords, candidates : SUBSET Items, shortlist : Seq(Items)]
TurnStates ==
    [stage : Stages, slots : SlotRecords, candidates : SUBSET Items, shortlist : Seq(Items),
     pending : Items \cup Buttons \cup {None}, outbound : Seq(OutBodies), next : Nat,
     curated : BOOLEAN, confirmed : Items \cup {None}]

TypeInv ==
    /\ saved \in States \cup {None}
    /\ turn \in TurnStates
    /\ node \in Nodes
    /\ chat \subseteq Items \cup Buttons
    /\ selections \in Nat
    /\ turns \in 0 .. MaxTurns

\* The stages a turn can be in at each node; a turn ends in one that is saved.
StageAt(n) ==
    CASE n = "route_intent" -> {"greeting", "slot_filling", "presenting"}
      [] n \in {"handle_refinement", "present_options", "finalize_selection"} ->
           {"slot_filling", "presenting"}
      [] n \in {"dispatch", "save"} -> SavedStages
      [] OTHER -> Stages

Staged ==
    /\ saved # None => saved.stage \in SavedStages
    /\ turn.stage \in StageAt(node)
    /\ turn.next \in 1 .. Len(turn.outbound) + 1

Real(state) == {state.shortlist[i] : i \in DOMAIN state.shortlist} \subseteq state.candidates

\* Between the search and the curation the old shortlist stands beside new
\* candidates; that is never saved.
ShortlistsReal ==
    /\ saved # None => Real(saved)
    /\ node # "curate_recommendations" => Real(turn)

\* What is left of a shortlist in the turn after a selection: nothing, so that a
\* second tap finds no gift.
Exhausted(state) == state.stage = "done" \/ state.shortlist = <<>>

\* A selection is counted once its turn is saved, and then its shortlist is
\* never loaded again.
SelectionsCounted ==
    /\ selections <= 1
    /\ selections = 1 /\ saved # None => Exhausted(saved)
    /\ selections = 1 /\ turn.shortlist # <<>> => turn.curated \/ node = "curate_recommendations"
    /\ turn.curated => node \in {"present_options", "dispatch", "save"} /\ turn.confirmed = None
    /\ turn.confirmed # None => /\ node \in {"dispatch", "save"} /\ turn.stage = "done"
                                /\ selections = 0

IInv == TypeInv /\ Staged /\ ShortlistsReal /\ SelectionsCounted
-----------------------------------------------------------------------------
\* Amounts and head counts are numbers.
LEMMA RoundingType ==
    ASSUME NEW a \in Int, NEW b \in Int, b # 0
    PROVE  RoundHalfEven(a, b) \in Int
<1> DEFINE n == IF b > 0 THEN a ELSE -a
           d == IF b > 0 THEN b ELSE -b
           q == n \div d
           r == n % d
<1>1. n \in Int /\ d \in Int /\ d > 0
  OBVIOUS
<1> HIDE DEF n, d
<1>2. q \in Int /\ r \in Int
  BY <1>1
<1> HIDE DEF q, r
<1>3. q % 2 \in Int
  BY <1>2
<1>4. RoundHalfEven(a, b) = IF 2 * r < d THEN q ELSE IF 2 * r > d THEN q + 1 ELSE q + (q % 2)
  BY Zenon DEF RoundHalfEven, n, d, q, r
<1> QED BY <1>2, <1>3, <1>4

\* Nothing asked yet is a set of requirements.
LEMMA EmptyType == EmptySlots \in SlotRecords
  BY DEF EmptySlots, SlotRecords, Extras

\* What merging returns are requirements again.
LEMMA MergeType ==
    ASSUME AgentAssumption, NEW s \in SlotRecords, NEW e \in SlotRecords
    PROVE  MergeSlots(s, e) \in SlotRecords
<1> DEFINE m == [occasion             |-> Filled(s.occasion, e.occasion),
                 recipient_count      |-> Filled(s.recipient_count, e.recipient_count),
                 budget_per_recipient |-> Filled(s.budget_per_recipient, e.budget_per_recipient),
                 total_budget         |-> Filled(s.total_budget, e.total_budget),
                 extras               |-> s.extras \cup e.extras]
<1>1. m \in SlotRecords
  BY DEF SlotRecords, Filled
<1>2. MergeSlots(s, e) = Derived(m)
  BY DEF MergeSlots
<1> HIDE DEF m
<1>3. CASE m.recipient_count \in {None, 0}
  BY <1>1, <1>2, <1>3 DEF Derived
<1>4. CASE m.recipient_count \notin {None, 0} /\ m.budget_per_recipient = None /\ m.total_budget # None
  <2>1. m.total_budget \in Int /\ m.recipient_count \in Int /\ m.recipient_count # 0
    BY <1>1, <1>4 DEF SlotRecords
  <2>2. RoundHalfEven(m.total_budget, m.recipient_count) \in Int
    BY <2>1, RoundingType
  <2> QED BY <1>1, <1>2, <1>4, <2>2 DEF Derived, SlotRecords
<1>5. CASE m.recipient_count \notin {None, 0} /\ m.total_budget = None /\ m.budget_per_recipient # None
  <2>1. m.budget_per_recipient * m.recipient_count \in Int
    BY <1>1, <1>5 DEF SlotRecords
  <2> QED BY <1>1, <1>2, <1>5, <2>1 DEF Derived, SlotRecords
<1>6. CASE m.budget_per_recipient # None /\ m.total_budget # None
  BY <1>1, <1>2, <1>6 DEF Derived
<1>7. CASE m.budget_per_recipient = None /\ m.total_budget = None
  BY <1>1, <1>2, <1>7 DEF Derived
<1> QED BY <1>3, <1>4, <1>5, <1>6, <1>7

\* A nudged budget is a number.
LEMMA NudgeType ==
    ASSUME NEW amount \in Int, NEW adjustment
    PROVE  Nudged(amount, adjustment) \in Int
<1>1. /\ 4 * amount \in Int /\ 5 * amount \in Int
      /\ 5 * Rupee \in Int \ {0} /\ 4 * Rupee \in Int \ {0}
  BY DEF Rupee
<1>2. RoundHalfEven(4 * amount, 5 * Rupee) \in Int /\ RoundHalfEven(5 * amount, 4 * Rupee) \in Int
  BY <1>1, RoundingType
<1> QED BY <1>2 DEF Nudged, Rupee

\* What a refinement returns are requirements again.
LEMMA RefinementType ==
    ASSUME AgentAssumption, NEW s \in SlotRecords, NEW r \in Refinements
    PROVE  ApplyRefinement(s, r.adjustment, r.value) \in SlotRecords
<1>1. CASE r.adjustment \in {"cheaper", "pricier"} /\ r.value # None
  <2>1. r.value \in Int
    BY <1>1 DEF AgentAssumption
  <2> QED BY <1>1, <2>1 DEF ApplyRefinement, ExplicitBudget, SlotRecords
<1>2. CASE r.adjustment \in {"cheaper", "pricier"} /\ r.value = None
  <2>1. s.budget_per_recipient # None => Nudged(s.budget_per_recipient, r.adjustment) \in Int
    <3> SUFFICES ASSUME s.budget_per_recipient # None PROVE s.budget_per_recipient \in Int
      BY NudgeType
    <3> QED BY DEF SlotRecords
  <2>2. s.total_budget # None => Nudged(s.total_budget, r.adjustment) \in Int
    <3> SUFFICES ASSUME s.total_budget # None PROVE s.total_budget \in Int
      BY NudgeType
    <3> QED BY DEF SlotRecords
  <2> QED BY <1>2, <2>1, <2>2 DEF ApplyRefinement, NudgeBudget, SlotRecords
<1>3. CASE r.adjustment \in {"more_recipients", "fewer_recipients"}
  <2>1. r.value \in Int \cup {None}
    BY <1>3 DEF AgentAssumption
  <2> QED BY <1>3, <2>1 DEF ApplyRefinement, SlotRecords
<1>4. CASE r.adjustment \in {"theme_change", "branding_change"}
  BY <1>4 DEF ApplyRefinement, SlotRecords, Extras
<1>5. CASE r.adjustment \notin {"cheaper", "pricier", "more_recipients", "fewer_recipients",
                                "theme_change", "branding_change"}
  BY <1>5 DEF ApplyRefinement
<1> QED BY <1>1, <1>2, <1>3, <1>4, <1>5
-----------------------------------------------------------------------------
\* Filtering keeps the list's elements, and only those asked for.
LEMMA FilteredKeeps ==
    ASSUME NEW A, NEW s \in Seq(A), NEW kept
    PROVE  /\ Filtered(s, kept) \in Seq(A)
           /\ \A i \in DOMAIN Filtered(s, kept) : Filtered(s, kept)[i] \in kept
           /\ s = <<>> => Filtered(s, kept) = <<>>
<1>1. Filtered(s, kept) \in Seq({x \in A : x \in kept})
  BY FilteredType
<1>2. ASSUME s = <<>> PROVE Filtered(s, kept) = <<>>
  <2>1. s \in Seq({})
    BY <1>2
  <2>2. Filtered(s, kept) \in Seq({x \in {} : x \in kept})
    BY <2>1, FilteredType
  <2> QED BY <2>2
<1> QED BY <1>1, <1>2

\* A ranking names items.
LEMMA RankingType ==
    ASSUME AgentAssumption, NEW ranking \in Rankings
    PROVE  ranking \in Seq(Items)
<1>1. ranking \in Seq(ToSet(ranking))
  BY DEF AgentAssumption, IsList
<1>2. ToSet(ranking) \subseteq Items
  <2> SUFFICES ASSUME NEW i \in DOMAIN ranking PROVE ranking[i] \in Items
    BY Zenon DEF ToSet
  <2>1. {ranking[j] : j \in DOMAIN ranking} \in {{seq[j] : j \in DOMAIN seq} : seq \in Rankings}
    BY Zenon
  <2>2. ranking[i] \in {ranking[j] : j \in DOMAIN ranking}
    BY Zenon
  <2> QED BY <2>1, <2>2, Zenon DEF Items
<1> HIDE DEF ToSet
<1> QED BY <1>1, <1>2

\* The four kinds of messages the graph queues.
LEMMA BodyTypes ==
    /\ TextBody \in OutBodies
    /\ ButtonBody(<<MoreOptions, RefineMenu>>) \in OutBodies
    /\ \A s \in Seq(Items) : ListMessage(s) \in OutBodies
    /\ \A s \in Seq(Items) : ImageMessages(s) \in Seq(OutBodies)
<1> DEFINE Tappable == Items \cup Buttons
<1>1. TextBody \in OutBodies
  BY DEF TextBody, OutBodies, BodyKinds
<1>2. ButtonBody(<<MoreOptions, RefineMenu>>) \in OutBodies
  <2> DEFINE b == <<MoreOptions, RefineMenu>>
  <2>1. b \in Seq(Tappable) /\ Len(b) = 2
    BY DEF Buttons
  <2> HIDE DEF b, Tappable
  <2>2. SubSeq(b, 1, IF Len(b) < MaxButtons THEN Len(b) ELSE MaxButtons) \in Seq(Tappable)
    <3>1. (IF Len(b) < MaxButtons THEN Len(b) ELSE MaxButtons) = Len(b)
      BY <2>1 DEF MaxButtons
    <3>2. SubSeq(b, 1, Len(b)) = b
      BY <2>1
    <3> QED BY <2>1, <3>1, <3>2
  <2> QED BY <2>2 DEF ButtonBody, OutBodies, BodyKinds, b, Tappable
<1>3. ASSUME NEW s \in Seq(Items) PROVE ListMessage(s) \in OutBodies
  <2> DEFINE ideas == {item \in Items : item.kind = "web_idea"}
             sections == <<Filtered(s, Items \ ideas), Filtered(s, ideas)>>
             rows == FlattenSeq(sections)
  <2>1. /\ Filtered(s, Items \ ideas) \in Seq(Items)
        /\ Filtered(s, ideas) \in Seq(Items)
    <3> HIDE DEF ideas
    <3> QED BY FilteredKeeps
  <2>2. sections \in Seq(Seq(Items))
    <3> HIDE DEF ideas
    <3> QED BY <2>1
  <2>3. rows \in Seq(Items)
    <3> HIDE DEF sections
    <3> QED BY <2>2, FlattenSeqType
  <2>4. ListMessage(s) = [kind |-> "interactive_list",
           tappable |-> SubSeq(rows, 1, IF Len(rows) < MaxListRows THEN Len(rows) ELSE MaxListRows)]
    BY Zenon DEF ListMessage, ListBody
  <2> HIDE DEF rows, Tappable
  <2>5. SubSeq(rows, 1, IF Len(rows) < MaxListRows THEN Len(rows) ELSE MaxListRows) \in Seq(Items)
    BY <2>3 DEF MaxListRows
  <2>6. \A q \in Seq(Items) : q \in Seq(Tappable)
    BY DEF Tappable
  <2> QED BY <2>4, <2>5, <2>6 DEF OutBodies, BodyKinds, Tappable
<1>4. ASSUME NEW s \in Seq(Items) PROVE ImageMessages(s) \in Seq(OutBodies)
  <2> DEFINE pictured == Filtered(s, {item \in Items : item.image})
             n == IF Len(pictured) < MaxImages THEN Len(pictured) ELSE MaxImages
  <2>1. pictured \in Seq(Items)
    BY FilteredKeeps
  <2>2. n \in Nat
    <3> HIDE DEF pictured
    <3> QED BY <2>1 DEF MaxImages
  <2>3. ImageBody \in OutBodies
    BY DEF ImageBody, OutBodies, BodyKinds
  <2>4. ImageMessages(s) = [i \in 1 .. n |-> ImageBody]
    BY DEF ImageMessages
  <2> HIDE DEF n
  <2> QED BY <2>2, <2>3, <2>4
<1> QED BY <1>1, <1>2, <1>3, <1>4

\* Nothing queued is nothing to send.
LEMMA TurnType ==
    ASSUME NEW state \in States, NEW pending \in Items \cup Buttons \cup {None}
    PROVE  /\ Turn(state, pending) \in TurnStates
           /\ Turn(state, pending).stage = state.stage
           /\ Turn(state, pending).shortlist = state.shortlist
           /\ Turn(state, pending).candidates = state.candidates
           /\ Turn(state, pending).pending = pending
           /\ Turn(state, pending).outbound = <<>>
           /\ Turn(state, pending).next = 1
           /\ Turn(state, pending).curated = FALSE
           /\ Turn(state, pending).confirmed = None
  BY DEF Turn, States, TurnStates

\* What a turn starts from.
LEMMA LoadType ==
    ASSUME NEW s \in States \cup {None}
    PROVE  LoadAgentState(s) \in States
<1>1. Fresh \in States
  BY EmptyType DEF Fresh, States, Stages
<1>2. CASE s = None
  BY <1>1, <1>2 DEF LoadAgentState
<1>3. CASE s # None /\ s.stage = "done"
  BY <1>1, <1>3 DEF LoadAgentState, States, Stages
<1>4. CASE s # None /\ s.stage # "done"
  BY <1>4 DEF LoadAgentState
<1> QED BY <1>2, <1>3, <1>4
-----------------------------------------------------------------------------
\* What the invariant asks of a turn at a node.
Sound(n, t) ==
    /\ n \in Nodes
    /\ t \in TurnStates
    /\ t.stage \in StageAt(n)
    /\ t.next \in 1 .. Len(t.outbound) + 1
    /\ n # "curate_recommendations" => Real(t)
    /\ selections = 1 /\ t.shortlist # <<>> => t.curated \/ n = "curate_recommendations"
    /\ t.curated => n \in {"present_options", "dispatch", "save"} /\ t.confirmed = None
    /\ t.confirmed # None => /\ n \in {"dispatch", "save"} /\ t.stage = "done"
                             /\ selections = 0

\* The invariant says this of the turn under way.
LEMMA SoundTurn == IInv => Sound(node, turn)
  BY DEF IInv, TypeInv, Staged, ShortlistsReal, SelectionsCounted, Sound

\* A node keeps the invariant if what it hands over is sound.
LEMMA GotoKeeps ==
    ASSUME IInv, NEW next, NEW state, Goto(next, state), Sound(next, state)
    PROVE  IInv'
<1>1. /\ node' = next /\ turn' = state /\ saved' = saved /\ chat' = chat
      /\ selections' = selections /\ turns' = turns
  BY DEF Goto
<1>2. TypeInv'
  BY <1>1 DEF IInv, TypeInv, Sound
<1>3. Staged'
  BY <1>1 DEF IInv, Staged, Sound
<1>4. ShortlistsReal'
  BY <1>1 DEF IInv, ShortlistsReal, Sound
<1>5. SelectionsCounted'
  BY <1>1 DEF IInv, SelectionsCounted, Sound
<1> QED BY <1>2, <1>3, <1>4, <1>5 DEF IInv

\* The text queued last is sent last.
LEMMA SayType ==
    ASSUME NEW t \in TurnStates, t.next \in 1 .. Len(t.outbound) + 1
    PROVE  /\ Say(t) \in TurnStates
           /\ Say(t).next \in 1 .. Len(Say(t).outbound) + 1
           /\ Say(t) = [t EXCEPT !.outbound = Say(t).outbound]
<1>1. t.outbound \in Seq(OutBodies) /\ t.next \in Nat
  BY DEF TurnStates
<1>2. /\ Append(t.outbound, TextBody) \in Seq(OutBodies)
      /\ Len(Append(t.outbound, TextBody)) = Len(t.outbound) + 1
  BY <1>1, BodyTypes
<1>3. /\ Say(t) = [t EXCEPT !.outbound = Append(t.outbound, TextBody)]
      /\ Say(t).outbound = Append(t.outbound, TextBody) /\ Say(t).next = t.next
  BY DEF Say, TurnStates
<1> HIDE DEF Say
<1>4. Say(t) \in TurnStates
  BY <1>2, <1>3 DEF TurnStates
<1>5. t.next \in 1 .. (Len(t.outbound) + 1) + 1
  BY <1>1
<1> QED BY <1>2, <1>3, <1>4, <1>5

\* Up to the curation a node hands over a sound turn if it leaves the shortlist
\* and what was logged alone.
LEMMA Handover ==
    ASSUME IInv, node \notin {"curate_recommendations", "present_options", "dispatch", "save"},
           NEW next \in Nodes, NEW t \in TurnStates, t.stage \in StageAt(next),
           t.next \in 1 .. Len(t.outbound) + 1,
           t.shortlist = turn.shortlist, t.candidates = turn.candidates,
           t.curated = turn.curated, t.confirmed = turn.confirmed
    PROVE  Sound(next, t)
<1>1. Sound(node, turn)
  BY SoundTurn
<1>2. turn.confirmed = None /\ ~turn.curated /\ Real(turn)
  BY <1>1, Zenon DEF Sound
<1>3. Real(t)
  BY <1>2 DEF Real
<1>4. selections = 1 => t.shortlist = <<>>
  BY <1>1, <1>2, Zenon DEF Sound
<1> QED BY <1>2, <1>3, <1>4, Zenon DEF Sound

\* The same for a node that says something and ends the turn.
LEMMA LastWord ==
    ASSUME IInv, node \notin {"curate_recommendations", "present_options", "dispatch", "save"},
           NEW next \in Nodes, NEW t \in TurnStates, t.stage \in StageAt(next),
           t.next \in 1 .. Len(t.outbound) + 1,
           t.shortlist = turn.shortlist, t.candidates = turn.candidates,
           t.curated = turn.curated, t.confirmed = turn.confirmed
    PROVE  Sound(next, Say(t))
<1>1. /\ Say(t) \in TurnStates /\ Say(t).next \in 1 .. Len(Say(t).outbound) + 1
      /\ Say(t) = [t EXCEPT !.outbound = Say(t).outbound]
  BY SayType
<1>2. /\ Say(t).stage = t.stage /\ Say(t).shortlist = t.shortlist
      /\ Say(t).candidates = t.candidates
      /\ Say(t).curated = t.curated /\ Say(t).confirmed = t.confirmed
  BY <1>1 DEF TurnStates
<1> QED BY <1>1, <1>2, Handover

\* The routing of a text or a tap.
LEMMA RoutingKeeps ==
    ASSUME AgentAssumption, IInv,
           Greet \/ RouteTap \/ RouteText \/ RouteNewRequest \/ Smalltalk \/ RouteToSlots
    PROVE  IInv'
<1>1. /\ turn \in TurnStates /\ turn.next \in 1 .. Len(turn.outbound) + 1
      /\ turn.stage \in StageAt(node)
  BY SoundTurn DEF Sound
<1>2. CASE Greet
  <2> DEFINE t == [turn EXCEPT !.stage = "slot_filling"]
  <2>1. /\ t \in TurnStates /\ t.next \in 1 .. Len(t.outbound) + 1 /\ t.stage = "slot_filling"
        /\ t.shortlist = turn.shortlist /\ t.candidates = turn.candidates
        /\ t.curated = turn.curated /\ t.confirmed = turn.confirmed
    BY <1>1 DEF TurnStates, Stages
  <2>2. "dispatch" \in Nodes /\ "slot_filling" \in StageAt("dispatch")
    BY DEF Nodes, StageAt, SavedStages
  <2>3. node = "route_intent" /\ Goto("dispatch", Say(t))
    BY <1>2 DEF Greet
  <2> HIDE DEF t
  <2>4. Sound("dispatch", Say(t))
    BY <2>1, <2>2, <2>3, LastWord
  <2> QED BY <2>3, <2>4, GotoKeeps
<1>3. CASE RouteTap
  <2>1. /\ Sound("present_options", turn) /\ Sound("handle_refinement", turn)
        /\ Sound("finalize_selection", turn)
    BY <1>1, <1>3, SoundTurn DEF RouteTap, Sound, Nodes, StageAt
  <2> QED BY <1>3, <2>1, GotoKeeps DEF RouteTap
<1>4. CASE RouteText
  <2>1. /\ Sound("collect_requirements", turn) /\ Sound("handle_refinement", turn)
        /\ Sound("finalize_selection", turn)
    BY <1>1, <1>4, SoundTurn DEF RouteText, Sound, Nodes, StageAt, Stages
  <2> QED BY <1>4, <2>1, GotoKeeps DEF RouteText
<1>5. CASE RouteNewRequest
  <2> DEFINE t == [turn EXCEPT !.stage = "slot_filling", !.slots = EmptySlots]
  <2>1. /\ t \in TurnStates /\ t.next \in 1 .. Len(t.outbound) + 1 /\ t.stage = "slot_filling"
        /\ t.shortlist = turn.shortlist /\ t.candidates = turn.candidates
        /\ t.curated = turn.curated /\ t.confirmed = turn.confirmed
    BY <1>1, EmptyType DEF TurnStates, Stages
  <2>2. "collect_requirements" \in Nodes /\ "slot_filling" \in StageAt("collect_requirements")
    BY DEF Nodes, StageAt, Stages
  <2>3. node = "route_intent" /\ Goto("collect_requirements", t)
    BY <1>5 DEF RouteNewRequest
  <2> HIDE DEF t
  <2>4. Sound("collect_requirements", t)
    BY <2>1, <2>2, <2>3, Handover
  <2> QED BY <2>3, <2>4, GotoKeeps
<1>6. CASE Smalltalk
  <2>1. "dispatch" \in Nodes /\ turn.stage \in StageAt("dispatch")
    BY <1>1, <1>6 DEF Smalltalk, Nodes, StageAt, SavedStages
  <2>2. node = "route_intent" /\ Goto("dispatch", Say(turn))
    BY <1>6 DEF Smalltalk
  <2>3. Sound("dispatch", Say(turn))
    BY <1>1, <2>1, <2>2, LastWord
  <2> QED BY <2>2, <2>3, GotoKeeps
<1>7. CASE RouteToSlots
  <2>1. Sound("collect_requirements", turn)
    BY <1>1, <1>7, SoundTurn DEF RouteToSlots, Sound, Nodes, StageAt, Stages
  <2> QED BY <1>7, <2>1, GotoKeeps DEF RouteToSlots
<1> QED BY <1>2, <1>3, <1>4, <1>5, <1>6, <1>7, Zenon

\* Requirements grow, or are adjusted, and the catalog is searched.
LEMMA RequirementsKeep ==
    ASSUME AgentAssumption, IInv,
           CollectAndAsk \/ CollectAndSearch \/ SearchCatalog \/ HandleRefinement
    PROVE  IInv'
<1>1. /\ turn \in TurnStates /\ turn.next \in 1 .. Len(turn.outbound) + 1
      /\ turn.slots \in SlotRecords
  BY SoundTurn DEF Sound, TurnStates
<1>2. \A e \in Extractions : MergeSlots(turn.slots, e) \in SlotRecords
  BY <1>1, MergeType DEF AgentAssumption
<1>3. CASE CollectAndAsk
  <2> PICK e \in Extractions :
        Goto("dispatch", Say([turn EXCEPT !.slots = MergeSlots(turn.slots, e),
                                          !.stage = "slot_filling"]))
    BY <1>3 DEF CollectAndAsk
  <2> DEFINE t == [turn EXCEPT !.slots = MergeSlots(turn.slots, e), !.stage = "slot_filling"]
  <2>1. /\ t \in TurnStates /\ t.next \in 1 .. Len(t.outbound) + 1 /\ t.stage = "slot_filling"
        /\ t.shortlist = turn.shortlist /\ t.candidates = turn.candidates
        /\ t.curated = turn.curated /\ t.confirmed = turn.confirmed
    BY <1>1, <1>2 DEF TurnStates, Stages
  <2>2. "dispatch" \in Nodes /\ "slot_filling" \in StageAt("dispatch")
    BY DEF Nodes, StageAt, SavedStages
  <2>3. node = "collect_requirements" /\ Goto("dispatch", Say(t))
    BY <1>3 DEF CollectAndAsk
  <2> HIDE DEF t
  <2>4. Sound("dispatch", Say(t))
    BY <2>1, <2>2, <2>3, LastWord
  <2> QED BY <2>3, <2>4, GotoKeeps
<1>4. CASE CollectAndSearch
  <2> PICK e \in Extractions :
        Goto("search_catalog", [turn EXCEPT !.slots = MergeSlots(turn.slots, e),
                                            !.stage = "searching"])
    BY <1>4 DEF CollectAndSearch
  <2> DEFINE t == [turn EXCEPT !.slots = MergeSlots(turn.slots, e), !.stage = "searching"]
  <2>1. /\ t \in TurnStates /\ t.next \in 1 .. Len(t.outbound) + 1 /\ t.stage = "searching"
        /\ t.shortlist = turn.shortlist /\ t.candidates = turn.candidates
        /\ t.curated = turn.curated /\ t.confirmed = turn.confirmed
    BY <1>1, <1>2 DEF TurnStates, Stages
  <2>2. "search_catalog" \in Nodes /\ "searching" \in StageAt("search_catalog")
    BY DEF Nodes, StageAt, Stages
  <2>3. node = "collect_requirements" /\ Goto("search_catalog", t)
    BY <1>4 DEF CollectAndSearch
  <2> HIDE DEF t
  <2>4. Sound("search_catalog", t)
    BY <2>1, <2>2, <2>3, Handover
  <2> QED BY <2>3, <2>4, GotoKeeps
<1>5. CASE HandleRefinement
  <2> PICK r \in Refinements :
        Goto("search_catalog",
             Say([turn EXCEPT !.stage = "refining",
                              !.slots = ApplyRefinement(turn.slots, r.adjustment, r.value)]))
    BY <1>5 DEF HandleRefinement
  <2> DEFINE slots == ApplyRefinement(turn.slots, r.adjustment, r.value)
             t == [turn EXCEPT !.stage = "refining", !.slots = slots]
  <2>1. slots \in SlotRecords
    BY <1>1, RefinementType
  <2>2. /\ t \in TurnStates /\ t.next \in 1 .. Len(t.outbound) + 1 /\ t.stage = "refining"
        /\ t.shortlist = turn.shortlist /\ t.candidates = turn.candidates
        /\ t.curated = turn.curated /\ t.confirmed = turn.confirmed
    <3> HIDE DEF slots
    <3> QED BY <1>1, <2>1 DEF TurnStates, Stages
  <2>3. "search_catalog" \in Nodes /\ "refining" \in StageAt("search_catalog")
    BY DEF Nodes, StageAt, Stages
  <2>4. node = "handle_refinement" /\ Goto("search_catalog", Say(t))
    BY <1>5 DEF HandleRefinement
  <2> HIDE DEF t
  <2>5. Sound("search_catalog", Say(t))
    BY <2>2, <2>3, <2>4, LastWord
  <2> QED BY <2>4, <2>5, GotoKeeps
<1>6. CASE SearchCatalog
  <2> PICK found \in SearchResults :
        Goto("curate_recommendations", [turn EXCEPT !.candidates = found, !.stage = "curating"])
    BY <1>6 DEF SearchCatalog
  <2> DEFINE t == [turn EXCEPT !.candidates = found, !.stage = "curating"]
  <2>1. found \subseteq Items
    BY DEF Items
  <2>2. /\ t \in TurnStates /\ t.next \in 1 .. Len(t.outbound) + 1 /\ t.stage = "curating"
        /\ t.curated = turn.curated /\ t.confirmed = turn.confirmed
    BY <1>1, <2>1 DEF TurnStates, Stages
  <2>3. "curate_recommendations" \in Nodes /\ "curating" \in StageAt("curate_recommendations")
    BY DEF Nodes, StageAt, Stages
  <2>4. node = "search_catalog" /\ Goto("curate_recommendations", t)
    BY <1>6 DEF SearchCatalog
  <2> HIDE DEF t
  <2>5. turn.confirmed = None /\ ~turn.curated
    BY <2>4, SoundTurn, Zenon DEF Sound
  <2>6. Sound("curate_recommendations", t)
    BY <2>2, <2>3, <2>5, Zenon DEF Sound
  <2> QED BY <2>4, <2>6, GotoKeeps
<1> QED BY <1>3, <1>4, <1>5, <1>6, Zenon

\* What the model ranked is presented only where it names candidates.
LEMMA CurationKeeps ==
    ASSUME AgentAssumption, IInv, CurateNothing \/ Curate \/ PresentOptions
    PROVE  IInv'
<1>1. /\ turn \in TurnStates /\ turn.next \in 1 .. Len(turn.outbound) + 1
      /\ turn.outbound \in Seq(OutBodies) /\ turn.shortlist \in Seq(Items) /\ turn.next \in Nat
  BY SoundTurn DEF Sound, TurnStates
<1>2. CASE CurateNothing
  <2> DEFINE t == [turn EXCEPT !.stage = "slot_filling", !.shortlist = <<>>]
  <2>1. /\ t \in TurnStates /\ t.next \in 1 .. Len(t.outbound) + 1 /\ t.stage = "slot_filling"
        /\ t.shortlist = <<>>
        /\ t.curated = turn.curated /\ t.confirmed = turn.confirmed
    <3>1. <<>> \in Seq(Items)
      OBVIOUS
    <3> DEFINE empty == <<>>
    <3> HIDE DEF empty
    <3>2. [turn EXCEPT !.stage = "slot_filling", !.shortlist = empty] \in TurnStates
      BY <1>1, <3>1 DEF TurnStates, Stages, empty
    <3> QED BY <1>1, <3>2 DEF TurnStates, empty
  <2>2. node = "curate_recommendations" /\ Goto("dispatch", Say(t))
    BY <1>2 DEF CurateNothing
  <2> HIDE DEF t
  <2>3. /\ Say(t) \in TurnStates /\ Say(t).next \in 1 .. Len(Say(t).outbound) + 1
        /\ Say(t) = [t EXCEPT !.outbound = Say(t).outbound]
    BY <2>1, SayType
  <2>4. /\ Say(t).stage = "slot_filling" /\ Say(t).shortlist = <<>>
        /\ Say(t).curated = t.curated /\ Say(t).confirmed = t.confirmed
    BY <2>1, <2>3 DEF TurnStates
  <2>5. turn.confirmed = None /\ ~turn.curated
    BY <2>2, SoundTurn, Zenon DEF Sound
  <2>6. Real(Say(t))
    BY <2>4 DEF Real
  <2>7. "dispatch" \in Nodes /\ "slot_filling" \in StageAt("dispatch")
    BY DEF Nodes, StageAt, SavedStages
  <2>8. Sound("dispatch", Say(t))
    BY <2>1, <2>3, <2>4, <2>5, <2>6, <2>7, Zenon DEF Sound
  <2> QED BY <2>2, <2>8, GotoKeeps
<1>3. CASE Curate
  <2> PICK ranking \in Rankings :
        Goto("present_options", [turn EXCEPT !.stage = "presenting",
                                   !.shortlist = Validated(ranking, turn.candidates),
                                   !.curated = TRUE])
    BY <1>3 DEF Curate
  <2> DEFINE shortlist == Validated(ranking, turn.candidates)
             t == [turn EXCEPT !.stage = "presenting", !.shortlist = shortlist, !.curated = TRUE]
  <2>1. ranking \in Seq(Items)
    BY RankingType
  <2>2. /\ shortlist \in Seq(Items)
        /\ \A i \in DOMAIN shortlist : shortlist[i] \in turn.candidates
    BY <2>1, FilteredKeeps DEF Validated
  <2> HIDE DEF shortlist
  <2>3. /\ t \in TurnStates /\ t.next \in 1 .. Len(t.outbound) + 1 /\ t.stage = "presenting"
        /\ t.shortlist = shortlist /\ t.candidates = turn.candidates
        /\ t.curated = TRUE /\ t.confirmed = turn.confirmed
    BY <1>1, <2>2 DEF TurnStates, Stages
  <2>4. node = "curate_recommendations" /\ Goto("present_options", t)
    BY <1>3 DEF Curate, shortlist
  <2> HIDE DEF t
  <2>5. Real(t)
    BY <2>2, <2>3 DEF Real
  <2>6. "present_options" \in Nodes /\ "presenting" \in StageAt("present_options")
    BY DEF Nodes, StageAt
  <2>7. turn.confirmed = None
    BY <2>4, SoundTurn, Zenon DEF Sound
  <2>8. Sound("present_options", t)
    BY <2>3, <2>5, <2>6, <2>7, Zenon DEF Sound
  <2> QED BY <2>4, <2>8, GotoKeeps
<1>4. CASE PresentOptions
  <2> DEFINE queued == turn.outbound \o <<TextBody, ListMessage(turn.shortlist),
                                          ButtonBody(<<MoreOptions, RefineMenu>>)>>
                                     \o ImageMessages(turn.shortlist)
             t == [turn EXCEPT !.stage = "presenting", !.outbound = queued]
  <2>1. queued \in Seq(OutBodies) /\ Len(queued) >= Len(turn.outbound)
    <3> DEFINE three == <<TextBody, ListMessage(turn.shortlist),
                          ButtonBody(<<MoreOptions, RefineMenu>>)>>
    <3>1. three \in Seq(OutBodies) /\ ImageMessages(turn.shortlist) \in Seq(OutBodies)
      BY <1>1, BodyTypes
    <3>2. queued = (turn.outbound \o three) \o ImageMessages(turn.shortlist)
      OBVIOUS
    <3> HIDE DEF three, queued
    <3>3. turn.outbound \o three \in Seq(OutBodies) /\ Len(turn.outbound \o three) >= Len(turn.outbound)
      BY <1>1, <3>1
    <3> DEFINE first == turn.outbound \o three
               images == ImageMessages(turn.shortlist)
    <3>4. first \in Seq(OutBodies) /\ images \in Seq(OutBodies)
      BY <3>1, <3>3
    <3> HIDE DEF first, images
    <3>5. first \o images \in Seq(OutBodies) /\ Len(first \o images) >= Len(first)
      BY <3>4
    <3>6. queued = first \o images /\ Len(first) >= Len(turn.outbound) /\ Len(first) \in Int
      BY <3>2, <3>3, <3>4 DEF first, images
    <3>7. Len(queued) \in Int /\ Len(turn.outbound) \in Int
      BY <1>1, <3>5, <3>6
    <3> QED BY <3>5, <3>6, <3>7
  <2> HIDE DEF queued
  <2>2. turn.next \in 1 .. Len(queued) + 1
    BY <1>1, <2>1
  <2>3. /\ t \in TurnStates /\ t.next = turn.next /\ t.outbound = queued /\ t.stage = "presenting"
        /\ t.shortlist = turn.shortlist /\ t.candidates = turn.candidates
        /\ t.curated = turn.curated /\ t.confirmed = turn.confirmed
    BY <1>1, <2>1 DEF TurnStates, Stages
  <2>4. node = "present_options" /\ Goto("dispatch", t)
    BY <1>4 DEF PresentOptions, queued
  <2> HIDE DEF t
  <2>5. Sound(node, turn) /\ node # "curate_recommendations" /\ node \notin {"dispatch", "save"}
    BY <2>4, SoundTurn
  <2>6. Real(t)
    BY <2>3, <2>5 DEF Real, Sound
  <2>7. "dispatch" \in Nodes /\ "presenting" \in StageAt("dispatch")
    BY DEF Nodes, StageAt, SavedStages
  <2>8. Sound("dispatch", t)
    BY <2>2, <2>3, <2>5, <2>6, <2>7, Zenon DEF Sound
  <2> QED BY <2>4, <2>8, GotoKeeps
<1> QED BY <1>2, <1>3, <1>4, Zenon

\* The gift a tap or a text is taken for is an item of the shortlist.
LEMMA SelectedType ==
    ASSUME NEW t \in TurnStates, ResolveSelectedGift(t) # None
    PROVE  ResolveSelectedGift(t) \in Items /\ t.shortlist # <<>>
<1> DEFINE hits == IF t.pending \in Items
                   THEN Filtered(t.shortlist, {item \in Items : SameRow(item, t.pending)})
                   ELSE <<>>
<1>1. t.shortlist \in Seq(Items)
  BY DEF TurnStates
<1>2. hits \in Seq(Items) /\ (t.shortlist = <<>> => hits = <<>>)
  <2>1. CASE t.pending \in Items
    BY <1>1, <2>1, FilteredKeeps
  <2>2. CASE t.pending \notin Items
    BY <2>2
  <2> QED BY <2>1, <2>2
<1>3. ResolveSelectedGift(t) = IF hits # <<>> THEN hits[1]
                               ELSE IF t.shortlist # <<>> /\ t.stage = "presenting"
                                    THEN t.shortlist[1] ELSE None
  BY Zenon DEF ResolveSelectedGift
<1> HIDE DEF hits
<1>4. CASE hits # <<>>
  BY <1>2, <1>3, <1>4
<1>5. CASE hits = <<>> /\ t.shortlist # <<>> /\ t.stage = "presenting"
  BY <1>1, <1>3, <1>5
<1> QED BY <1>3, <1>4, <1>5

\* A gift is noted down only while none was noted down for this shortlist.
LEMMA SelectionKeeps ==
    ASSUME AgentAssumption, IInv, FinalizeSelection \/ AskToTap
    PROVE  IInv'
<1>1. /\ turn \in TurnStates /\ turn.next \in 1 .. Len(turn.outbound) + 1
      /\ turn.stage \in StageAt(node) /\ Sound(node, turn)
  BY SoundTurn DEF Sound
<1>2. CASE FinalizeSelection
  <2> DEFINE selected == ResolveSelectedGift(turn)
             t == [turn EXCEPT !.stage = "done", !.confirmed = selected]
  <2>1. node = "finalize_selection" /\ selected # None /\ Goto("dispatch", Say(t))
    BY <1>2 DEF FinalizeSelection
  <2>2. selected \in Items /\ turn.shortlist # <<>>
    BY <1>1, <2>1, SelectedType
  <2> HIDE DEF selected
  <2>3. /\ t \in TurnStates /\ t.next \in 1 .. Len(t.outbound) + 1 /\ t.stage = "done"
        /\ t.shortlist = turn.shortlist /\ t.candidates = turn.candidates
        /\ t.curated = turn.curated /\ t.confirmed = selected
    BY <1>1, <2>2 DEF TurnStates, Stages
  <2> HIDE DEF t
  <2>4. /\ Say(t) \in TurnStates /\ Say(t).next \in 1 .. Len(Say(t).outbound) + 1
        /\ Say(t) = [t EXCEPT !.outbound = Say(t).outbound]
    BY <2>3, SayType
  <2>5. /\ Say(t).stage = "done" /\ Say(t).shortlist = turn.shortlist
        /\ Say(t).candidates = turn.candidates
        /\ Say(t).curated = turn.curated /\ Say(t).confirmed = selected
    BY <2>3, <2>4 DEF TurnStates
  <2>6. ~turn.curated /\ Real(turn)
    BY <1>1, <2>1, Zenon DEF Sound
  <2>7. Real(Say(t))
    BY <2>5, <2>6 DEF Real
  <2>8. selections = 0
    <3>1. selections # 1
      BY <1>1, <2>1, <2>2, <2>6, Zenon DEF Sound
    <3> QED BY <3>1 DEF IInv, TypeInv, SelectionsCounted
  <2>9. "dispatch" \in Nodes /\ "done" \in StageAt("dispatch")
    BY DEF Nodes, StageAt, SavedStages
  <2>10. Sound("dispatch", Say(t))
    <3>1. selections # 1
      BY <2>8
    <3> QED BY <2>4, <2>5, <2>6, <2>7, <2>8, <2>9, <3>1, Zenon DEF Sound
  <2> QED BY <2>1, <2>10, GotoKeeps
<1>3. CASE AskToTap
  <2>1. "dispatch" \in Nodes /\ turn.stage \in StageAt("dispatch")
    BY <1>1, <1>3 DEF AskToTap, Nodes, StageAt, SavedStages
  <2>2. node = "finalize_selection" /\ Goto("dispatch", Say(turn))
    BY <1>3 DEF AskToTap
  <2>3. Sound("dispatch", Say(turn))
    BY <1>1, <2>1, <2>2, LastWord
  <2> QED BY <2>2, <2>3, GotoKeeps
<1> QED BY <1>2, <1>3
-----------------------------------------------------------------------------
\* A turn that ends, or never was, keeps nothing.
LEMMA NoTurnType ==
    /\ Fresh \in States /\ Fresh.stage = "greeting" /\ Fresh.shortlist = <<>>
    /\ NoTurn \in TurnStates /\ NoTurn.shortlist = <<>>
    /\ NoTurn.curated = FALSE /\ NoTurn.confirmed = None
    /\ NoTurn.stage \in StageAt("idle") /\ NoTurn.next \in 1 .. Len(NoTurn.outbound) + 1
    /\ Real(NoTurn)
<1>1. Fresh \in States /\ Fresh.stage = "greeting" /\ Fresh.shortlist = <<>>
  BY EmptyType DEF Fresh, States, Stages
<1>2. NoTurn = Turn(Fresh, None) /\ None \in Items \cup Buttons \cup {None}
  BY DEF NoTurn
<1>3. /\ NoTurn \in TurnStates /\ NoTurn.stage = "greeting" /\ NoTurn.shortlist = <<>>
      /\ NoTurn.outbound = <<>> /\ NoTurn.next = 1
      /\ NoTurn.curated = FALSE /\ NoTurn.confirmed = None
  BY <1>1, <1>2, TurnType
<1> HIDE DEF NoTurn
<1>4. Real(NoTurn)
  BY <1>3 DEF Real
<1>5. "greeting" \in StageAt("idle") /\ 1 \in 1 .. Len(NoTurn.outbound) + 1
  BY <1>3 DEF StageAt, Stages
<1> QED BY <1>1, <1>3, <1>4, <1>5

\* Between turns the invariant is about what was saved and counted.
LEMMA IdleSound ==
    ASSUME node = "idle", turn = NoTurn, turns \in 0 .. MaxTurns,
           saved \in States \cup {None}, chat \subseteq Items \cup Buttons, selections \in {0, 1},
           saved # None => saved.stage \in SavedStages /\ Real(saved),
           selections = 1 /\ saved # None => Exhausted(saved)
    PROVE  IInv
<1>1. TypeInv
  BY NoTurnType DEF TypeInv, Nodes
<1>2. Staged
  BY NoTurnType DEF Staged
<1>3. ShortlistsReal
  BY NoTurnType DEF ShortlistsReal
<1>4. SelectionsCounted
  BY NoTurnType DEF SelectionsCounted
<1> QED BY <1>1, <1>2, <1>3, <1>4 DEF IInv

\* The invariant holds at the start.
LEMMA InitIInv ==
    ASSUME AgentAssumption, Init
    PROVE  IInv
<1>1. /\ saved = None /\ turn = NoTurn /\ node = "idle" /\ chat = {} /\ selections = 0
      /\ turns \in 0 .. MaxTurns
  BY DEF Init, AgentAssumption
<1> QED BY <1>1, IdleSound

\* A message starts a turn on the state saved last.
LEMMA ReceiveKeeps ==
    ASSUME AgentAssumption, IInv, ReceiveText \/ ReceiveTap
    PROVE  IInv'
<1>1. PICK message : Receive(message) /\ Pending(message) \in Items \cup Buttons \cup {None}
  <2>1. CASE ReceiveText
    <3>1. Pending(Inbound("text", None, None)) = None
      BY DEF Pending, Inbound, Normalized
    <3> QED BY <2>1, <3>1 DEF ReceiveText
  <2>2. CASE ReceiveTap
    <3> PICK tapped \in chat :
          Receive(Inbound("interactive", IF tapped \in Items THEN "list_reply" ELSE "button_reply", tapped))
      BY <2>2 DEF ReceiveTap
    <3>1. ASSUME NEW reply PROVE Pending(Inbound("interactive", reply, tapped)) \in {tapped, None}
      BY DEF Pending, Inbound, Normalized
    <3>2. tapped \in Items \cup Buttons
      BY DEF IInv, TypeInv
    <3> QED BY <3>1, <3>2
  <2> QED BY <2>1, <2>2
<1> DEFINE state == LoadAgentState(saved)
<1>2. /\ turn' = Turn(state, Pending(message)) /\ node' = "route_intent" /\ turns < MaxTurns
      /\ turns' = turns + 1 /\ saved' = saved /\ chat' = chat /\ selections' = selections
  BY <1>1 DEF Receive
<1>3. state \in States
  BY LoadType DEF IInv, TypeInv
<1>4. state.stage \in {"greeting", "slot_filling", "presenting"}
  <2>1. saved # None => saved.stage \in SavedStages /\ saved \in States
    BY DEF IInv, Staged, TypeInv
  <2>2. Fresh.stage = "greeting" /\ [Fresh EXCEPT !.stage = "slot_filling"].stage = "slot_filling"
    BY DEF Fresh
  <2> QED BY <2>1, <2>2 DEF LoadAgentState, SavedStages
<1>5. state.shortlist = <<>> \/ (saved # None /\ saved.stage # "done" /\ state = saved)
  <2>1. Fresh.shortlist = <<>> /\ [Fresh EXCEPT !.stage = "slot_filling"].shortlist = <<>>
    BY DEF Fresh
  <2> QED BY <2>1 DEF LoadAgentState
<1> HIDE DEF state
<1>6. /\ turn' \in TurnStates /\ turn'.stage = state.stage /\ turn'.shortlist = state.shortlist
      /\ turn'.candidates = state.candidates /\ turn'.outbound = <<>> /\ turn'.next = 1
      /\ turn'.curated = FALSE /\ turn'.confirmed = None
  BY <1>1, <1>2, <1>3, TurnType
<1>7. TypeInv'
  BY <1>2, <1>6 DEF IInv, TypeInv, Nodes, AgentAssumption
<1>8. Staged'
  BY <1>2, <1>4, <1>6 DEF IInv, Staged, StageAt
<1>9. ShortlistsReal'
  <2>1. Real(turn')
    <3>1. CASE state.shortlist = <<>>
      BY <1>6, <3>1 DEF Real
    <3>2. CASE saved # None /\ state = saved
      BY <1>6, <3>2 DEF Real, IInv, ShortlistsReal
    <3> QED BY <1>5, <3>1, <3>2
  <2> QED BY <1>2, <2>1 DEF IInv, ShortlistsReal
<1>10. SelectionsCounted'
  <2>1. selections = 1 => state.shortlist = <<>>
    BY <1>5, Zenon DEF IInv, SelectionsCounted, Exhausted
  <2> QED BY <1>2, <1>6, <2>1 DEF IInv, SelectionsCounted
<1> QED BY <1>7, <1>8, <1>9, <1>10 DEF IInv

\* What was queued is sent, and none of it is kept.
LEMMA DispatchKeeps ==
    ASSUME AgentAssumption, IInv, Dispatch \/ Dispatched
    PROVE  IInv'
<1>1. /\ turn \in TurnStates /\ Sound(node, turn) /\ turn.outbound \in Seq(OutBodies)
      /\ turn.next \in 1 .. Len(turn.outbound) + 1
  BY SoundTurn DEF Sound, TurnStates
<1>2. CASE Dispatch
  <2> DEFINE body == turn.outbound[turn.next]
  <2>1. /\ turn.next <= Len(turn.outbound) /\ SendOne(body) /\ turn' = [turn EXCEPT !.next = @ + 1]
        /\ saved' = saved /\ node = "dispatch" /\ node' = "dispatch"
        /\ selections' = selections /\ turns' = turns
    BY <1>2 DEF Dispatch
  <2>2. body \in OutBodies
    <3>1. turn.next \in 1 .. Len(turn.outbound)
      BY <1>1, <2>1
    <3> QED BY <1>1, <3>1
  <2> HIDE DEF body
  <2>3. ToSet(body.tappable) \subseteq Items \cup Buttons
    BY <2>2 DEF OutBodies, ToSet
  <2>4. chat' \subseteq Items \cup Buttons
    BY <2>1, <2>3 DEF SendOne, IInv, TypeInv
  <2>5. /\ turn' \in TurnStates /\ turn'.next = turn.next + 1 /\ turn'.outbound = turn.outbound
        /\ turn'.stage = turn.stage /\ turn'.shortlist = turn.shortlist
        /\ turn'.candidates = turn.candidates
        /\ turn'.curated = turn.curated /\ turn'.confirmed = turn.confirmed
    <3> DEFINE later == turn.next + 1
    <3>1. later \in Nat /\ turn' = [turn EXCEPT !.next = later]
      BY <1>1, <2>1 DEF TurnStates
    <3> HIDE DEF later
    <3>2. /\ turn' \in TurnStates /\ turn'.next = later /\ turn'.outbound = turn.outbound
          /\ turn'.stage = turn.stage /\ turn'.shortlist = turn.shortlist
          /\ turn'.candidates = turn.candidates
          /\ turn'.curated = turn.curated /\ turn'.confirmed = turn.confirmed
      BY <1>1, <3>1 DEF TurnStates
    <3> QED BY <3>2 DEF later
  <2>6. turn'.next \in 1 .. Len(turn'.outbound) + 1
    BY <1>1, <2>1, <2>5
  <2>7. TypeInv'
    BY <2>1, <2>4, <2>5 DEF IInv, TypeInv
  <2>8. Staged'
    BY <2>1, <2>5, <2>6 DEF IInv, Staged
  <2>9. ShortlistsReal'
    BY <2>1, <2>5 DEF IInv, ShortlistsReal, Real
  <2>10. SelectionsCounted'
    BY <2>1, <2>5 DEF IInv, SelectionsCounted
  <2> QED BY <2>7, <2>8, <2>9, <2>10 DEF IInv
<1>3. CASE Dispatched
  <2>1. /\ node = "dispatch" /\ node' = "save" /\ turn' = turn /\ saved' = saved
        /\ chat' = chat /\ selections' = selections /\ turns' = turns
    BY <1>3 DEF Dispatched
  <2>2. TypeInv'
    BY <2>1 DEF IInv, TypeInv, Nodes
  <2>3. Staged'
    BY <2>1 DEF IInv, Staged, StageAt
  <2>4. ShortlistsReal'
    BY <2>1 DEF IInv, ShortlistsReal
  <2>5. SelectionsCounted'
    BY <2>1 DEF IInv, SelectionsCounted
  <2> QED BY <2>2, <2>3, <2>4, <2>5 DEF IInv
<1> QED BY <1>2, <1>3

\* Saving counts the selection of this turn, the first of its shortlist.
LEMMA SaveKeeps ==
    ASSUME AgentAssumption, IInv, Save
    PROVE  IInv'
<1> DEFINE state == [stage |-> turn.stage, slots |-> turn.slots,
                     candidates |-> turn.candidates, shortlist |-> turn.shortlist]
<1>1. /\ node = "save" /\ node' = "idle" /\ saved' = state /\ turn' = NoTurn
      /\ selections' = (IF turn.confirmed # None THEN selections + 1
                        ELSE IF turn.curated THEN 0 ELSE selections)
      /\ chat' = chat /\ turns' = turns
  BY DEF Save
<1>2. /\ turn \in TurnStates /\ Sound(node, turn) /\ Real(turn) /\ turn.stage \in SavedStages
  BY <1>1, SoundTurn DEF Sound, StageAt
<1>3. /\ state \in States /\ state.stage = turn.stage /\ state.shortlist = turn.shortlist
      /\ state.candidates = turn.candidates
  BY <1>2 DEF TurnStates, States
<1> HIDE DEF state
<1>4. Real(state)
  BY <1>2, <1>3 DEF Real
<1>5. selections' \in {0, 1} /\ (selections' = 1 => Exhausted(state))
  <2>1. selections \in {0, 1}
    BY DEF IInv, TypeInv, SelectionsCounted
  <2>2. CASE turn.confirmed # None
    BY <1>1, <1>2, <1>3, <2>1, <2>2 DEF Sound, Exhausted
  <2>3. CASE turn.confirmed = None /\ turn.curated
    BY <1>1, <2>3
  <2>4. CASE turn.confirmed = None /\ ~turn.curated
    BY <1>1, <1>2, <1>3, <2>1, <2>4 DEF Sound, Exhausted
  <2> QED BY <2>2, <2>3, <2>4
<1>6. /\ saved' \in States \cup {None} /\ saved'.stage \in SavedStages /\ Real(saved')
      /\ selections' = 1 => Exhausted(saved')
      /\ chat' \subseteq Items \cup Buttons /\ turns' \in 0 .. MaxTurns
  BY <1>1, <1>2, <1>3, <1>4, <1>5 DEF IInv, TypeInv
<1>7. TypeInv'
  BY <1>1, <1>5, <1>6, NoTurnType DEF TypeInv, Nodes
<1>8. Staged'
  BY <1>1, <1>6, NoTurnType DEF Staged
<1>9. ShortlistsReal'
  BY <1>1, <1>6, NoTurnType DEF ShortlistsReal
<1>10. SelectionsCounted'
  BY <1>1, <1>5, <1>6, NoTurnType DEF SelectionsCounted
<1> QED BY <1>7, <1>8, <1>9, <1>10 DEF IInv

\* A turn that is rolled back leaves what was saved and counted before.
LEMMA FailKeeps ==
    ASSUME AgentAssumption, IInv, Fail
    PROVE  IInv'
<1>1. /\ node' = "idle" /\ turn' = NoTurn /\ saved' = saved /\ chat' = chat
      /\ selections' = selections /\ turns' = turns
  BY DEF Fail
<1>2. TypeInv'
  BY <1>1, NoTurnType DEF IInv, TypeInv, Nodes
<1>3. Staged'
  BY <1>1, NoTurnType DEF IInv, Staged
<1>4. ShortlistsReal'
  BY <1>1, NoTurnType DEF IInv, ShortlistsReal
<1>5. SelectionsCounted'
  BY <1>1, NoTurnType DEF IInv, SelectionsCounted
<1> QED BY <1>2, <1>3, <1>4, <1>5 DEF IInv

\* The invariant is inductive.
LEMMA NextKeepsIInv ==
    ASSUME AgentAssumption, IInv, [Next]_vars
    PROVE  IInv'
<1>1. CASE ReceiveText \/ ReceiveTap
  BY <1>1, ReceiveKeeps
<1>2. CASE Greet \/ RouteTap \/ RouteText \/ RouteNewRequest \/ Smalltalk \/ RouteToSlots
  BY <1>2, RoutingKeeps
<1>3. CASE CollectAndAsk \/ CollectAndSearch \/ SearchCatalog \/ HandleRefinement
  BY <1>3, RequirementsKeep
<1>4. CASE CurateNothing \/ Curate \/ PresentOptions
  BY <1>4, CurationKeeps
<1>5. CASE FinalizeSelection \/ AskToTap
  BY <1>5, SelectionKeeps
<1>6. CASE Dispatch \/ Dispatched
  BY <1>6, DispatchKeeps
<1>7. CASE Save
  BY <1>7, SaveKeeps
<1>8. CASE Fail
  BY <1>8, FailKeeps
<1>9. CASE UNCHANGED vars
  BY <1>9 DEF IInv, TypeInv, Staged, ShortlistsReal, SelectionsCounted, vars
<1> QED BY <1>1, <1>2, <1>3, <1>4, <1>5, <1>6, <1>7, <1>8, <1>9, Zenon DEF Next, Step, Finished

\* Whatever the user, the model and the search say, the conversation stays in
\* the invariant.
THEOREM TurnsKeepInvariant == Spec => []IInv
<1>1. AgentAssumption
  BY AgentAssumption
<1>2. Init => IInv
  BY <1>1, InitIInv
<1>3. IInv /\ [Next]_vars => IInv'
  BY <1>1, NextKeepsIInv
<1> QED BY <1>2, <1>3, PTL DEF Spec

\* Every state of the conversation has its type: a turn is saved in a stage that
\* route_intent knows, and messages are sent in order and once.
THEOREM TurnsTyped == Spec => []TypeOK
<1>1. IInv => TypeOK
  <2> SUFFICES ASSUME IInv PROVE TypeOK
    OBVIOUS
  <2>1. /\ turn.stage \in Stages /\ turn.candidates \subseteq Items
        /\ turn.outbound \in Seq(OutBodies)
    BY DEF IInv, TypeInv, TurnStates
  <2>2. \A i \in DOMAIN turn.outbound : turn.outbound[i].kind \in BodyKinds
    <3> SUFFICES ASSUME NEW i \in DOMAIN turn.outbound PROVE turn.outbound[i].kind \in BodyKinds
      OBVIOUS
    <3>1. turn.outbound[i] \in OutBodies
      BY <2>1
    <3> QED BY <3>1 DEF OutBodies
  <2> QED BY <2>1, <2>2, Zenon DEF IInv, TypeInv, Staged, TypeOK, BodyKinds
<1> QED BY <1>1, TurnsKeepInvariant, PTL

\* The defence against invented ids: what the model ranks is kept only where the
\* search of that turn found it.
THEOREM NoGiftIsInvented == Spec => []ShortlistIsReal
<1>1. IInv => ShortlistIsReal
  BY Zenon DEF IInv, ShortlistsReal, Real, ShortlistIsReal
<1> QED BY <1>1, TurnsKeepInvariant, PTL

\* One selection per shortlist, however often the user taps it.
THEOREM OneHandOff == Spec => []OneSelectionPerShortlist
<1>1. IInv => OneSelectionPerShortlist
  BY DEF IInv, SelectionsCounted, OneSelectionPerShortlist
<1> QED BY <1>1, TurnsKeepInvariant, PTL
-----------------------------------------------------------------------------
\* Merging fills what is unset and derives what is still unset; it changes nothing.
LEMMA MergeKeeps ==
    ASSUME NEW s \in SlotRecords, NEW e \in SlotRecords, NEW key \in DOMAIN EmptySlots \ {"extras"},
           s[key] # None
    PROVE  MergeSlots(s, e)[key] = s[key]
<1> DEFINE m == [occasion             |-> Filled(s.occasion, e.occasion),
                 recipient_count      |-> Filled(s.recipient_count, e.recipient_count),
                 budget_per_recipient |-> Filled(s.budget_per_recipient, e.budget_per_recipient),
                 total_budget         |-> Filled(s.total_budget, e.total_budget),
                 extras               |-> s.extras \cup e.extras]
<1>1. key \in {"occasion", "recipient_count", "budget_per_recipient", "total_budget"}
  BY DEF EmptySlots
<1>2. m[key] = s[key]
  BY <1>1 DEF Filled
<1>3. /\ MergeSlots(s, e) = Derived(m)
      /\ DOMAIN m = {"occasion", "recipient_count", "budget_per_recipient", "total_budget", "extras"}
  BY DEF MergeSlots
<1> HIDE DEF m
<1>4. Derived(m)[key] = m[key] \/ m[key] = None
  <2>1. CASE Derived(m) = m
    BY <2>1
  <2>2. CASE m.budget_per_recipient = None /\ Derived(m) =
               [m EXCEPT !.budget_per_recipient = RoundHalfEven(m.total_budget, m.recipient_count)]
    BY <1>1, <1>3, <2>2
  <2>3. CASE m.total_budget = None /\ Derived(m) =
               [m EXCEPT !.total_budget = m.budget_per_recipient * m.recipient_count]
    BY <1>1, <1>3, <2>3
  <2> QED BY <2>1, <2>2, <2>3, Zenon DEF Derived
<1> QED BY <1>2, <1>3, <1>4

\* A refinement never unsets what a search needs: it replaces a budget by a number.
LEMMA RefinementKeepsSufficient ==
    ASSUME AgentAssumption, NEW s \in SlotRecords, NEW r \in Refinements, IsSufficientForSearch(s)
    PROVE  IsSufficientForSearch(ApplyRefinement(s, r.adjustment, r.value))
<1> USE DEF IsSufficientForSearch, HasBudgetSignal
<1>1. CASE r.adjustment \in {"cheaper", "pricier"} /\ r.value # None
  BY <1>1 DEF ApplyRefinement, ExplicitBudget, SlotRecords
<1>2. CASE r.adjustment \in {"cheaper", "pricier"} /\ r.value = None
  <2>1. ASSUME NEW amount \in Int PROVE Nudged(amount, r.adjustment) # None
    BY <2>1, NudgeType DEF AgentAssumption
  <2>2. s.budget_per_recipient # None => Nudged(s.budget_per_recipient, r.adjustment) # None
    BY <2>1 DEF SlotRecords
  <2>3. s.total_budget # None => Nudged(s.total_budget, r.adjustment) # None
    BY <2>1 DEF SlotRecords
  <2> QED BY <1>2, <2>2, <2>3 DEF ApplyRefinement, NudgeBudget, SlotRecords
<1>3. CASE r.adjustment \in {"more_recipients", "fewer_recipients"}
  BY <1>3 DEF ApplyRefinement, SlotRecords
<1>4. CASE r.adjustment \in {"theme_change", "branding_change"}
  BY <1>4 DEF ApplyRefinement, SlotRecords
<1>5. CASE r.adjustment \notin {"cheaper", "pricier", "more_recipients", "fewer_recipients",
                                "theme_change", "branding_change"}
  BY <1>5 DEF ApplyRefinement
<1> QED BY <1>1, <1>2, <1>3, <1>4, <1>5

\* No later answer changes what an earlier one established, whatever the model
\* extracts from it.
THEOREM NoAnswerIsOverwritten == Spec => AnswersAreKept
<1>1. AgentAssumption
  BY AgentAssumption
<1> DEFINE Kept == node = "collect_requirements" /\ node' # "idle" =>
                     \A key \in DOMAIN EmptySlots \ {"extras"} :
                        turn.slots[key] # None => turn'.slots[key] = turn.slots[key]
<1>2. IInv /\ [Next]_vars => [Kept]_vars
  <2> SUFFICES ASSUME IInv, Next, node = "collect_requirements", node' # "idle",
                      NEW key \in DOMAIN EmptySlots \ {"extras"}, turn.slots[key] # None
               PROVE  turn'.slots[key] = turn.slots[key] \/ UNCHANGED vars
    BY Zenon
  <2>1. turn \in TurnStates /\ turn.slots \in SlotRecords
    BY DEF IInv, TypeInv, TurnStates
  <2>2. CollectAndAsk \/ CollectAndSearch \/ UNCHANGED vars
    BY DEF Next, Step, ReceiveText, ReceiveTap, Receive, Finished, Fail, Greet, RouteTap, RouteText,
           RouteNewRequest, Smalltalk, RouteToSlots, SearchCatalog, CurateNothing, Curate,
           PresentOptions, HandleRefinement, FinalizeSelection, AskToTap, Dispatch, Dispatched, Save
  <2>3. ASSUME CollectAndAsk \/ CollectAndSearch
        PROVE  \E e \in Extractions : turn'.slots = MergeSlots(turn.slots, e)
    <3>1. \E e \in Extractions :
            \/ turn' = Say([turn EXCEPT !.slots = MergeSlots(turn.slots, e), !.stage = "slot_filling"])
            \/ turn' = [turn EXCEPT !.slots = MergeSlots(turn.slots, e), !.stage = "searching"]
      BY <2>3 DEF CollectAndAsk, CollectAndSearch, Goto
    <3> QED BY <2>1, <3>1 DEF Say, TurnStates
  <2>4. ASSUME NEW e \in Extractions, turn'.slots = MergeSlots(turn.slots, e)
        PROVE  turn'.slots[key] = turn.slots[key]
    BY <1>1, <2>1, <2>4, MergeKeeps DEF AgentAssumption
  <2> QED BY <2>2, <2>3, <2>4
<1> QED BY <1>2, TurnsKeepInvariant, PTL DEF Spec, AnswersAreKept

\* A refinement leaves a search possible that was possible before.
THEOREM NoRequirementIsLost == Spec => RequirementsSurviveRefinement
<1>1. AgentAssumption
  BY AgentAssumption
<1> DEFINE Survive == node = "handle_refinement" /\ node' = "search_catalog" =>
              (IsSufficientForSearch(turn.slots) => IsSufficientForSearch(turn'.slots))
<1>2. IInv /\ [Next]_vars => [Survive]_vars
  <2> SUFFICES ASSUME IInv, Next, node = "handle_refinement", node' = "search_catalog",
                      IsSufficientForSearch(turn.slots)
               PROVE  IsSufficientForSearch(turn'.slots)
    BY Zenon
  <2>1. turn \in TurnStates /\ turn.slots \in SlotRecords
    BY DEF IInv, TypeInv, TurnStates
  <2>2. HandleRefinement
    BY DEF Next, Step, ReceiveText, ReceiveTap, Receive, Finished, Fail, Greet, RouteTap, RouteText,
           RouteNewRequest, Smalltalk, RouteToSlots, CollectAndAsk, CollectAndSearch, SearchCatalog,
           CurateNothing, Curate, PresentOptions, FinalizeSelection, AskToTap, Dispatch, Dispatched,
           Save, vars
  <2>3. PICK r \in Refinements :
          turn' = Say([turn EXCEPT !.stage = "refining",
                        !.slots = ApplyRefinement(turn.slots, r.adjustment, r.value)])
    BY <2>2 DEF HandleRefinement, Goto
  <2>4. turn'.slots = ApplyRefinement(turn.slots, r.adjustment, r.value)
    <3> DEFINE slots == ApplyRefinement(turn.slots, r.adjustment, r.value)
    <3>1. turn' = Say([turn EXCEPT !.stage = "refining", !.slots = slots])
      BY <2>3
    <3> HIDE DEF slots
    <3> QED BY <2>1, <3>1 DEF Say, TurnStates, slots
  <2> QED BY <1>1, <2>1, <2>4, RefinementKeepsSufficient
<1> QED BY <1>2, TurnsKeepInvariant, PTL DEF Spec, RequirementsSurviveRefinement
=============================================================================
