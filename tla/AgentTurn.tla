------------------------------ MODULE AgentTurn ------------------------------
(***************************************************************************)
(* One WhatsApp conversation, one turn after another: an inbound message   *)
(* is loaded over the persisted state (services/session_service.py), runs  *)
(* through the nodes of the graph (agent/graph.py), and what the graph     *)
(* queued is sent before the new state is saved                            *)
(* (services/conversation_orchestrator.py).  The language model and the    *)
(* search may answer anything their schemas allow.                         *)
(***************************************************************************)
EXTENDS GiftSlots, WhatsApp, Lists, FiniteSets

CONSTANTS
    Extractions,    \* what slot extraction may return: records like Slots
    Refinements,    \* what refinement interpretation may return
    SearchResults,  \* what the hybrid search may return: sets of items
    Rankings,       \* what curation may return: sequences of items
    MoreOptions,    \* the payloads of the two buttons of present_options
    RefineMenu,
    MaxTurns        \* bound on the number of inbound messages

\* A candidate, shortlist entry or list row: ref_id is the catalog id of a
\* product or gift box, but for a web idea its index in that search's result;
\* gift is what the row describes, image whether there is a picture of it.
Items == (UNION SearchResults) \cup UNION {{seq[i] : i \in DOMAIN seq} : seq \in Rankings}

\* What can be tapped: list rows, which are the items themselves, and buttons.
Buttons == {MoreOptions, RefineMenu}

\* What extraction returns and the requirements grow into: numbers are numbers
\* of the schema, of any size and sign.
SlotRecords ==
    [occasion : {e.occasion : e \in Extractions} \cup {None}, recipient_count : Int \cup {None},
     budget_per_recipient : Int \cup {None}, total_budget : Int \cup {None}, extras : SUBSET Extras]

ASSUME AgentAssumption ==
    /\ None \notin Int /\ None \notin Items \cup Buttons
    /\ Extractions \subseteq SlotRecords
    /\ \A r \in Refinements :
         r.adjustment \in {"cheaper", "pricier", "more_recipients", "fewer_recipients"} =>
            r.value \in Int \cup {None}
    /\ \A ranking \in Rankings : IsList(ranking)
    /\ MaxTurns \in Nat

\* Declared too is "finalizing", which no node sets.
Stages      == {"greeting", "slot_filling", "searching", "curating",
                "presenting", "refining", "done"}
SavedStages == {"slot_filling", "presenting", "done"}
Nodes       == {"idle", "route_intent", "collect_requirements", "search_catalog",
                "curate_recommendations", "present_options", "handle_refinement",
                "finalize_selection", "dispatch", "save"}

VARIABLES
    saved,      \* conversation_sessions.session_state, None before the first save
    turn,       \* the AgentState of the turn under way
    node,       \* the node about to run, "idle" between turns
    chat,       \* rows and buttons on the user's phone: WhatsApp keeps them tappable
    selections, \* selection_confirmed rows logged for the shortlist last logged
    turns       \* inbound messages so far

vars == <<saved, turn, node, chat, selections, turns>>

\* The part of the state that is persisted.
Fresh == [stage |-> "greeting", slots |-> EmptySlots, candidates |-> {}, shortlist |-> <<>>]
\* next is the first of the queued messages that was not sent yet.
Turn(state, pending) ==
    [stage |-> state.stage, slots |-> state.slots, candidates |-> state.candidates,
     shortlist |-> state.shortlist, pending |-> pending, outbound |-> <<>>, next |-> 1,
     curated |-> FALSE, confirmed |-> None]
NoTurn == Turn(Fresh, None)

TypeOK ==
    /\ saved = None \/ saved.stage \in SavedStages
    /\ turn.stage \in Stages
    /\ turn.candidates \subseteq Items
    /\ \A i \in DOMAIN turn.outbound :
         turn.outbound[i].kind \in {"text", "interactive_list", "interactive_buttons", "image"}
    /\ turn.next \in 1 .. Len(turn.outbound) + 1
    /\ node \in Nodes
    /\ chat \subseteq Items \cup Buttons
    /\ selections \in Nat
    /\ turns \in 0 .. MaxTurns

Init ==
    /\ saved = None
    /\ turn = NoTurn
    /\ node = "idle"
    /\ chat = {}
    /\ selections = 0
    /\ turns = 0
-----------------------------------------------------------------------------
\* Mutant of LoadAgentState: a finished conversation is resumed as it was.
LoadFinishedToo(s) == IF s = None THEN Fresh ELSE s

\* load_agent_state: a finished gifting need makes room for a new one.
LoadAgentState(s) ==
    IF s = None THEN Fresh
    ELSE IF s.stage = "done" THEN [Fresh EXCEPT !.stage = "slot_filling"]
    ELSE s

\* What Meta posts of this user: a text, or a tap on a row or a button.
Inbound(type, reply, payload) == Normalized([from |-> None, type |-> type, reply |-> reply, payload |-> payload])

\* _apply_inbound: the payload counts when the message is a tap.
Pending(message) ==
    IF message.message_type \in {"interactive_button_reply", "interactive_list_reply"}
    THEN message.payload ELSE None

Receive(message) ==
    /\ node = "idle"
    /\ turns < MaxTurns
    /\ IsActionable(message)
    /\ turn' = Turn(LoadAgentState(saved), Pending(message))
    /\ node' = "route_intent"
    /\ turns' = turns + 1
    /\ UNCHANGED <<saved, chat, selections>>

ReceiveText == Receive(Inbound("text", None, None))
ReceiveTap ==
    \E tapped \in chat :
        Receive(Inbound("interactive", IF tapped \in Items THEN "list_reply" ELSE "button_reply", tapped))

\* A node hands over to the next one with the state it returns.
Goto(next, state) ==
    /\ node' = next
    /\ turn' = state
    /\ UNCHANGED <<saved, chat, selections, turns>>

\* A node that queues one text and ends the turn.
Say(state) == [state EXCEPT !.outbound = Append(@, TextBody)]

\* route_intent, decided by the stage and the tapped payload.
Greet ==
    /\ node = "route_intent" /\ turn.stage = "greeting"
    /\ Goto("dispatch", Say([turn EXCEPT !.stage = "slot_filling"]))

RouteTap ==
    /\ node = "route_intent" /\ turn.stage # "greeting" /\ turn.pending # None
    /\ \/ turn.pending \in Items /\ Goto("finalize_selection", turn)
       \/ turn.pending = MoreOptions /\ Goto("present_options", turn)
       \/ turn.pending = RefineMenu /\ Goto("handle_refinement", turn)

\* The model classifies free text only when a shortlist was presented.
RouteText ==
    /\ node = "route_intent" /\ turn.pending = None
    /\ turn.stage \in {"presenting", "refining"}
    /\ \/ Goto("handle_refinement", turn)
       \/ Goto("finalize_selection", turn)
       \/ Goto("collect_requirements", turn)

RouteNewRequest ==
    /\ node = "route_intent" /\ turn.pending = None
    /\ turn.stage \in {"presenting", "refining"}
    /\ Goto("collect_requirements", [turn EXCEPT !.stage = "slot_filling",
                                                 !.slots = EmptySlots])

Smalltalk ==
    /\ node = "route_intent" /\ turn.pending = None
    /\ turn.stage \in {"presenting", "refining"}
    /\ Goto("dispatch", Say(turn))

RouteToSlots ==
    /\ node = "route_intent" /\ turn.pending = None
    /\ turn.stage \notin {"greeting", "presenting", "refining"}
    /\ Goto("collect_requirements", turn)

\* collect_requirements: extract, merge, then search or ask the next question.
CollectAndAsk ==
    /\ node = "collect_requirements"
    /\ \E e \in Extractions :
         LET slots == MergeSlots(turn.slots, e) IN
         /\ ~IsSufficientForSearch(slots)
         /\ Goto("dispatch", Say([turn EXCEPT !.slots = slots, !.stage = "slot_filling"]))

CollectAndSearch ==
    /\ node = "collect_requirements"
    /\ \E e \in Extractions :
         LET slots == MergeSlots(turn.slots, e) IN
         /\ IsSufficientForSearch(slots)
         /\ Goto("search_catalog", [turn EXCEPT !.slots = slots, !.stage = "searching"])

SearchCatalog ==
    /\ node = "search_catalog"
    /\ \E found \in SearchResults :
         Goto("curate_recommendations",
              [turn EXCEPT !.candidates = found, !.stage = "curating"])

\* The entries of a ranking that name a real candidate, in rank order.
Validated(ranking, candidates) == Filtered(ranking, candidates)

\* Mutant of CurateNothing: the shortlist of the last search stays.
CurateNothingKeepingShortlist ==
    /\ node = "curate_recommendations"
    /\ \/ turn.candidates = {}
       \/ \E ranking \in Rankings : Validated(ranking, turn.candidates) = <<>>
    /\ Goto("dispatch", Say([turn EXCEPT !.stage = "slot_filling"]))

\* Mutant of CurateNothing: the stage is left at "curating".
CurateNothingKeepingStage ==
    /\ node = "curate_recommendations"
    /\ \/ turn.candidates = {}
       \/ \E ranking \in Rankings : Validated(ranking, turn.candidates) = <<>>
    /\ Goto("dispatch", Say([turn EXCEPT !.shortlist = <<>>]))

\* Mutant of CurateNothing: the graph searches again.
CurateNothingSearchingAgain ==
    /\ node = "curate_recommendations"
    /\ \/ turn.candidates = {}
       \/ \E ranking \in Rankings : Validated(ranking, turn.candidates) = <<>>
    /\ Goto("search_catalog", [turn EXCEPT !.stage = "searching", !.shortlist = <<>>])

\* Nothing found, or nothing left of what the model named.
CurateNothing ==
    /\ node = "curate_recommendations"
    /\ \/ turn.candidates = {}
       \/ \E ranking \in Rankings : Validated(ranking, turn.candidates) = <<>>
    /\ Goto("dispatch", Say([turn EXCEPT !.stage = "slot_filling", !.shortlist = <<>>]))

Curate ==
    /\ node = "curate_recommendations" /\ turn.candidates # {}
    /\ \E ranking \in Rankings :
         LET shortlist == Validated(ranking, turn.candidates) IN
         /\ shortlist # <<>>
         /\ Goto("present_options", [turn EXCEPT !.stage = "presenting",
                                                 !.shortlist = shortlist,
                                                 !.curated = TRUE])

\* "From our catalog" and "More ideas".
ListMessage(shortlist) ==
    LET ideas == {item \in Items : item.kind = "web_idea"} IN
    ListBody(<<Filtered(shortlist, Items \ ideas), Filtered(shortlist, ideas)>>)

ImageMessages(shortlist) ==
    LET pictured == Filtered(shortlist, {item \in Items : item.image})
    IN [i \in 1 .. (IF Len(pictured) < MaxImages THEN Len(pictured) ELSE MaxImages) |-> ImageBody]

\* present_options: an intro, the list, the two buttons and some images.
PresentOptions ==
    /\ node = "present_options"
    /\ Goto("dispatch", [turn EXCEPT !.stage = "presenting",
                !.outbound = @ \o <<TextBody, ListMessage(turn.shortlist),
                                     ButtonBody(<<MoreOptions, RefineMenu>>)>>
                               \o ImageMessages(turn.shortlist)])

\* handle_refinement: adjust the slots and search again.
HandleRefinement ==
    /\ node = "handle_refinement"
    /\ \E refinement \in Refinements :
         Goto("search_catalog",
              Say([turn EXCEPT !.stage = "refining",
                               !.slots = ApplyRefinement(turn.slots, refinement.adjustment,
                                                         refinement.value)]))

\* _resolve_selected_gift: the first shortlist entry with the tapped kind and
\* ref_id; failing that, and for free text, the top of a presented shortlist.
SameRow(a, b) == a.kind = b.kind /\ a.ref_id = b.ref_id

ResolveSelectedGift(t) ==
    LET hits == IF t.pending \in Items
                THEN Filtered(t.shortlist, {item \in Items : SameRow(item, t.pending)})
                ELSE <<>>
    IN  IF hits # <<>> THEN hits[1]
        ELSE IF t.shortlist # <<>> /\ t.stage = "presenting" THEN t.shortlist[1]
        ELSE None

FinalizeSelection ==
    /\ node = "finalize_selection"
    /\ LET selected == ResolveSelectedGift(turn) IN
         /\ selected # None
         /\ Goto("dispatch", Say([turn EXCEPT !.stage = "done", !.confirmed = selected]))

AskToTap ==
    /\ node = "finalize_selection"
    /\ ResolveSelectedGift(turn) = None
    /\ Goto("dispatch", Say(turn))

\* _send_one: what the user can tap once the message is there.
SendOne(body) ==
    \E arrives \in Outcomes(body) :
        chat' = IF arrives THEN chat \cup ToSet(body.tappable) ELSE chat

\* _dispatch_outbound, one message after the other: a send that fails is logged
\* and skipped.
Dispatch ==
    /\ node = "dispatch" /\ turn.next <= Len(turn.outbound)
    /\ SendOne(turn.outbound[turn.next])
    /\ turn' = [turn EXCEPT !.next = @ + 1]
    /\ UNCHANGED <<saved, node, selections, turns>>

Dispatched ==
    /\ node = "dispatch" /\ turn.next > Len(turn.outbound)
    /\ node' = "save"
    /\ UNCHANGED <<saved, turn, chat, selections, turns>>

\* serialize_agent_state, save_state and the COMMIT, which also writes the
\* rows curation and finalization logged in this transaction.
Save ==
    /\ node = "save"
    /\ node' = "idle"
    /\ saved' = [stage |-> turn.stage, slots |-> turn.slots,
                 candidates |-> turn.candidates, shortlist |-> turn.shortlist]
    /\ selections' = IF turn.confirmed # None THEN selections + 1
                     ELSE IF turn.curated THEN 0 ELSE selections
    /\ turn' = NoTurn
    /\ UNCHANGED <<chat, turns>>

\* A model, search or database call raises, and _handle_safely swallows the
\* exception, or the server dies: the turn is rolled back.  What was sent stays
\* sent.
Fail ==
    /\ node # "idle"
    /\ node' = "idle"
    /\ turn' = NoTurn
    /\ UNCHANGED <<saved, chat, selections, turns>>

\* The user has no more to say.
Finished == node = "idle" /\ turns = MaxTurns /\ UNCHANGED vars

Step ==
    \/ Greet \/ RouteTap \/ RouteText \/ RouteNewRequest \/ Smalltalk \/ RouteToSlots
    \/ CollectAndAsk \/ CollectAndSearch \/ SearchCatalog
    \/ CurateNothing \/ Curate \/ PresentOptions \/ HandleRefinement
    \/ FinalizeSelection \/ AskToTap \/ Dispatch \/ Dispatched \/ Save

Next == ReceiveText \/ ReceiveTap \/ Step \/ Fail \/ Finished

Spec == Init /\ [][Next]_vars

\* The event loop runs a turn on to its end.
FairSpec == Spec /\ WF_vars(Step)
-----------------------------------------------------------------------------
\* The defence against invented ids: every gift of the shortlist that is kept
\* between turns is one of the candidates kept with it, whatever the model
\* ranked and whichever searches came back empty since.
ShortlistIsReal ==
    saved # None =>
        {saved.shortlist[i] : i \in DOMAIN saved.shortlist} \subseteq saved.candidates

\* merge_slots never silently overwrites a confirmed value: what one answer
\* established, a later answer in the same gifting need does not change.
AnswersAreKept ==
    [][node = "collect_requirements" /\ node' # "idle" =>
          \A key \in DOMAIN EmptySlots \ {"extras"} :
              turn.slots[key] # None => turn'.slots[key] = turn.slots[key]]_vars

\* Refinements adjust requirements and never lose one: once a search was
\* possible it stays possible until the need is finished or replaced.
RequirementsSurviveRefinement ==
    [][node = "handle_refinement" /\ node' = "search_catalog" =>
          (IsSufficientForSearch(turn.slots) => IsSufficientForSearch(turn'.slots))]_vars

\* The sales team gets one selection per shortlist, however often the user
\* taps it again after the hand-off.
OneSelectionPerShortlist == selections <= 1

\* The graph has no loop a turn could stay in.
EveryTurnEnds == node # "idle" ~> node = "idle"

\* A tap names one gift: the gift noted down is the one on the tapped row
\* (finalize_selection keeps its top-ranked guess for free text).
TapConfirmsTappedGift ==
    turn.confirmed # None /\ turn.pending # None => turn.confirmed.gift = turn.pending.gift
=============================================================================
