---------------------------- MODULE Conversations ----------------------------
(***************************************************************************)
(* How WhatsApp messages reach the agent: Meta posts them to the webhook   *)
(* (app/api/webhook.py), which answers 200 and runs one background task    *)
(* per message, one after the other; each task is one turn of              *)
(* ConversationOrchestrator in one transaction over the row of             *)
(* conversation_sessions that belongs to the sender's number               *)
(* (SessionRepository).  Several posts are handled at the same time.       *)
(*                                                                         *)
(* What a turn says and decides is the business of AgentTurn; here the     *)
(* saved state is the sequence of turns it has grown from.  A turn is      *)
(* named <<d, i>>: the i-th message of post d.  A message Meta delivers    *)
(* twice is in two posts; the code never looks at its id.                  *)
(***************************************************************************)
EXTENDS WhatsApp, Lists, FiniteSets

CONSTANTS
    Posts,          \* the webhook requests Meta may send, each at most once
    Bodies,         \* post |-> [signed, json, entries]; see WhatsApp
    Numbers,        \* WhatsApp numbers
    Returning,      \* numbers that have a session at the start
    Sequential,     \* numbers that are sent no message while one is worked on
    None            \* no post holds the lock

\* What parse_inbound makes of a post.
Batch == [d \in Posts |-> ParseInbound(Bodies[d].entries)]

\* The body is JSON: a list of entries, each a list of changes, and each of them
\* with a list of messages and one of delivery reports.
IsBody(entries) ==
    /\ IsList(entries)
    /\ \A e \in ToSet(entries) : IsList(e) /\ \A c \in ToSet(e) : IsList(c.messages) /\ IsList(c.statuses)

ASSUME PostAssumption ==
    /\ \A d \in Posts : IsBody(Bodies[d].entries)
    /\ \A d \in Posts : \A i \in DOMAIN Batch[d] : Batch[d][i].number \in Numbers
    /\ Returning \subseteq Numbers
    /\ Sequential \subseteq Numbers
    /\ None \notin Posts \cup Numbers

Turns == UNION {{<<d, i>> : i \in DOMAIN Batch[d]} : d \in Posts}

\* A row is named by the turn that inserted it, a row there from the start by
\* its number.
FirstRow(n) == <<n, 0>>
NoRow == <<None, 0>>
RowIds == Turns \cup {FirstRow(n) : n \in Returning}

VARIABLES
    sessions,   \* number |-> its committed rows
    state,      \* row |-> the committed session_state
    rowLock,    \* row |-> the post whose transaction has updated it
    phase,      \* post |-> where its background task is
    at,         \* post |-> the message at hand
    row,        \* post |-> the row get_or_create returned
    memory,     \* post |-> the agent state of the turn
    sent,       \* turns whose answer was dispatched (a failing send is logged only)
    finished    \* number |-> its committed turns, in commit order

table == <<sessions, state>>
vars  == <<sessions, state, rowLock, phase, at, row, memory, sent, finished>>

Running == {"queued", "loading", "answering", "saving", "committing"}

TypeOK ==
    /\ \A n \in Numbers : sessions[n] \subseteq RowIds
    /\ \A id \in RowIds : \A i \in DOMAIN state[id] : state[id][i] \in Turns
    /\ rowLock \in [RowIds -> Posts \cup {None}]
    /\ phase \in [Posts -> {"expected", "refused", "ended", "lost"} \cup Running]
    /\ \A d \in Posts : at[d] \in 0 .. Len(Batch[d])
    /\ row \in [Posts -> RowIds \cup {NoRow}]
    /\ \A d \in Posts : phase[d] \in {"loading", "answering", "saving"} => row[d] # NoRow
    /\ \A d \in Posts : phase[d] = "committing" => rowLock[row[d]] = d
    /\ sent \subseteq Turns

Init ==
    /\ sessions = [n \in Numbers |-> IF n \in Returning THEN {FirstRow(n)} ELSE {}]
    /\ state = [id \in RowIds |-> <<>>]
    /\ rowLock = [id \in RowIds |-> None]
    /\ phase = [d \in Posts |-> "expected"]
    /\ at = [d \in Posts |-> 0]
    /\ row = [d \in Posts |-> NoRow]
    /\ memory = [d \in Posts |-> <<>>]
    /\ sent = {}
    /\ finished = [n \in Numbers |-> <<>>]
-----------------------------------------------------------------------------
Message(d)  == Batch[d][at[d]]
NumberOf(d) == Message(d).number
ThisTurn(d) == <<d, at[d]>>

NumbersIn(d) == {Batch[d][i].number : i \in DOMAIN Batch[d]}

\* A wrong signature or no JSON: nothing of the post is looked at.
Refuse(d) ==
    /\ phase[d] = "expected" /\ PostAnswer(Bodies[d]) # 200
    /\ phase' = [phase EXCEPT ![d] = "refused"]
    /\ UNCHANGED <<table, rowLock, at, row, memory, sent, finished>>

\* receive_webhook: parse, queue one task per message, answer 200.
Receive(d) ==
    /\ phase[d] = "expected" /\ PostAnswer(Bodies[d]) = 200
    /\ \A e \in Posts :
         phase[e] \in Running => NumbersIn(d) \cap NumbersIn(e) \cap Sequential = {}
    /\ Batch[d] # <<>>
    /\ phase' = [phase EXCEPT ![d] = "queued"]
    /\ at' = [at EXCEPT ![d] = 1]
    /\ UNCHANGED <<table, rowLock, row, memory, sent, finished>>

\* Mutant of NextTask: the transaction is left open.
NextTaskKeepingLock(d) ==
    /\ phase' = [phase EXCEPT ![d] = IF at[d] < Len(Batch[d]) THEN "queued" ELSE "ended"]
    /\ at' = [at EXCEPT ![d] = IF @ < Len(Batch[d]) THEN @ + 1 ELSE @]
    /\ row' = [row EXCEPT ![d] = NoRow]
    /\ memory' = [memory EXCEPT ![d] = <<>>]
    /\ UNCHANGED rowLock

\* The transaction of a turn ends and the next background task is up.
NextTask(d) ==
    /\ phase' = [phase EXCEPT ![d] = IF at[d] < Len(Batch[d]) THEN "queued" ELSE "ended"]
    /\ at' = [at EXCEPT ![d] = IF @ < Len(Batch[d]) THEN @ + 1 ELSE @]
    /\ row' = [row EXCEPT ![d] = NoRow]
    /\ memory' = [memory EXCEPT ![d] = <<>>]
    /\ rowLock' = [id \in RowIds |-> IF rowLock[id] = d THEN None ELSE rowLock[id]]

\* An exception leaves get_session(), which rolls back, and _handle_safely
\* swallows it.
Raise(d) == NextTask(d) /\ UNCHANGED <<table, sent, finished>>

\* handle_inbound: status updates, images and the like are not for the agent.
Skip(d) ==
    /\ phase[d] = "queued" /\ ~IsActionable(Message(d))
    /\ Raise(d)

\* Mutant of Visible: the lookup never matches what is stored.
VisibleOnlyOwn(d) == IF row[d] = ThisTurn(d) THEN {row[d]} ELSE {}

\* The rows SELECT ... WHERE whatsapp_number = ... returns in this transaction:
\* the committed ones and the one it has inserted itself.
Visible(d) ==
    sessions[NumberOf(d)] \cup (IF row[d] = ThisTurn(d) THEN {row[d]} ELSE {})

\* scalar_one_or_none raises when there is more than one row.
Ambiguous(d) == Cardinality(Visible(d)) > 1

LookupRaises(d) ==
    /\ phase[d] \in {"queued", "loading", "saving"}
    /\ phase[d] = "queued" => IsActionable(Message(d))
    /\ Ambiguous(d)
    /\ Raise(d)

\* Mutant of GetOrCreate: a session starts over with every message.
GetForgettingState(d) ==
    /\ phase[d] = "queued" /\ IsActionable(Message(d)) /\ ~Ambiguous(d)
    /\ \E id \in IF Visible(d) = {} THEN {ThisTurn(d)} ELSE Visible(d) :
         row' = [row EXCEPT ![d] = id]
    /\ phase' = [phase EXCEPT ![d] = "loading"]
    /\ UNCHANGED <<table, rowLock, at, memory, sent, finished>>

\* get_or_create: the row of the number with the state it has now, or a new
\* row, INSERTed at once and seen by others after the COMMIT.
GetOrCreate(d) ==
    /\ phase[d] = "queued" /\ IsActionable(Message(d)) /\ ~Ambiguous(d)
    /\ \E id \in IF Visible(d) = {} THEN {ThisTurn(d)} ELSE Visible(d) :
         /\ row' = [row EXCEPT ![d] = id]
         /\ memory' = [memory EXCEPT ![d] = state[id]]
    /\ phase' = [phase EXCEPT ![d] = "loading"]
    /\ UNCHANGED <<table, rowLock, at, sent, finished>>

\* load_state selects again: the row is in the session already and keeps the
\* state it was read with.
LoadState(d) ==
    /\ phase[d] = "loading" /\ ~Ambiguous(d)
    /\ phase' = [phase EXCEPT ![d] = "answering"]
    /\ UNCHANGED <<table, rowLock, at, row, memory, sent, finished>>

\* Mutant of Answer: the messages stay queued.
AnswerUnsent(d) ==
    /\ phase[d] = "answering"
    /\ memory' = [memory EXCEPT ![d] = Append(@, ThisTurn(d))]
    /\ phase' = [phase EXCEPT ![d] = "saving"]
    /\ UNCHANGED <<table, rowLock, at, row, sent, finished>>

\* The graph runs and what it queued is dispatched.
Answer(d) ==
    /\ phase[d] = "answering"
    /\ memory' = [memory EXCEPT ![d] = Append(@, ThisTurn(d))]
    /\ sent' = sent \cup {ThisTurn(d)}
    /\ phase' = [phase EXCEPT ![d] = "saving"]
    /\ UNCHANGED <<table, rowLock, at, row, finished>>

\* Mutant of SaveState: the row is written without waiting for its lock.
SaveStateUnlocked(d) ==
    /\ phase[d] = "saving" /\ ~Ambiguous(d)
    /\ rowLock' = [rowLock EXCEPT ![row[d]] = d]
    /\ phase' = [phase EXCEPT ![d] = "committing"]
    /\ UNCHANGED <<table, at, row, memory, sent, finished>>

\* save_state selects once more and flushes the UPDATE, which waits until no
\* other transaction has updated the row and then overwrites what it wrote.
SaveState(d) ==
    /\ phase[d] = "saving" /\ ~Ambiguous(d)
    /\ rowLock[row[d]] = None
    /\ rowLock' = [rowLock EXCEPT ![row[d]] = d]
    /\ phase' = [phase EXCEPT ![d] = "committing"]
    /\ UNCHANGED <<table, at, row, memory, sent, finished>>

Commit(d) ==
    /\ phase[d] = "committing"
    /\ sessions' = [sessions EXCEPT ![NumberOf(d)] = @ \cup {row[d]}]
    /\ state' = [state EXCEPT ![row[d]] = memory[d]]
    /\ finished' = [finished EXCEPT ![NumberOf(d)] = Append(@, ThisTurn(d))]
    /\ NextTask(d)
    /\ UNCHANGED sent

\* A model call, a search or a statement of the transaction raises.
Fail(d) ==
    /\ phase[d] \in Running
    /\ phase[d] = "queued" => IsActionable(Message(d))
    /\ Raise(d)

\* The server dies: open transactions are rolled back and the tasks in its
\* memory are gone.  Meta has had its 200 and does not post them again.
Crash ==
    /\ \E d \in Posts : phase[d] \in Running
    /\ phase' = [d \in Posts |-> IF phase[d] \in Running THEN "lost" ELSE phase[d]]
    /\ row' = [d \in Posts |-> NoRow]
    /\ memory' = [d \in Posts |-> <<>>]
    /\ rowLock' = [id \in RowIds |-> None]
    /\ UNCHANGED <<table, at, sent, finished>>

Proceed(d) ==
    \/ Skip(d) \/ LookupRaises(d) \/ GetOrCreate(d) \/ LoadState(d)
    \/ Answer(d) \/ SaveState(d) \/ Commit(d)

\* Nothing is being worked on.
Quiet == (\A d \in Posts : phase[d] \notin Running) /\ UNCHANGED vars

Next == (\E d \in Posts : Refuse(d) \/ Receive(d) \/ Proceed(d) \/ Fail(d)) \/ Crash \/ Quiet

Spec == Init /\ [][Next]_vars

\* The event loop runs every task on; nothing has to be posted or to fail.
FairSpec == Spec /\ \A d \in Posts : WF_vars(Proceed(d))
-----------------------------------------------------------------------------
\* No second row appears for a number that has one, whatever its turns overlap
\* with, nor for a number whose turns do not overlap.
SettledNumbersKeepOneSession ==
    \A n \in Returning \cup Sequential : Cardinality(sessions[n]) <= 1

\* load_agent_state resumes exactly where the conversation left off: the saved
\* state has grown from every committed turn of the number, each once and in
\* order, whatever turns failed or were lost in between.
ResumesWhereItLeftOff ==
    \A n \in Sequential : \A id \in sessions[n] : state[id] = finished[n]

\* The state is persisted after the outbound sends: it never remembers a turn
\* whose answer was still to be dispatched, wherever the server died.
AnsweredBeforeSaved ==
    \A n \in Numbers : \A id \in sessions[n] : \A i \in DOMAIN state[id] :
        state[id][i] \in sent

\* Every post that was acknowledged is worked off or lost in a crash, also
\* when turns of one number wait for each other's row.
EveryPostEnds == \A d \in Posts : phase[d] \in Running ~> phase[d] \in {"ended", "lost"}
=============================================================================
