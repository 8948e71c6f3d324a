-------------------------- MODULE ConversationsProofs --------------------------
(***************************************************************************)
(* Theorems about Conversations: one session row for a number, which holds *)
(* every turn that was committed, each after its answer was sent.          *)
(***************************************************************************)
EXTENDS Conversations, SequenceFacts, FiniteSetTheorems, TLAPS

\* The phases of a turn that has got its row from get_or_create.
Busy == {"loading", "answering", "saving", "committing"}

Phases == {"expected", "refused", "ended", "lost"} \cup Running

TypeInv ==
    /\ sessions \in [Numbers -> SUBSET RowIds]
    /\ state \in [RowIds -> Seq(Turns)]
    /\ rowLock \in [RowIds -> Posts \cup {None}]
    /\ phase \in [Posts -> Phases]
    /\ at \in [Posts -> Nat]
    /\ \A d \in Posts :
         /\ at[d] <= Len(Batch[d])
         /\ phase[d] \in Running => at[d] >= 1
         /\ phase[d] = "expected" => at[d] = 0
    /\ row \in [Posts -> RowIds \cup {NoRow}]
    /\ \A d \in Posts : row[d] # NoRow <=> phase[d] \in Busy
    /\ memory \in [Posts -> Seq(Turns)]
    /\ sent \in SUBSET Turns
    /\ finished \in [Numbers -> Seq(Turns)]

\* An UPDATE holds its row until its own transaction ends.
RowLocksHeld ==
    /\ \A d \in Posts : phase[d] = "committing" => rowLock[row[d]] = d
    /\ \A id \in RowIds : \A d \in Posts :
         rowLock[id] = d => phase[d] = "committing" /\ row[d] = id

\* The row was inserted for a message of this number.
InsertedFor(n, id) ==
    \/ n \in Returning /\ id = FirstRow(n)
    \/ \E d \in Posts : \E i \in DOMAIN Batch[d] : id = <<d, i>> /\ Batch[d][i].number = n

\* Rows are found by the number they were inserted for, and a turn works on a
\* row it found or on its own.
RowsBelong ==
    /\ \A n \in Numbers : \A id \in sessions[n] : InsertedFor(n, id)
    /\ \A d \in Posts : phase[d] \in Busy => row[d] \in Visible(d)

\* The message <<d, i>> is still to be handled, or at hand.
Ahead(d, i) == i > at[d] \/ (i = at[d] /\ phase[d] \in Running)

\* A turn that is not over has no committed row and has saved nothing.
NothingSavedAhead ==
    \A d \in Posts : \A i \in DOMAIN Batch[d] : Ahead(d, i) =>
        /\ state[<<d, i>>] = <<>>
        /\ \A n \in Numbers : <<d, i>> \notin sessions[n]

\* Sequential numbers have one message worked on at a time.
OneAtATime ==
    \A d, e \in Posts : d # e /\ phase[d] \in Running /\ phase[e] \in Running =>
        NumbersIn(d) \cap NumbersIn(e) \cap Sequential = {}

\* The session of a number: at most one row, whatever the number's turns do, and
\* for a returning number the row it had from the start.  A turn at work adds
\* none to it.
OneRow ==
    /\ \A n \in Returning : sessions[n] = {FirstRow(n)}
    /\ \A n \in Sequential : \A id1, id2 \in sessions[n] : id1 = id2
    /\ \A d \in Posts : phase[d] \in Busy /\ NumberOf(d) \in Returning \cup Sequential =>
         row[d] \in sessions[NumberOf(d)] \/ sessions[NumberOf(d)] = {}

\* The turn at hand knows every committed turn of its number, and itself once it
\* has answered.
TakesItUp(d) ==
    IF phase[d] \in {"loading", "answering"} THEN memory[d] = finished[NumberOf(d)]
    ELSE memory[d] = Append(finished[NumberOf(d)], ThisTurn(d))

\* The conversation as the number's next turn will find it, and as the turn at
\* hand has it.
Continues ==
    /\ ResumesWhereItLeftOff
    /\ \A n \in Sequential : sessions[n] = {} => finished[n] = <<>>
    /\ \A d \in Posts : phase[d] \in Busy /\ NumberOf(d) \in Sequential => TakesItUp(d)

\* Nothing is remembered, committed or not, that was not dispatched first.
RememberedWasSent ==
    /\ \A id \in RowIds : \A i \in DOMAIN state[id] : state[id][i] \in sent
    /\ \A d \in Posts : \A i \in DOMAIN memory[d] : memory[d][i] \in sent

IInv == TypeInv /\ RowLocksHeld /\ RowsBelong /\ NothingSavedAhead /\ OneAtATime
                /\ OneRow /\ Continues /\ RememberedWasSent
-----------------------------------------------------------------------------
\* parse_inbound returns a list, from lists all the way down.
LEMMA ParseInboundIsList ==
    ASSUME NEW entries, IsBody(entries)
    PROVE  IsList(ParseInbound(entries))
<1> DEFINE Messages(c) == Each(Normalized, c.messages) \o Each(StatusUpdate, c.statuses)
           Changes(e) == [i \in DOMAIN e |-> Messages(e[i])]
           Entries == [i \in DOMAIN entries |-> FlattenSeq(Changes(entries[i]))]
<1>1. IsList(entries) /\ \A i \in DOMAIN entries : entries[i] \in ToSet(entries)
  BY DEF IsBody, ToSet
<1>2. ASSUME NEW c, IsList(c.messages), IsList(c.statuses)
      PROVE  IsList(Messages(c))
  <2>1. IsList(Each(Normalized, c.messages))
    <3> DEFINE s == [i \in 1 .. Len(c.messages) |-> Normalized(c.messages[i])]
    <3>1. DOMAIN c.messages = 1 .. Len(c.messages) /\ Len(c.messages) \in Nat
      BY <1>2, ListOf
    <3>2. IsList(s)
      <4>1. s = [i \in 1 .. Len(c.messages) |-> s[i]]
        OBVIOUS
      <4> HIDE DEF s
      <4> QED BY <3>1, <4>1, ListOf
    <3> QED BY <3>1, <3>2, Zenon DEF Each
  <2>2. IsList(Each(StatusUpdate, c.statuses))
    <3> DEFINE s == [i \in 1 .. Len(c.statuses) |-> StatusUpdate(c.statuses[i])]
    <3>1. DOMAIN c.statuses = 1 .. Len(c.statuses) /\ Len(c.statuses) \in Nat
      BY <1>2, ListOf
    <3>2. IsList(s)
      <4>1. s = [i \in 1 .. Len(c.statuses) |-> s[i]]
        OBVIOUS
      <4> HIDE DEF s
      <4> QED BY <3>1, <4>1, ListOf
    <3> QED BY <3>1, <3>2, Zenon DEF Each
  <2> QED BY <2>1, <2>2, ConcatIsList
<1> HIDE DEF Messages
<1>3. ASSUME NEW e, IsList(e), \A c \in ToSet(e) : IsList(c.messages) /\ IsList(c.statuses)
      PROVE  IsList(FlattenSeq(Changes(e)))
  <2>1. DOMAIN e = 1 .. Len(e) /\ Len(e) \in Nat /\ \A i \in DOMAIN e : e[i] \in ToSet(e)
    BY <1>3, ListOf DEF ToSet
  <2>2. /\ Changes(e) = [i \in 1 .. Len(e) |-> Changes(e)[i]]
        /\ DOMAIN Changes(e) = 1 .. Len(e)
        /\ \A i \in DOMAIN Changes(e) : IsList(Changes(e)[i])
    BY <1>2, <1>3, <2>1
  <2> HIDE DEF Changes
  <2>3. IsList(Changes(e))
    BY <2>1, <2>2, ListOf
  <2> QED BY <2>2, <2>3, FlattenSeqIsList
<1>4. /\ Entries = [i \in 1 .. Len(entries) |-> Entries[i]] /\ Len(entries) \in Nat
      /\ \A i \in DOMAIN Entries : IsList(Entries[i])
  <2>1. DOMAIN entries = 1 .. Len(entries) /\ Len(entries) \in Nat
    BY <1>1, ListOf
  <2>2. \A i \in DOMAIN entries : IsList(FlattenSeq(Changes(entries[i])))
    BY <1>1, <1>3 DEF IsBody
  <2> HIDE DEF Changes
  <2> QED BY <2>1, <2>2
<1>5. ParseInbound(entries) = FlattenSeq(Entries)
  BY DEF ParseInbound, Each, Messages
<1> HIDE DEF Entries
<1>6. IsList(Entries)
  BY <1>4, ListOf
<1> QED BY <1>4, <1>5, <1>6, FlattenSeqIsList

\* A post is a list of messages.
LEMMA BatchIsAList ==
    ASSUME NEW d \in Posts
    PROVE  /\ Len(Batch[d]) \in Nat
           /\ DOMAIN Batch[d] = 1 .. Len(Batch[d])
           /\ \A i \in DOMAIN Batch[d] : <<d, i>> \in Turns /\ <<d, i>> \in RowIds
                                         /\ Batch[d][i].number \in Numbers
           /\ Batch[d] = <<>> <=> Len(Batch[d]) = 0
<1>1. Batch[d] \in Seq(ToSet(Batch[d]))
  <2>1. IsList(ParseInbound(Bodies[d].entries))
    BY PostAssumption, ParseInboundIsList
  <2> QED BY <2>1 DEF Batch, IsList
<1>2. Len(Batch[d]) \in Nat /\ DOMAIN Batch[d] = 1 .. Len(Batch[d])
  BY <1>1
<1>3. Batch[d] = <<>> <=> Len(Batch[d]) = 0
  BY <1>1
<1> QED BY <1>2, <1>3, PostAssumption DEF Turns, RowIds

\* The names of rows tell apart the numbers and the messages they are for.
LEMMA RowNames ==
    /\ NoRow \notin RowIds
    /\ \A d \in Posts : \A i \in DOMAIN Batch[d] : \A n \in Numbers : <<d, i>> # FirstRow(n)
    /\ \A m, n \in Numbers : \A id : InsertedFor(m, id) /\ InsertedFor(n, id) => m = n
<1>1. \A d \in Posts : \A i \in DOMAIN Batch[d] : i # 0
  BY BatchIsAList
<1>2. \A d \in Posts : \A i \in DOMAIN Batch[d] : \A n \in Numbers : <<d, i>> # FirstRow(n)
  BY <1>1 DEF FirstRow
<1>3. NoRow \notin RowIds
  BY <1>1, PostAssumption DEF NoRow, RowIds, Turns, FirstRow
<1>4. ASSUME NEW m \in Numbers, NEW n \in Numbers, NEW id, InsertedFor(m, id), InsertedFor(n, id)
      PROVE  m = n
  BY <1>2, <1>4, PostAssumption DEF InsertedFor, FirstRow
<1> QED BY <1>2, <1>3, <1>4

\* A post that is worked on has a message at hand.
LEMMA MessageAtHand ==
    ASSUME TypeInv, NEW d \in Posts, phase[d] \in Running
    PROVE  /\ at[d] \in DOMAIN Batch[d]
           /\ NumberOf(d) \in Numbers
           /\ NumberOf(d) \in NumbersIn(d)
           /\ ThisTurn(d) \in Turns /\ ThisTurn(d) \in RowIds
           /\ NumberOf(d) = Batch[d][at[d]].number
<1>1. at[d] \in DOMAIN Batch[d]
  <2>1. at[d] \in Nat /\ at[d] >= 1 /\ at[d] <= Len(Batch[d])
    BY DEF TypeInv
  <2> QED BY <2>1, BatchIsAList
<1> QED BY <1>1, BatchIsAList DEF NumberOf, Message, NumbersIn, ThisTurn

\* The table starts with one empty row for each returning number.
LEMMA InitHolds == Init => IInv
<1> SUFFICES ASSUME Init PROVE IInv
  OBVIOUS
<1>1. \A n \in Returning : n \in Numbers /\ FirstRow(n) \in RowIds
  BY PostAssumption DEF RowIds
<1>2. <<>> \in Seq(Turns)
  OBVIOUS
<1>3. TypeInv
  <2>1. sessions \in [Numbers -> SUBSET RowIds]
    BY <1>1 DEF Init
  <2>2. \A d \in Posts : at[d] <= Len(Batch[d])
    BY BatchIsAList DEF Init
  <2> QED BY <1>2, <2>1, <2>2 DEF Init, TypeInv, Phases, Running, Busy
<1>4. RowLocksHeld
  BY PostAssumption DEF Init, RowLocksHeld
<1>5. RowsBelong
  BY DEF Init, RowsBelong, InsertedFor, Busy
<1>6. NothingSavedAhead
  BY BatchIsAList, RowNames DEF Init, NothingSavedAhead
<1>7. OneAtATime /\ OneRow
  BY PostAssumption DEF Init, OneAtATime, OneRow, Running, Busy
<1>8. Continues
  BY <1>1, PostAssumption DEF Init, Continues, ResumesWhereItLeftOff, Busy
<1>9. RememberedWasSent
  BY DEF Init, RememberedWasSent
<1> QED BY <1>3, <1>4, <1>5, <1>6, <1>7, <1>8, <1>9 DEF IInv
-----------------------------------------------------------------------------
\* A post is refused, or its messages are queued: nothing has a row yet.
LEMMA PostStep ==
    ASSUME IInv, NEW d \in Posts, Refuse(d) \/ Receive(d)
    PROVE  IInv'
<1>1. /\ TypeInv
      /\ phase[d] = "expected"
      /\ UNCHANGED <<sessions, state, rowLock, row, memory, sent, finished>>
      /\ \E p \in {"refused", "queued"} : phase' = [phase EXCEPT ![d] = p]
      /\ at' = at \/ at' = [at EXCEPT ![d] = 1]
      /\ phase'[d] = "queued" => /\ at'[d] = 1 /\ Len(Batch[d]) >= 1
                                 /\ \A e \in Posts : phase[e] \in Running =>
                                      NumbersIn(d) \cap NumbersIn(e) \cap Sequential = {}
  BY BatchIsAList DEF IInv, TypeInv, Refuse, Receive, table
<1>2. /\ \A e \in Posts \ {d} : phase'[e] = phase[e] /\ at'[e] = at[e]
      /\ phase'[d] \notin Busy /\ phase[d] \notin Busy /\ phase'[d] # "committing"
      /\ at'[d] >= at[d] \/ at'[d] = 1
      /\ phase'[d] \in Running => phase'[d] = "queued"
  BY <1>1 DEF TypeInv, Busy, Running
<1>3. TypeInv'
  <2>0. phase' \in [Posts -> Phases]
    BY <1>1 DEF TypeInv, Phases, Running
  <2>1. at' \in [Posts -> Nat]
    <3>1. at \in [Posts -> Nat]
      BY <1>1 DEF TypeInv
    <3> QED BY <1>1, <3>1
  <2>2. at'[d] <= Len(Batch[d]) /\ (phase'[d] \in Running => at'[d] >= 1)
    <3>1. CASE phase'[d] = "queued"
      BY <1>1, <3>1, BatchIsAList
    <3>2. CASE phase'[d] # "queued"
      <4>1. at' = at
        BY <1>1, <3>2 DEF Refuse, Receive, TypeInv
      <4>2. phase'[d] \notin Running
        BY <1>2, <3>2
      <4> QED BY <1>1, <4>1, <4>2 DEF TypeInv
    <3> QED BY <3>1, <3>2
  <2> QED BY <1>1, <1>2, <2>0, <2>1, <2>2 DEF TypeInv
<1>4. RowLocksHeld'
  BY <1>1, <1>2 DEF IInv, RowLocksHeld, Busy
<1>5. \A e \in Posts : phase'[e] \in Busy =>
          /\ e # d /\ phase[e] = phase'[e] /\ NumberOf(e)' = NumberOf(e)
          /\ ThisTurn(e)' = ThisTurn(e) /\ Visible(e)' = Visible(e)
  BY <1>1, <1>2 DEF NumberOf, Message, ThisTurn, Visible
<1>6. RowsBelong'
  BY <1>1, <1>5 DEF IInv, RowsBelong
<1>7. NothingSavedAhead'
  <2>1. \A i \in DOMAIN Batch[d] : Ahead(d, i)
    <3>1. at[d] = 0
      BY <1>1 DEF TypeInv
    <3> QED BY <3>1, BatchIsAList DEF Ahead
  <2>2. \A e \in Posts \ {d} : \A i \in DOMAIN Batch[e] : Ahead(e, i)' => Ahead(e, i)
    BY <1>2 DEF Ahead
  <2>3. \A e \in Posts : \A i \in DOMAIN Batch[e] : Ahead(e, i)' => Ahead(e, i)
    BY <2>1, <2>2
  <2> QED BY <1>1, <2>3 DEF IInv, NothingSavedAhead
<1>8. OneAtATime'
  BY <1>1, <1>2 DEF IInv, OneAtATime
<1>9. OneRow'
  BY <1>1, <1>5 DEF IInv, OneRow
<1>10. Continues'
  <2>1. \A e \in Posts : phase'[e] \in Busy => (TakesItUp(e)' <=> TakesItUp(e))
    BY <1>1, <1>5 DEF TakesItUp
  <2> QED BY <1>1, <1>5, <2>1 DEF IInv, Continues, ResumesWhereItLeftOff
<1>11. RememberedWasSent'
  BY <1>1 DEF IInv, RememberedWasSent
<1> QED BY <1>3, <1>4, <1>6, <1>7, <1>8, <1>9, <1>10, <1>11 DEF IInv

\* What NextTask writes: the post has let go of its row and its lock, and is at
\* a later message or at none.
LEMMA NextTaskEffect ==
    ASSUME TypeInv, RowLocksHeld, NEW d \in Posts, phase[d] \in Running, NextTask(d)
    PROVE  /\ \A e \in Posts \ {d} : /\ phase'[e] = phase[e] /\ at'[e] = at[e]
                                     /\ row'[e] = row[e] /\ memory'[e] = memory[e]
           /\ \/ phase'[d] = "queued" /\ at'[d] = at[d] + 1 /\ at[d] < Len(Batch[d])
              \/ phase'[d] = "ended" /\ at'[d] = at[d]
           /\ row'[d] = NoRow /\ memory'[d] = <<>>
           /\ phase' \in [Posts -> Phases] /\ at' \in [Posts -> Nat]
           /\ row' \in [Posts -> RowIds \cup {NoRow}] /\ memory' \in [Posts -> Seq(Turns)]
           /\ rowLock' \in [RowIds -> Posts \cup {None}]
           /\ RowLocksHeld'
<1>1. /\ phase' = [phase EXCEPT ![d] = IF at[d] < Len(Batch[d]) THEN "queued" ELSE "ended"]
      /\ at' = [at EXCEPT ![d] = IF @ < Len(Batch[d]) THEN @ + 1 ELSE @]
      /\ row' = [row EXCEPT ![d] = NoRow]
      /\ memory' = [memory EXCEPT ![d] = <<>>]
      /\ rowLock' = [id \in RowIds |-> IF rowLock[id] = d THEN None ELSE rowLock[id]]
  BY DEF NextTask
<1>2. /\ phase \in [Posts -> Phases] /\ at \in [Posts -> Nat]
      /\ row \in [Posts -> RowIds \cup {NoRow}] /\ memory \in [Posts -> Seq(Turns)]
      /\ rowLock \in [RowIds -> Posts \cup {None}]
  BY DEF TypeInv
<1>3. /\ \A e \in Posts \ {d} : /\ phase'[e] = phase[e] /\ at'[e] = at[e]
                                /\ row'[e] = row[e] /\ memory'[e] = memory[e]
      /\ row'[d] = NoRow /\ memory'[d] = <<>>
  BY <1>1, <1>2
<1>4. \/ phase'[d] = "queued" /\ at'[d] = at[d] + 1 /\ at[d] < Len(Batch[d])
      \/ phase'[d] = "ended" /\ at'[d] = at[d]
  BY <1>1, <1>2
<1>5. phase' \in [Posts -> Phases]
  BY <1>1, <1>2 DEF Phases, Running
<1>6. at' \in [Posts -> Nat]
  BY <1>1, <1>2
<1>7. row' \in [Posts -> RowIds \cup {NoRow}] /\ memory' \in [Posts -> Seq(Turns)]
  BY <1>1, <1>2
<1>8. rowLock' \in [RowIds -> Posts \cup {None}]
  BY <1>1, <1>2
<1>9. RowLocksHeld'
  <2>1. \A e \in Posts : phase'[e] = "committing" => rowLock'[row'[e]] = e
    <3> SUFFICES ASSUME NEW e \in Posts, phase'[e] = "committing"
                 PROVE  rowLock'[row'[e]] = e
      OBVIOUS
    <3>1. e # d
      BY <1>4
    <3>2. phase[e] = "committing" /\ row'[e] = row[e]
      BY <1>3, <3>1
    <3>3. row[e] \in RowIds
      BY <1>2, <3>2 DEF TypeInv, Busy
    <3> QED BY <1>1, <3>1, <3>2, <3>3 DEF RowLocksHeld
  <2>2. \A id \in RowIds : \A e \in Posts :
            rowLock'[id] = e => phase'[e] = "committing" /\ row'[e] = id
    BY <1>1, <1>3, PostAssumption DEF RowLocksHeld
  <2> QED BY <2>1, <2>2 DEF RowLocksHeld
<1> QED BY <1>3, <1>4, <1>5, <1>6, <1>7, <1>8, <1>9

\* A turn ends without a COMMIT (it is skipped, or raises): its own row and its
\* memory are gone with it.
LEMMA RaiseStep ==
    ASSUME IInv, NEW d \in Posts, phase[d] \in Running, Raise(d)
    PROVE  IInv'
<1>1. TypeInv /\ RowLocksHeld
  BY DEF IInv
<1>2. NextTask(d) /\ UNCHANGED <<sessions, state, sent, finished>>
  BY DEF Raise, table
<1>3. /\ \A e \in Posts \ {d} : /\ phase'[e] = phase[e] /\ at'[e] = at[e]
                                /\ row'[e] = row[e] /\ memory'[e] = memory[e]
      /\ \/ phase'[d] = "queued" /\ at'[d] = at[d] + 1 /\ at[d] < Len(Batch[d])
         \/ phase'[d] = "ended" /\ at'[d] = at[d]
      /\ row'[d] = NoRow /\ memory'[d] = <<>>
      /\ phase' \in [Posts -> Phases] /\ at' \in [Posts -> Nat]
      /\ row' \in [Posts -> RowIds \cup {NoRow}] /\ memory' \in [Posts -> Seq(Turns)]
      /\ rowLock' \in [RowIds -> Posts \cup {None}]
      /\ RowLocksHeld'
  BY <1>1, <1>2, NextTaskEffect
<1>4. TypeInv'
  <2>1. \A e \in Posts : /\ at'[e] <= Len(Batch[e])
                         /\ phase'[e] \in Running => at'[e] >= 1
                         /\ phase'[e] = "expected" => at'[e] = 0
                         /\ row'[e] # NoRow <=> phase'[e] \in Busy
    <3> TAKE e \in Posts
    <3>1. CASE e # d
      BY <1>1, <1>3, <3>1 DEF TypeInv
    <3>2. CASE e = d
      <4>1. at[d] \in Nat /\ at[d] <= Len(Batch[d]) /\ at[d] >= 1 /\ Len(Batch[d]) \in Nat
        BY <1>1, BatchIsAList DEF TypeInv
      <4> QED BY <1>3, <3>2, <4>1 DEF Running, Busy
    <3> QED BY <3>1, <3>2
  <2>2. sessions' \in [Numbers -> SUBSET RowIds] /\ state' \in [RowIds -> Seq(Turns)]
        /\ sent' \in SUBSET Turns /\ finished' \in [Numbers -> Seq(Turns)]
    BY <1>1, <1>2 DEF TypeInv
  <2> QED BY <1>3, <2>1, <2>2 DEF TypeInv
<1>5. \A e \in Posts : phase'[e] \in Busy =>
          /\ e # d /\ phase[e] = phase'[e] /\ NumberOf(e)' = NumberOf(e)
          /\ ThisTurn(e)' = ThisTurn(e) /\ Visible(e)' = Visible(e)
          /\ row'[e] = row[e] /\ memory'[e] = memory[e]
  BY <1>2, <1>3 DEF NumberOf, Message, ThisTurn, Visible, Busy
<1>6. RowsBelong'
  BY <1>2, <1>5 DEF IInv, RowsBelong
<1>7. NothingSavedAhead'
  <2>1. ASSUME NEW e \in Posts, NEW i \in DOMAIN Batch[e], Ahead(e, i)'
        PROVE  Ahead(e, i)
    <3>1. CASE e # d
      BY <1>3, <2>1, <3>1 DEF Ahead
    <3>2. CASE e = d
      <4>1. at[d] \in Nat /\ i \in Nat
        BY <1>1, BatchIsAList DEF TypeInv
      <4>2. "ended" \notin Running
        BY DEF Running
      <4> QED BY <1>3, <2>1, <3>2, <4>1, <4>2 DEF Ahead
    <3> QED BY <3>1, <3>2
  <2> QED BY <1>2, <2>1 DEF IInv, NothingSavedAhead
<1>8. OneAtATime'
  <2>1. \A e \in Posts : phase'[e] \in Running => phase[e] \in Running
    BY <1>3
  <2> QED BY <2>1 DEF IInv, OneAtATime
<1>9. OneRow'
  BY <1>2, <1>5 DEF IInv, OneRow
<1>10. Continues'
  <2>1. \A e \in Posts : phase'[e] \in Busy => (TakesItUp(e)' <=> TakesItUp(e))
    BY <1>2, <1>5 DEF TakesItUp
  <2> QED BY <1>2, <1>5, <2>1 DEF IInv, Continues, ResumesWhereItLeftOff
<1>11. RememberedWasSent'
  <2>1. \A e \in Posts : \A i \in DOMAIN memory'[e] : e # d /\ memory'[e] = memory[e]
    BY <1>3
  <2> QED BY <1>2, <2>1 DEF IInv, RememberedWasSent
<1> QED BY <1>3, <1>4, <1>6, <1>7, <1>8, <1>9, <1>10, <1>11 DEF IInv

\* get_or_create hands the turn the state of its number's row, or an empty one
\* under a name nobody has used.
LEMMA GetOrCreateStep ==
    ASSUME IInv, NEW d \in Posts, GetOrCreate(d)
    PROVE  IInv'
<1> DEFINE n == NumberOf(d)
<1>1. /\ TypeInv
      /\ phase[d] = "queued" /\ phase' = [phase EXCEPT ![d] = "loading"]
      /\ UNCHANGED <<sessions, state, rowLock, at, sent, finished>>
  BY DEF IInv, GetOrCreate, table
<1>2. PICK id \in IF Visible(d) = {} THEN {ThisTurn(d)} ELSE Visible(d) :
          row' = [row EXCEPT ![d] = id] /\ memory' = [memory EXCEPT ![d] = state[id]]
  BY DEF GetOrCreate
<1>3. /\ phase[d] \in Running /\ at[d] \in DOMAIN Batch[d] /\ n \in Numbers /\ n \in NumbersIn(d)
      /\ ThisTurn(d) \in Turns /\ ThisTurn(d) \in RowIds /\ ThisTurn(d) = <<d, at[d]>>
      /\ n = Batch[d][at[d]].number
  BY <1>1, MessageAtHand DEF Running, ThisTurn
<1>4. row[d] = NoRow /\ Visible(d) = sessions[n]
  BY <1>1, <1>3, RowNames DEF TypeInv, Busy, Visible
<1>5. /\ id \in RowIds /\ InsertedFor(n, id)
      /\ \/ id \in sessions[n]
         \/ id = ThisTurn(d) /\ sessions[n] = {} /\ state[id] = <<>>
  <2>1. CASE sessions[n] = {}
    <3>1. id = ThisTurn(d)
      BY <1>4, <2>1
    <3>2. Ahead(d, at[d])
      BY <1>3 DEF Ahead
    <3> QED BY <1>3, <2>1, <3>1, <3>2 DEF IInv, NothingSavedAhead, InsertedFor
  <2>2. CASE sessions[n] # {}
    <3>1. id \in sessions[n]
      BY <1>4, <2>2
    <3> QED BY <1>1, <1>3, <3>1 DEF IInv, TypeInv, RowsBelong
  <2> QED BY <2>1, <2>2
<1> HIDE DEF n
<1>6. /\ \A e \in Posts \ {d} : /\ phase'[e] = phase[e] /\ row'[e] = row[e]
                                /\ memory'[e] = memory[e]
      /\ phase'[d] = "loading" /\ row'[d] = id /\ memory'[d] = state[id]
      /\ phase' \in [Posts -> Phases] /\ row' \in [Posts -> RowIds \cup {NoRow}]
      /\ memory' \in [Posts -> Seq(Turns)]
  <2>1. state[id] \in Seq(Turns)
    BY <1>1, <1>5 DEF TypeInv
  <2>2. phase' \in [Posts -> Phases]
    BY <1>1 DEF TypeInv, Phases, Running
  <2>3. row' \in [Posts -> RowIds \cup {NoRow}]
    BY <1>1, <1>2, <1>5 DEF TypeInv
  <2>4. memory' \in [Posts -> Seq(Turns)]
    BY <1>1, <1>2, <2>1 DEF TypeInv
  <2> QED BY <1>1, <1>2, <2>2, <2>3, <2>4 DEF TypeInv
<1>7. \A e \in Posts : /\ NumberOf(e)' = NumberOf(e) /\ ThisTurn(e)' = ThisTurn(e)
                       /\ phase'[e] \in Running <=> phase[e] \in Running
  BY <1>1, <1>6 DEF NumberOf, Message, ThisTurn, Running
<1>8. \A e \in Posts : phase'[e] \in Busy /\ e # d =>
          phase[e] \in Busy /\ Visible(e)' = Visible(e) /\ (TakesItUp(e)' <=> TakesItUp(e))
  BY <1>1, <1>6, <1>7 DEF Visible, TakesItUp
<1>9. TypeInv'
  <2>1. \A e \in Posts : row'[e] # NoRow <=> phase'[e] \in Busy
    <3>1. id # NoRow /\ phase'[d] \in Busy
      BY <1>5, <1>6, RowNames DEF Busy
    <3> QED BY <1>1, <1>6, <3>1 DEF TypeInv
  <2>2. \A e \in Posts : /\ at[e] <= Len(Batch[e])
                         /\ phase'[e] \in Running => at[e] >= 1
                         /\ phase'[e] = "expected" => at[e] = 0
    BY <1>1, <1>6, <1>7 DEF TypeInv
  <2>3. /\ sessions' \in [Numbers -> SUBSET RowIds] /\ state' \in [RowIds -> Seq(Turns)]
        /\ rowLock' \in [RowIds -> Posts \cup {None}] /\ at' \in [Posts -> Nat]
        /\ sent' \in SUBSET Turns /\ finished' \in [Numbers -> Seq(Turns)]
    BY <1>1 DEF TypeInv
  <2> QED BY <1>1, <1>6, <2>1, <2>2, <2>3 DEF TypeInv
<1>10. RowLocksHeld'
  BY <1>1, <1>6, SMTT(30) DEF IInv, RowLocksHeld
<1>11. RowsBelong'
  <2>1. row'[d] \in Visible(d)'
    BY <1>1, <1>5, <1>6, <1>7 DEF Visible, n
  <2> QED BY <1>1, <1>6, <1>8, <2>1 DEF IInv, RowsBelong
<1>12. NothingSavedAhead'
  BY <1>1, <1>7 DEF IInv, NothingSavedAhead, Ahead
<1>13. OneAtATime'
  BY <1>7 DEF IInv, OneAtATime
<1>14. OneRow'
  <2>1. \A e \in Posts : phase'[e] \in Busy /\ NumberOf(e)' \in Returning \cup Sequential =>
            row'[e] \in sessions[NumberOf(e)'] \/ sessions[NumberOf(e)'] = {}
    BY <1>5, <1>6, <1>7, <1>8 DEF IInv, OneRow, n
  <2> QED BY <1>1, <2>1 DEF IInv, OneRow
<1>15. Continues'
  <2>1. n \in Sequential => state[id] = finished[n]
    BY <1>5 DEF IInv, Continues, ResumesWhereItLeftOff
  <2>2. NumberOf(d)' \in Sequential => TakesItUp(d)'
    BY <1>1, <1>6, <1>7, <2>1 DEF TakesItUp, n
  <2>3. \A e \in Posts : phase'[e] \in Busy /\ NumberOf(e)' \in Sequential => TakesItUp(e)'
    BY <1>7, <1>8, <2>2 DEF IInv, Continues
  <2> QED BY <1>1, <2>3 DEF IInv, Continues, ResumesWhereItLeftOff
<1>16. RememberedWasSent'
  <2>1. /\ \A i \in DOMAIN state[id] : state[id][i] \in sent
        /\ \A e \in Posts : \A i \in DOMAIN memory[e] : memory[e][i] \in sent
    BY <1>5 DEF IInv, RememberedWasSent
  <2>2. ASSUME NEW e \in Posts PROVE memory'[e] = IF e = d THEN state[id] ELSE memory[e]
    BY <1>6
  <2>3. ASSUME NEW e \in Posts, NEW i \in DOMAIN memory'[e] PROVE memory'[e][i] \in sent
    BY <2>1, <2>2, <2>3
  <2> QED BY <1>1, <2>1, <2>3 DEF IInv, RememberedWasSent
<1> QED BY <1>9, <1>10, <1>11, <1>12, <1>13, <1>14, <1>15, <1>16 DEF IInv

\* A turn goes on with the row it has: it loads, answers, or flushes its UPDATE
\* under the row's lock.
LEMMA TurnStep ==
    ASSUME IInv, NEW d \in Posts, LoadState(d) \/ Answer(d) \/ SaveState(d)
    PROVE  IInv'
<1>1. /\ TypeInv /\ phase[d] \in {"loading", "answering", "saving"}
      /\ UNCHANGED <<sessions, state, at, row, finished>>
      /\ \E p \in {"answering", "saving", "committing"} : phase' = [phase EXCEPT ![d] = p]
  BY DEF IInv, LoadState, Answer, SaveState, table
<1>2. /\ \A e \in Posts \ {d} : phase'[e] = phase[e]
      /\ phase'[d] \in {"answering", "saving", "committing"}
      /\ phase' \in [Posts -> Phases]
      /\ phase[d] \in Running /\ phase'[d] \in Running
      /\ phase[d] \in Busy /\ phase'[d] \in Busy
  BY <1>1 DEF TypeInv, Phases, Running, Busy
<1>3. /\ ThisTurn(d) \in Turns /\ row[d] \in RowIds /\ row[d] # NoRow
  BY <1>1, <1>2, MessageAtHand DEF TypeInv
<1>4. \/ memory' = memory /\ sent' = sent
      \/ /\ memory' = [memory EXCEPT ![d] = Append(@, ThisTurn(d))]
         /\ sent' = sent \cup {ThisTurn(d)}
  BY DEF LoadState, Answer, SaveState
<1>5. \/ rowLock' = rowLock /\ phase'[d] # "committing"
      \/ /\ rowLock[row[d]] = None /\ rowLock' = [rowLock EXCEPT ![row[d]] = d]
         /\ phase'[d] = "committing"
  BY <1>1 DEF LoadState, Answer, SaveState, TypeInv
<1>6. \A e \in Posts : /\ NumberOf(e)' = NumberOf(e) /\ ThisTurn(e)' = ThisTurn(e)
                       /\ Visible(e)' = Visible(e)
                       /\ phase'[e] \in Running <=> phase[e] \in Running
                       /\ phase'[e] \in Busy <=> phase[e] \in Busy
  BY <1>1, <1>2 DEF NumberOf, Message, ThisTurn, Visible
<1>7. TypeInv'
  <2>1. memory' \in [Posts -> Seq(Turns)] /\ sent' \in SUBSET Turns
    <3>1. memory \in [Posts -> Seq(Turns)] /\ sent \in SUBSET Turns
      BY <1>1 DEF TypeInv
    <3>2. Append(memory[d], ThisTurn(d)) \in Seq(Turns)
      BY <1>3, <3>1
    <3> QED BY <1>3, <1>4, <3>1, <3>2
  <2>2. rowLock' \in [RowIds -> Posts \cup {None}]
    BY <1>1, <1>3, <1>5 DEF TypeInv
  <2>3. \A e \in Posts : /\ at[e] <= Len(Batch[e])
                         /\ phase'[e] \in Running => at[e] >= 1
                         /\ phase'[e] = "expected" => at[e] = 0
                         /\ row[e] # NoRow <=> phase'[e] \in Busy
    BY <1>1, <1>2, <1>6 DEF TypeInv
  <2>4. /\ sessions' \in [Numbers -> SUBSET RowIds] /\ state' \in [RowIds -> Seq(Turns)]
        /\ row' \in [Posts -> RowIds \cup {NoRow}] /\ at' \in [Posts -> Nat]
        /\ finished' \in [Numbers -> Seq(Turns)]
    BY <1>1 DEF TypeInv
  <2> QED BY <1>1, <1>2, <2>1, <2>2, <2>3, <2>4 DEF TypeInv
<1>8. RowLocksHeld'
  <2>1. rowLock \in [RowIds -> Posts \cup {None}]
    BY <1>1 DEF TypeInv
  <2>2. CASE rowLock' = rowLock /\ phase'[d] # "committing"
    BY <1>1, <1>2, <2>2 DEF IInv, RowLocksHeld
  <2>3. CASE /\ rowLock[row[d]] = None /\ rowLock' = [rowLock EXCEPT ![row[d]] = d]
             /\ phase'[d] = "committing"
    <3>1. \A e \in Posts \ {d} : phase'[e] = "committing" => row[e] # row[d]
      BY <1>2, <2>3, PostAssumption DEF IInv, RowLocksHeld
    <3>2. \A id \in RowIds : rowLock'[id] = IF id = row[d] THEN d ELSE rowLock[id]
      BY <2>1, <2>3
    <3>3. \A e \in Posts : phase'[e] = "committing" => row[e] \in RowIds
      BY <1>1, <1>2, <1>6 DEF TypeInv, Busy
    <3> QED BY <1>1, <1>2, <1>3, <2>3, <3>1, <3>2, <3>3 DEF IInv, RowLocksHeld
  <2> QED BY <1>5, <2>2, <2>3
<1>9. RowsBelong'
  BY <1>1, <1>6 DEF IInv, RowsBelong
<1>10. NothingSavedAhead'
  BY <1>1, <1>6 DEF IInv, NothingSavedAhead, Ahead
<1>11. OneAtATime'
  BY <1>6 DEF IInv, OneAtATime
<1>12. OneRow'
  BY <1>1, <1>6 DEF IInv, OneRow
<1>13. Continues'
  <2>1. memory \in [Posts -> Seq(Turns)]
    BY <1>1 DEF TypeInv
  <2>2. TakesItUp(d) => TakesItUp(d)'
    <3>1. CASE LoadState(d) \/ SaveState(d)
      BY <1>1, <1>2, <1>6, <3>1 DEF LoadState, SaveState, TakesItUp
    <3>2. CASE Answer(d)
      BY <1>1, <1>2, <1>6, <2>1, <3>2 DEF Answer, TakesItUp
    <3> QED BY <3>1, <3>2
  <2>3. \A e \in Posts \ {d} : TakesItUp(e)' <=> TakesItUp(e)
    BY <1>1, <1>2, <1>4, <1>6, <2>1 DEF TakesItUp
  <2>4. \A e \in Posts : phase'[e] \in Busy /\ NumberOf(e)' \in Sequential => TakesItUp(e)'
    BY <1>6, <2>2, <2>3 DEF IInv, Continues
  <2> QED BY <1>1, <2>4 DEF IInv, Continues, ResumesWhereItLeftOff
<1>14. RememberedWasSent'
  <2>1. memory \in [Posts -> Seq(Turns)] /\ sent \subseteq sent'
    BY <1>1, <1>4 DEF TypeInv
  <2>2. ASSUME NEW e \in Posts, NEW i \in DOMAIN memory'[e]
        PROVE  memory'[e][i] \in sent'
    <3>1. CASE memory'[e] = memory[e]
      BY <2>1, <2>2, <3>1 DEF IInv, RememberedWasSent
    <3>2. CASE /\ e = d /\ memory'[d] = Append(memory[d], ThisTurn(d))
               /\ ThisTurn(d) \in sent'
      <4>1. memory[d] \in Seq(Turns)
        BY <2>1
      <4>2. \A k \in DOMAIN memory[d] : memory[d][k] \in sent'
        BY <2>1 DEF IInv, RememberedWasSent
      <4> QED BY <1>3, <2>2, <3>2, <4>1, <4>2
    <3> QED BY <1>4, <2>1, <3>1, <3>2
  <2> QED BY <1>1, <2>1, <2>2 DEF IInv, RememberedWasSent
<1> QED BY <1>7, <1>8, <1>9, <1>10, <1>11, <1>12, <1>13, <1>14 DEF IInv

\* The COMMIT publishes the row with what the turn remembers.  Of a number that
\* waits for its answers no other turn is at work; of a returning number every
\* turn has the one row.
LEMMA CommitStep ==
    ASSUME IInv, NEW d \in Posts, Commit(d)
    PROVE  IInv'
<1> DEFINE n == NumberOf(d)
           id == row[d]
<1>1. /\ TypeInv /\ RowLocksHeld /\ phase[d] = "committing"
      /\ sessions' = [sessions EXCEPT ![n] = @ \cup {id}]
      /\ state' = [state EXCEPT ![id] = memory[d]]
      /\ finished' = [finished EXCEPT ![n] = Append(@, ThisTurn(d))]
      /\ NextTask(d) /\ sent' = sent
  BY DEF IInv, Commit
<1>2. phase[d] \in Running /\ phase[d] \in Busy
  BY <1>1 DEF Running, Busy
<1>3. /\ at[d] \in DOMAIN Batch[d] /\ n \in Numbers /\ n \in NumbersIn(d)
      /\ ThisTurn(d) \in Turns /\ ThisTurn(d) \in RowIds /\ ThisTurn(d) = <<d, at[d]>>
      /\ n = Batch[d][at[d]].number
  BY <1>1, <1>2, MessageAtHand DEF ThisTurn
<1>4. id \in RowIds /\ (id \in sessions[n] \/ id = ThisTurn(d)) /\ InsertedFor(n, id)
  <2>1. id \in RowIds
    BY <1>1, <1>2 DEF TypeInv
  <2>2. id \in sessions[n] \/ id = ThisTurn(d)
    BY <1>2 DEF IInv, RowsBelong, Visible
  <2> QED BY <1>3, <2>1, <2>2 DEF IInv, RowsBelong, InsertedFor
<1>5. n \in Returning \cup Sequential => id \in sessions[n] \/ sessions[n] = {}
  BY <1>2 DEF IInv, OneRow
<1>6. n \in Sequential => memory[d] = Append(finished[n], ThisTurn(d))
  BY <1>1, <1>2 DEF IInv, Continues, TakesItUp
<1> HIDE DEF n, id
<1>7. /\ \A e \in Posts \ {d} : /\ phase'[e] = phase[e] /\ at'[e] = at[e]
                                /\ row'[e] = row[e] /\ memory'[e] = memory[e]
      /\ \/ phase'[d] = "queued" /\ at'[d] = at[d] + 1 /\ at[d] < Len(Batch[d])
         \/ phase'[d] = "ended" /\ at'[d] = at[d]
      /\ row'[d] = NoRow /\ memory'[d] = <<>>
      /\ phase' \in [Posts -> Phases] /\ at' \in [Posts -> Nat]
      /\ row' \in [Posts -> RowIds \cup {NoRow}] /\ memory' \in [Posts -> Seq(Turns)]
      /\ rowLock' \in [RowIds -> Posts \cup {None}]
      /\ RowLocksHeld'
  BY <1>1, <1>2, NextTaskEffect, SMTT(30)
<1>8. /\ \A m \in Numbers : sessions'[m] = IF m = n THEN sessions[n] \cup {id} ELSE sessions[m]
      /\ \A x \in RowIds : state'[x] = IF x = id THEN memory[d] ELSE state[x]
      /\ \A m \in Numbers : finished'[m] = IF m = n THEN Append(finished[n], ThisTurn(d))
                                           ELSE finished[m]
      /\ sessions' \in [Numbers -> SUBSET RowIds] /\ state' \in [RowIds -> Seq(Turns)]
      /\ finished' \in [Numbers -> Seq(Turns)]
  <2>1. /\ sessions \in [Numbers -> SUBSET RowIds] /\ state \in [RowIds -> Seq(Turns)]
        /\ finished \in [Numbers -> Seq(Turns)] /\ memory[d] \in Seq(Turns)
    BY <1>1 DEF TypeInv
  <2>2. Append(finished[n], ThisTurn(d)) \in Seq(Turns)
    BY <1>3, <2>1
  <2> QED BY <1>1, <1>3, <1>4, <2>1, <2>2, ZenonT(30)
<1>9. \A e \in Posts : phase'[e] \in Busy =>
          /\ e # d /\ phase[e] = phase'[e] /\ NumberOf(e)' = NumberOf(e)
          /\ ThisTurn(e)' = ThisTurn(e)
          /\ row'[e] = row[e] /\ memory'[e] = memory[e]
          /\ phase[e] \in Running /\ NumberOf(e) \in Numbers /\ NumberOf(e) \in NumbersIn(e)
  <2> SUFFICES ASSUME NEW e \in Posts, phase'[e] \in Busy
               PROVE  /\ e # d /\ phase[e] = phase'[e] /\ NumberOf(e)' = NumberOf(e)
                      /\ ThisTurn(e)' = ThisTurn(e)
                      /\ row'[e] = row[e] /\ memory'[e] = memory[e]
                      /\ phase[e] \in Running /\ NumberOf(e) \in Numbers
                      /\ NumberOf(e) \in NumbersIn(e)
    OBVIOUS
  <2>1. e # d /\ phase[e] = phase'[e] /\ at'[e] = at[e] /\ phase[e] \in Running
    BY <1>7 DEF Busy, Running
  <2> QED BY <1>1, <1>7, <2>1, MessageAtHand DEF NumberOf, Message, ThisTurn
<1>10. \A e \in Posts : phase'[e] \in Busy /\ NumberOf(e) \in Sequential => NumberOf(e) # n
  BY <1>2, <1>3, <1>9 DEF IInv, OneAtATime
<1>11. TypeInv'
  <2>1. \A e \in Posts : /\ at'[e] <= Len(Batch[e])
                         /\ phase'[e] \in Running => at'[e] >= 1
                         /\ phase'[e] = "expected" => at'[e] = 0
                         /\ row'[e] # NoRow <=> phase'[e] \in Busy
    <3> TAKE e \in Posts
    <3>1. CASE e # d
      BY <1>1, <1>7, <3>1 DEF TypeInv
    <3>2. CASE e = d
      <4>1. at[d] \in Nat /\ at[d] <= Len(Batch[d]) /\ at[d] >= 1 /\ Len(Batch[d]) \in Nat
        BY <1>1, <1>2, BatchIsAList DEF TypeInv
      <4> QED BY <1>7, <3>2, <4>1 DEF Running, Busy
    <3> QED BY <3>1, <3>2
  <2>2. sent' \in SUBSET Turns
    BY <1>1 DEF TypeInv
  <2> QED BY <1>7, <1>8, <2>1, <2>2 DEF TypeInv
<1>12. RowsBelong'
  <2>1. \A m \in Numbers : \A x \in sessions'[m] : InsertedFor(m, x)
    BY <1>4, <1>8 DEF IInv, RowsBelong
  <2>2. ASSUME NEW e \in Posts, phase'[e] \in Busy PROVE row'[e] \in Visible(e)'
    <3>1. row[e] \in Visible(e) /\ sessions[NumberOf(e)] \subseteq sessions'[NumberOf(e)]
      BY <1>8, <1>9, <2>2 DEF IInv, RowsBelong
    <3> QED BY <1>9, <2>2, <3>1 DEF Visible
  <2> QED BY <2>1, <2>2 DEF RowsBelong
<1>13. NothingSavedAhead'
  <2> SUFFICES ASSUME NEW e \in Posts, NEW i \in DOMAIN Batch[e], Ahead(e, i)'
               PROVE  /\ state'[<<e, i>>] = <<>>
                      /\ \A m \in Numbers : <<e, i>> \notin sessions'[m]
    BY DEF NothingSavedAhead
  <2>1. Ahead(e, i) /\ <<e, i>> # ThisTurn(d)
    <3>1. CASE e # d
      BY <1>3, <1>7, <3>1 DEF Ahead
    <3>2. CASE e = d
      <4>1. at[d] \in Nat /\ i \in Nat /\ "ended" \notin Running
        BY <1>1, BatchIsAList DEF TypeInv, Running
      <4>2. i > at[d]
        BY <1>7, <3>2, <4>1 DEF Ahead
      <4> QED BY <1>3, <3>2, <4>1, <4>2 DEF Ahead
    <3> QED BY <3>1, <3>2
  <2>2. /\ <<e, i>> \in RowIds
        /\ state[<<e, i>>] = <<>>
        /\ \A m \in Numbers : <<e, i>> \notin sessions[m]
    BY <2>1, BatchIsAList DEF IInv, NothingSavedAhead
  <2>3. <<e, i>> # id
    BY <1>3, <1>4, <2>1, <2>2
  <2>4. state'[<<e, i>>] = <<>>
    BY <1>8, <2>2, <2>3
  <2>5. \A m \in Numbers : <<e, i>> \notin sessions'[m]
    BY <1>8, <2>2, <2>3
  <2> QED BY <2>4, <2>5
<1>14. OneAtATime'
  <2>1. \A e \in Posts : phase'[e] \in Running => phase[e] \in Running
    BY <1>2, <1>7
  <2> QED BY <2>1 DEF IInv, OneAtATime
<1>15. OneRow'
  <2>1. \A m \in Returning : sessions'[m] = {FirstRow(m)}
    <3>1. Returning \subseteq Numbers
      BY PostAssumption
    <3>2. \A m \in Returning : sessions[m] = {FirstRow(m)}
      BY DEF IInv, OneRow
    <3>3. \A m \in Returning : m = n => id = FirstRow(m)
      BY <1>5, <3>2
    <3> QED BY <1>8, <3>1, <3>2, <3>3
  <2>2. ASSUME NEW m \in Sequential, NEW x \in sessions'[m], NEW y \in sessions'[m]
        PROVE  x = y
    <3>1. \A x1, y1 \in sessions[m] : x1 = y1
      BY DEF IInv, OneRow
    <3>2. sessions'[m] = IF m = n THEN sessions[n] \cup {id} ELSE sessions[m]
      BY <1>8, PostAssumption
    <3> QED BY <1>5, <2>2, <3>1, <3>2
  <2>3. ASSUME NEW e \in Posts, phase'[e] \in Busy, NumberOf(e) \in Returning \cup Sequential
        PROVE  row'[e] \in sessions'[NumberOf(e)] \/ sessions'[NumberOf(e)] = {}
    <3>1. row[e] \in sessions[NumberOf(e)] \/ sessions[NumberOf(e)] = {}
      BY <1>9, <2>3 DEF IInv, OneRow
    <3>2. CASE NumberOf(e) # n
      BY <1>8, <1>9, <2>3, <3>1, <3>2, SMTT(30)
    <3>3. CASE NumberOf(e) = n
      <4>1. n \in Returning /\ sessions[n] # {}
        BY <1>10, <2>3, <3>3 DEF IInv, OneRow
      <4> QED BY <1>3, <1>8, <1>9, <2>3, <3>1, <3>3, <4>1, ZenonT(30)
    <3> QED BY <3>2, <3>3
  <2> QED BY <1>9, <2>1, <2>2, <2>3 DEF OneRow
<1>16. Continues'
  <2>1. ASSUME NEW m \in Sequential, NEW x \in sessions'[m] PROVE state'[x] = finished'[m]
    <3>1. m \in Numbers
      BY PostAssumption
    <3>2. CASE m = n
      <4>1. x = id
        BY <1>5, <1>8, <2>1, <3>1, <3>2 DEF IInv, OneRow
      <4> QED BY <1>4, <1>6, <1>8, <3>1, <3>2, <4>1
    <3>3. CASE m # n
      <4>1. x \in sessions[m] /\ x \in RowIds /\ InsertedFor(m, x)
        BY <1>1, <1>8, <2>1, <3>1, <3>3 DEF IInv, RowsBelong, TypeInv
      <4>2. x # id
        BY <1>3, <1>4, <3>1, <3>3, <4>1, RowNames
      <4>3. state[x] = finished[m]
        BY <4>1 DEF IInv, Continues, ResumesWhereItLeftOff
      <4> QED BY <1>8, <3>1, <3>3, <4>1, <4>2, <4>3
    <3> QED BY <3>2, <3>3
  <2>2. \A m \in Sequential : sessions'[m] = {} => finished'[m] = <<>>
    BY <1>8, PostAssumption DEF IInv, Continues
  <2>3. ASSUME NEW e \in Posts, phase'[e] \in Busy, NumberOf(e)' \in Sequential
        PROVE  TakesItUp(e)'
    <3>1. /\ NumberOf(e) \in Sequential /\ NumberOf(e) # n /\ phase[e] \in Busy
          /\ finished'[NumberOf(e)] = finished[NumberOf(e)]
      BY <1>8, <1>9, <1>10, <2>3
    <3>2. TakesItUp(e)
      BY <3>1 DEF IInv, Continues
    <3> QED BY <1>9, <2>3, <3>1, <3>2 DEF TakesItUp
  <2> QED BY <2>1, <2>2, <2>3 DEF Continues, ResumesWhereItLeftOff
<1>17. RememberedWasSent'
  <2>1. \A e \in Posts : \A i \in DOMAIN memory'[e] : e # d /\ memory'[e] = memory[e]
    BY <1>7
  <2>2. \A x \in RowIds : \A i \in DOMAIN state'[x] : state'[x][i] \in sent
    BY <1>8 DEF IInv, RememberedWasSent
  <2> QED BY <1>1, <2>1, <2>2 DEF IInv, RememberedWasSent
<1> QED BY <1>7, <1>11, <1>12, <1>13, <1>14, <1>15, <1>16, <1>17 DEF IInv

\* A crash keeps what was committed and forgets the rest.
LEMMA CrashStep ==
    ASSUME IInv, Crash
    PROVE  IInv'
<1>1. /\ TypeInv
      /\ phase' = [d \in Posts |-> IF phase[d] \in Running THEN "lost" ELSE phase[d]]
      /\ row' = [d \in Posts |-> NoRow]
      /\ memory' = [d \in Posts |-> <<>>]
      /\ rowLock' = [id \in RowIds |-> None]
      /\ UNCHANGED <<sessions, state, at, sent, finished>>
  BY DEF IInv, Crash, table
<1>2. \A d \in Posts : phase'[d] \notin Running /\ phase'[d] \notin Busy
  BY <1>1 DEF Running, Busy
<1>3. TypeInv'
  <2>1. phase' \in [Posts -> Phases]
    BY <1>1 DEF TypeInv, Phases
  <2>2. \A d \in Posts : /\ at[d] <= Len(Batch[d])
                         /\ phase'[d] \in Running => at[d] >= 1
                         /\ phase'[d] = "expected" => at[d] = 0
                         /\ row'[d] # NoRow <=> phase'[d] \in Busy
    BY <1>1, <1>2 DEF TypeInv
  <2>3. memory' \in [Posts -> Seq(Turns)]
    BY <1>1
  <2> QED BY <1>1, <2>1, <2>2, <2>3 DEF TypeInv
<1>4. RowLocksHeld'
  BY <1>1, <1>2, PostAssumption DEF RowLocksHeld, Running
<1>5. RowsBelong' /\ OneAtATime' /\ OneRow'
  BY <1>1, <1>2 DEF IInv, RowsBelong, OneAtATime, OneRow
<1>6. NothingSavedAhead'
  BY <1>1, <1>2 DEF IInv, NothingSavedAhead, Ahead
<1>7. Continues' /\ RememberedWasSent'
  BY <1>1, <1>2 DEF IInv, Continues, ResumesWhereItLeftOff, RememberedWasSent
<1> QED BY <1>3, <1>4, <1>5, <1>6, <1>7 DEF IInv
-----------------------------------------------------------------------------
\* The invariant holds however the posts' turns interleave, fail, are lost in a
\* crash or wait for one another's row.
THEOREM ConversationsInv == Spec => []IInv
<1>1. IInv /\ [Next]_vars => IInv'
  <2> SUFFICES ASSUME IInv, [Next]_vars PROVE IInv'
    OBVIOUS
  <2>1. ASSUME NEW d \in Posts, Refuse(d) \/ Receive(d) PROVE IInv'
    BY <2>1, PostStep
  <2>2. ASSUME NEW d \in Posts, Skip(d) \/ LookupRaises(d) \/ Fail(d) PROVE IInv'
    BY <2>2, RaiseStep DEF Skip, LookupRaises, Fail, Running
  <2>3. ASSUME NEW d \in Posts, GetOrCreate(d) PROVE IInv'
    BY <2>3, GetOrCreateStep
  <2>4. ASSUME NEW d \in Posts, LoadState(d) \/ Answer(d) \/ SaveState(d) PROVE IInv'
    BY <2>4, TurnStep
  <2>5. ASSUME NEW d \in Posts, Commit(d) PROVE IInv'
    BY <2>5, CommitStep
  <2>6. CASE Crash
    BY <2>6, CrashStep
  <2>7. CASE UNCHANGED vars
    <3>1. UNCHANGED <<sessions, state, rowLock, phase, at, row, memory, sent, finished>>
      BY <2>7 DEF vars, table
    <3>2. TypeInv' /\ RowLocksHeld' /\ RememberedWasSent'
      BY <3>1 DEF IInv, TypeInv, RowLocksHeld, RememberedWasSent
    <3>3. RowsBelong' /\ NothingSavedAhead' /\ OneAtATime' /\ OneRow'
      BY <3>1, SMTT(30) DEF IInv, RowsBelong, NothingSavedAhead, Ahead, OneAtATime, OneRow,
                  Visible, NumberOf, Message, ThisTurn
    <3>4. Continues'
      BY <3>1 DEF IInv, Continues, ResumesWhereItLeftOff, TakesItUp,
                  NumberOf, Message, ThisTurn
    <3> QED BY <3>2, <3>3, <3>4 DEF IInv
  <2> QED BY <2>1, <2>2, <2>3, <2>4, <2>5, <2>6, <2>7 DEF Next, Proceed, Quiet
<1> QED BY <1>1, InitHolds, PTL DEF Spec

\* Every variable keeps its type, and a transaction that has updated a row holds
\* it until it ends.
THEOREM ConversationsTyped == Spec => []TypeOK
<1>1. IInv => TypeOK
  <2> SUFFICES ASSUME IInv PROVE TypeOK
    OBVIOUS
  <2>1. TypeInv /\ RowLocksHeld
    BY DEF IInv
  <2>2. \A id \in RowIds : \A i \in DOMAIN state[id] : state[id][i] \in Turns
    <3>1. \A id \in RowIds : state[id] \in Seq(Turns)
      BY <2>1 DEF TypeInv
    <3> QED BY <3>1
  <2>3. \A d \in Posts : at[d] \in 0 .. Len(Batch[d])
    BY <2>1, BatchIsAList DEF TypeInv
  <2> QED BY <2>1, <2>2, <2>3 DEF TypeOK, TypeInv, RowLocksHeld, Phases, Busy
<1> QED BY <1>1, ConversationsInv, PTL

\* get_or_create inserts no second row for a number that has one, nor for one
\* whose messages wait for their answers.
THEOREM OneSessionForSettledNumbers == Spec => []SettledNumbersKeepOneSession
<1>1. IInv => SettledNumbersKeepOneSession
  <2> SUFFICES ASSUME IInv, NEW n \in Returning \cup Sequential
               PROVE  Cardinality(sessions[n]) <= 1
    BY DEF SettledNumbersKeepOneSession
  <2>1. \A x, y \in sessions[n] : x = y
    BY DEF IInv, OneRow
  <2>2. CASE sessions[n] = {}
    BY <2>2, FS_EmptySet
  <2>3. CASE sessions[n] # {}
    <3>1. PICK x \in sessions[n] : TRUE
      BY <2>3
    <3>2. sessions[n] = {x}
      BY <2>1, <3>1
    <3>3. Cardinality({x}) = 1
      BY FS_Singleton
    <3> QED BY <3>2, <3>3
  <2> QED BY <2>2, <2>3
<1> QED BY <1>1, ConversationsInv, PTL

\* No committed turn of a number that waits for its answers is missing from its
\* saved state, none is in it twice, and none is out of order.
THEOREM NoTurnIsForgotten == Spec => []ResumesWhereItLeftOff
<1>1. IInv => ResumesWhereItLeftOff
  BY DEF IInv, Continues
<1> QED BY <1>1, ConversationsInv, PTL

\* A saved turn has had its answer dispatched, for every number.
THEOREM SavedTurnsWereAnswered == Spec => []AnsweredBeforeSaved
<1>1. IInv => AnsweredBeforeSaved
  BY DEF IInv, TypeInv, RememberedWasSent, AnsweredBeforeSaved
<1> QED BY <1>1, ConversationsInv, PTL
=============================================================================
