------------------------------ MODULE CartsProofs ------------------------------
(***************************************************************************)
(* Theorems about Carts: nothing that overlaps, dies or changes a price    *)
(* puts more into a cart than its owner asked for; and for those who wait  *)
(* for their answers the cart is a basket that is ordered as it was shown. *)
(***************************************************************************)
EXTENDS Carts, SequenceFacts

\* The cart a request has at hand is its user's, or is not committed yet and
\* then known to this request alone.
CartAtHand(r) ==
    req[r].at \in WithCart =>
        /\ req[r].cart <= lastCart
        /\ IF carts[req[r].cart] = NoCart THEN InTx(r) ELSE carts[req[r].cart].user = UserOf(r)

OwnCarts ==
    \A r, s \in Requests :
        req[r].at \in WithCart /\ req[s].at \in WithCart /\ req[r].cart = req[s].cart /\ r # s =>
            carts[req[r].cart] # NoCart

\* A row that a request holds is, unless deleted, still of the same cart and
\* product.
RowsAtHand(r) ==
    /\ IsFiniteSet(req[r].held)
    /\ \A h \in req[r].held :
         /\ h.id <= lastItem
         /\ items[h.id] # NoItem => /\ items[h.id].cart = h.row.cart
                                    /\ items[h.id].product = h.row.product
         /\ Op(r) = "add" => h.row.product = call[r].product
    /\ Op(r) \in {"add", "update", "remove"} => \A g, h \in req[r].held : g = h

\* Where a request can be, and a write is made once.
Course(r) ==
    /\ req[r].held # {} => req[r].at = "writing"
    /\ req[r].wrote => req[r].at \notin {"expected", "refused", "reading", "writing"}
    /\ req[r].at \in {"reading", "writing"} => Op(r) # "view"
    /\ req[r].at = "showing" => Op(r) = "view" \/ req[r].wrote
    /\ req[r].at \in Busy /\ req[r].wrote => ~InTx(r)
    /\ req[r].at = "writing" /\ req[r].held = {} => Op(r) \in {"add", "clear"}
    /\ Op(r) = "view" => ~req[r].wrote

\* The items there from the start.
StartsKept ==
    Cardinality(Starts) <= lastItem /\
    \A i \in Ids : i <= Cardinality(Starts) /\ items[i] # NoItem =>
        items[i].cart = i /\ items[i].product = StartsWith

\* What the requests that wrote to row i, by `wroteTo`, asked for.
Credit(wroteTo, i) ==
    (IF i <= Cardinality(Starts) THEN StartItem(i).qty ELSE 0)
    + SumFunctionOnSet([r \in Requests |-> call[r].qty], {r \in Requests : wroteTo[r] = i})

\* Every request that has written wrote to one row of its user's cart and of
\* its product, and no row has or will be given more than those asked for.
Accounted(wroteTo) ==
    /\ \A r \in Requests : wroteTo[r] # 0 =>
         /\ wroteTo[r] <= lastItem /\ req[r].wrote /\ Op(r) \in {"add", "update"}
         /\ items[wroteTo[r]] # NoItem =>
              /\ carts[items[wroteTo[r]].cart].user = UserOf(r)
              /\ Op(r) = "add" => items[wroteTo[r]].product = call[r].product
    /\ \A i \in Ids : items[i] # NoItem => items[i].qty <= Credit(wroteTo, i)
    /\ \A r \in Requests : \A h \in req[r].held : h.row.qty <= Credit(wroteTo, h.id)

RequestInv(r) == CartAtHand(r) /\ RowsAtHand(r) /\ Course(r)

IInv ==
    /\ RowsTypeOK /\ OwnCarts /\ StartsKept
    /\ \A r \in Requests : RequestInv(r)
    /\ \E wroteTo \in [Requests -> 0 .. MaxRows] : Accounted(wroteTo)
-----------------------------------------------------------------------------
(* Requests.                                                               *)

Ats == Busy \cup {"expected", "answered", "refused", "failed"}
Holdings == [id : Ids, row : ItemRows]

OthersWait(r) == \A s \in Requests : s # r => req'[s] = req[s]

Is(r, at, cart, held, quoted, wrote) ==
    /\ req'[r].at = at /\ req'[r].cart = cart /\ req'[r].held = held
    /\ req'[r].quoted = quoted /\ req'[r].wrote = wrote

LEMMA Bounds == MaxRows \in Nat /\ Cardinality(Starts) \in 0 .. MaxRows /\ IsFiniteSet(Ids)
<1>1. IsFiniteSet(Starts)
  BY CartAssumption, FS_Subset
<1>2. Cardinality(Starts) \in Nat
  BY <1>1, FS_CardinalityType
<1> QED BY <1>2, CartAssumption, FS_Interval DEF Ids

\* A request that is given its fields anew.
Req(at, cart, held, quoted, wrote) ==
    [at |-> at, cart |-> cart, held |-> held, quoted |-> quoted, wrote |-> wrote]

LEMMA Anew ==
    ASSUME RowsTypeOK, NEW r \in Requests, NEW q \in Request, req' = [req EXCEPT ![r] = q]
    PROVE  req' \in [Requests -> Request] /\ OthersWait(r) /\ req'[r] = q
BY DEF RowsTypeOK, OthersWait

LEMMA ReqFields ==
    ASSUME NEW at \in Ats, NEW cart \in 0 .. MaxRows,
           NEW held \in SUBSET Holdings, NEW quoted \in Nat, NEW wrote \in BOOLEAN,
           NEW q, q = Req(at, cart, held, quoted, wrote)
    PROVE  /\ q \in Request
           /\ q.at = at /\ q.cart = cart /\ q.held = held /\ q.quoted = quoted /\ q.wrote = wrote
BY DEF Req, Request, Ats, Holdings

LEMMA Finished ==
    ASSUME RowsTypeOK, NEW r \in Requests, NEW at \in Ats, NEW wrote \in BOOLEAN, Finish(r, at, wrote)
    PROVE  req' \in [Requests -> Request] /\ OthersWait(r) /\ Is(r, at, 0, {}, 0, wrote)
<1> DEFINE q == Req(at, 0, {}, 0, wrote)
<1>1. 0 \in 0 .. MaxRows /\ {} \in SUBSET Holdings /\ 0 \in Nat
  BY Bounds
<1>2. /\ q \in Request
      /\ q.at = at /\ q.cart = 0 /\ q.held = {} /\ q.quoted = 0 /\ q.wrote = wrote
  BY <1>1, ReqFields
<1>3. req' = [req EXCEPT ![r] = q]
  BY DEF Finish, Idle, Req
<1> HIDE DEF q
<1>4. req' \in [Requests -> Request] /\ OthersWait(r) /\ req'[r] = q
  BY <1>2, <1>3, Anew
<1> QED BY <1>2, <1>4 DEF Is

\* A request that keeps all but where it is and ...
LEMMA GoesAt ==
    ASSUME RowsTypeOK, NEW r \in Requests, NEW at \in Ats, req' = [req EXCEPT ![r].at = at]
    PROVE  /\ req' \in [Requests -> Request] /\ OthersWait(r)
           /\ Is(r, at, req[r].cart, req[r].held, req[r].quoted, req[r].wrote)
<1>1. req[r] \in Request /\ req \in [Requests -> Request]
  BY DEF RowsTypeOK
<1> DEFINE q == [req[r] EXCEPT !.at = at]
<1>2. /\ q \in Request /\ q.at = at
      /\ q.cart = req[r].cart /\ q.held = req[r].held /\ q.quoted = req[r].quoted /\ q.wrote = req[r].wrote
  BY <1>1 DEF Request, Ats
<1>3. req' = [req EXCEPT ![r] = q]
  BY <1>1
<1> HIDE DEF q
<1>4. req' \in [Requests -> Request] /\ OthersWait(r) /\ req'[r] = q
  BY <1>2, <1>3, Anew
<1> QED BY <1>2, <1>4 DEF Is

\* ... the cart at hand,
LEMMA GoesWithCart ==
    ASSUME RowsTypeOK, NEW r \in Requests, NEW at \in Ats, NEW cart \in 0 .. MaxRows,
           req' = [req EXCEPT ![r].at = at, ![r].cart = cart]
    PROVE  /\ req' \in [Requests -> Request] /\ OthersWait(r)
           /\ Is(r, at, cart, req[r].held, req[r].quoted, req[r].wrote)
<1>1. req[r] \in Request /\ req \in [Requests -> Request]
  BY DEF RowsTypeOK
<1> DEFINE a == [req[r] EXCEPT !.at = at]
           q == [a EXCEPT !.cart = cart]
<1>2. /\ a \in Request /\ a.at = at
      /\ a.held = req[r].held /\ a.quoted = req[r].quoted /\ a.wrote = req[r].wrote
  BY <1>1 DEF Request, Ats
<1> HIDE DEF a
<1>3. /\ q \in Request /\ q.at = at /\ q.cart = cart
      /\ q.held = req[r].held /\ q.quoted = req[r].quoted /\ q.wrote = req[r].wrote
  BY <1>2 DEF Request
<1>4. req' = [req EXCEPT ![r] = q]
  BY <1>1 DEF a
<1> HIDE DEF q
<1>5. req' \in [Requests -> Request] /\ OthersWait(r) /\ req'[r] = q
  BY <1>3, <1>4, Anew
<1> QED BY <1>3, <1>5 DEF Is

\* ... the rows it holds,
LEMMA GoesWithRows ==
    ASSUME RowsTypeOK, NEW r \in Requests, NEW at \in Ats, NEW held \in SUBSET Holdings,
           req' = [req EXCEPT ![r].at = at, ![r].held = held]
    PROVE  /\ req' \in [Requests -> Request] /\ OthersWait(r)
           /\ Is(r, at, req[r].cart, held, req[r].quoted, req[r].wrote)
<1>1. req[r] \in Request /\ req \in [Requests -> Request]
  BY DEF RowsTypeOK
<1> DEFINE a == [req[r] EXCEPT !.at = at]
           q == [a EXCEPT !.held = held]
<1>2. /\ a \in Request /\ a.at = at
      /\ a.cart = req[r].cart /\ a.quoted = req[r].quoted /\ a.wrote = req[r].wrote
  BY <1>1 DEF Request, Ats
<1> HIDE DEF a
<1>3. /\ q \in Request /\ q.at = at /\ q.held = held
      /\ q.cart = req[r].cart /\ q.quoted = req[r].quoted /\ q.wrote = req[r].wrote
  BY <1>2 DEF Request, Holdings
<1>4. req' = [req EXCEPT ![r] = q]
  BY <1>1 DEF a
<1> HIDE DEF q
<1>5. req' \in [Requests -> Request] /\ OthersWait(r) /\ req'[r] = q
  BY <1>3, <1>4, Anew
<1> QED BY <1>3, <1>5 DEF Is

\* ... or the price it was quoted.
LEMMA GoesWithPrice ==
    ASSUME RowsTypeOK, NEW r \in Requests, NEW at \in Ats, NEW quoted \in Nat,
           req' = [req EXCEPT ![r].at = at, ![r].quoted = quoted]
    PROVE  /\ req' \in [Requests -> Request] /\ OthersWait(r)
           /\ Is(r, at, req[r].cart, req[r].held, quoted, req[r].wrote)
<1>1. req[r] \in Request /\ req \in [Requests -> Request]
  BY DEF RowsTypeOK
<1> DEFINE a == [req[r] EXCEPT !.at = at]
           q == [a EXCEPT !.quoted = quoted]
<1>2. /\ a \in Request /\ a.at = at
      /\ a.cart = req[r].cart /\ a.held = req[r].held /\ a.wrote = req[r].wrote
  BY <1>1 DEF Request, Ats
<1> HIDE DEF a
<1>3. /\ q \in Request /\ q.at = at /\ q.quoted = quoted
      /\ q.cart = req[r].cart /\ q.held = req[r].held /\ q.wrote = req[r].wrote
  BY <1>2 DEF Request
<1>4. req' = [req EXCEPT ![r] = q]
  BY <1>1 DEF a
<1> HIDE DEF q
<1>5. req' \in [Requests -> Request] /\ OthersWait(r) /\ req'[r] = q
  BY <1>3, <1>4, Anew
<1> QED BY <1>3, <1>5 DEF Is
-----------------------------------------------------------------------------
(* What a step leaves as it was.                                           *)

\* Carts keep their owners and items their cart and product, ids are not given
\* again, and a cart that appears is that of the request whose step it is.
CartsGrow(r) ==
    \A c \in Ids :
        /\ carts[c] # NoCart => carts'[c] # NoCart /\ carts'[c].user = carts[c].user
        /\ carts[c] = NoCart /\ carts'[c] # NoCart =>
             /\ carts'[c].user = UserOf(r)
             /\ c > lastCart \/ (req[r].at \in WithCart /\ req[r].cart = c)
ItemsGrow ==
    \A i \in Ids : i <= lastItem /\ items'[i] # NoItem =>
        items[i] # NoItem /\ items'[i].cart = items[i].cart /\ items'[i].product = items[i].product
Grows(r) ==
    /\ UNCHANGED <<call, overlap>> /\ lastCart <= lastCart' /\ lastItem <= lastItem'
    /\ CartsGrow(r) /\ ItemsGrow

\* A cart not committed is a new one or was this request's before.
CartFrom(r) ==
    req'[r].at \in WithCart =>
        \/ req'[r].cart > lastCart \/ carts'[req'[r].cart] # NoCart
        \/ req[r].at \in WithCart /\ req'[r].cart = req[r].cart

LEMMA SameCalls ==
    ASSUME UNCHANGED call, NEW r
    PROVE  Op(r)' = Op(r) /\ UserOf(r)' = UserOf(r) /\ (InApp(r)' <=> InApp(r)) /\ (InTx(r)' <=> InTx(r))
BY DEF Op, UserOf, InApp, InTx

LEMMA OtherKept ==
    ASSUME IInv, RowsTypeOK', NEW r \in Requests, Grows(r), NEW s \in Requests, s # r, req'[s] = req[s]
    PROVE  RequestInv(s)'
<1>1. RequestInv(s)
  BY DEF IInv
<1>2. Op(s)' = Op(s) /\ UserOf(s)' = UserOf(s) /\ (InTx(s)' <=> InTx(s))
  BY SameCalls DEF Grows
<1>3. CartAtHand(s)'
  <2> SUFFICES ASSUME req[s].at \in WithCart
               PROVE  /\ req[s].cart <= lastCart'
                      /\ IF carts'[req[s].cart] = NoCart THEN InTx(s) ELSE carts'[req[s].cart].user = UserOf(s)
    BY <1>2 DEF CartAtHand
  <2> DEFINE c == req[s].cart
  <2>1. c \in Ids /\ c <= lastCart /\ lastCart \in Nat /\ lastCart' >= lastCart
    BY <1>1 DEF IInv, RowsTypeOK, RequestInv, CartAtHand, Grows
  <2>2. carts[c] = NoCart /\ req[r].at \in WithCart => req[r].cart # c
    BY DEF IInv, OwnCarts
  <2>3. IF carts[c] = NoCart THEN InTx(s) ELSE carts[c].user = UserOf(s)
    BY <1>1 DEF RequestInv, CartAtHand
  <2>4. ~(c > lastCart) /\ c \in Int
    BY <2>1 DEF Ids
  <2>5. IF carts[c] = NoCart THEN carts'[c] = NoCart
        ELSE carts'[c] # NoCart /\ carts'[c].user = carts[c].user
    BY <2>1, <2>2, <2>4 DEF Grows, CartsGrow
  <2>6. c <= lastCart'
    <3>1. lastCart' \in Int
      BY DEF RowsTypeOK
    <3> QED BY <2>1, <2>4, <3>1
  <2> QED BY <2>3, <2>5, <2>6
<1>4. RowsAtHand(s)'
  <2>1. RowsAtHand(s) /\ lastItem \in Int /\ lastItem' \in Int /\ lastItem <= lastItem'
    BY <1>1, Bounds DEF RequestInv, Grows, IInv, RowsTypeOK
  <2>2. call'[s] = call[s]
    BY DEF Grows
  <2>3. ASSUME NEW h \in req[s].held
        PROVE  /\ h.id <= lastItem'
               /\ items'[h.id] # NoItem => /\ items'[h.id].cart = h.row.cart
                                           /\ items'[h.id].product = h.row.product
               /\ Op(s) = "add" => h.row.product = call'[s].product
    <3>1. h.id \in Ids /\ h.id \in Int
      <4>1. req[s] \in Request
        BY DEF IInv, RowsTypeOK
      <4> QED BY <4>1 DEF Request, Ids
    <3>2. h.id <= lastItem /\ h.id <= lastItem'
      BY <2>1, <3>1 DEF RowsAtHand
    <3>3. items'[h.id] # NoItem =>
            items[h.id] # NoItem /\ items'[h.id].cart = items[h.id].cart /\ items'[h.id].product = items[h.id].product
      BY <3>1, <3>2 DEF Grows, ItemsGrow
    <3> QED BY <2>1, <2>2, <3>2, <3>3 DEF RowsAtHand
  <2> QED BY <1>2, <2>1, <2>3 DEF RowsAtHand
<1>5. Course(s)'
  BY <1>1, <1>2 DEF RequestInv, Course
<1> QED BY <1>3, <1>4, <1>5 DEF RequestInv

LEMMA StepKept ==
    ASSUME IInv, NEW r \in Requests, Grows(r), OthersWait(r), CartFrom(r), RowsTypeOK', RequestInv(r)',
           \E wroteTo \in [Requests -> 0 .. MaxRows] : Accounted(wroteTo)'
    PROVE  IInv'
<1>1. \A s \in Requests : RequestInv(s)'
  BY OtherKept DEF OthersWait
<1>2. StartsKept'
  <2>1. /\ Cardinality(Starts) \in Int /\ lastItem \in Int /\ lastItem' \in Int
        /\ lastItem <= lastItem' /\ StartsKept
    BY Bounds DEF IInv, RowsTypeOK, Grows
  <2>2. ASSUME NEW i \in Ids, i <= Cardinality(Starts), items'[i] # NoItem
        PROVE  items'[i].cart = i /\ items'[i].product = StartsWith
    <3>1. i \in Int /\ i <= lastItem
      BY <2>1, <2>2 DEF StartsKept, Ids
    <3>2. items[i] # NoItem /\ items'[i].cart = items[i].cart /\ items'[i].product = items[i].product
      BY <2>2, <3>1 DEF Grows, ItemsGrow
    <3> QED BY <2>1, <2>2, <3>2 DEF StartsKept
  <2>3. Cardinality(Starts) <= lastItem'
    BY <2>1 DEF StartsKept
  <2> QED BY <2>2, <2>3 DEF StartsKept
<1>3. OwnCarts'
  <2> SUFFICES ASSUME NEW s \in Requests, NEW t \in Requests, s # t,
                      req'[s].at \in WithCart, req'[t].at \in WithCart, req'[s].cart = req'[t].cart
               PROVE  carts'[req'[s].cart] # NoCart
    BY DEF OwnCarts
  <2>1. ASSUME NEW a \in Requests, a # r, req'[a].at \in WithCart
        PROVE  req'[a] = req[a] /\ req[a].cart \in Ids /\ req[a].cart <= lastCart
    BY <2>1 DEF OthersWait, IInv, RowsTypeOK, RequestInv, CartAtHand
  <2>2. ASSUME NEW a \in Requests, NEW b \in Requests, a # b, a # r, req'[a].at \in WithCart,
               req[b].at \in WithCart, req[a].cart = req[b].cart
        PROVE  carts'[req[a].cart] # NoCart
    <3>1. carts[req[a].cart] # NoCart
      BY <2>1, <2>2 DEF IInv, OwnCarts
    <3> QED BY <2>1, <2>2, <3>1 DEF Grows, CartsGrow
  <2>3. ASSUME NEW a \in Requests, a # r, req'[a].at \in WithCart, req'[r].at \in WithCart,
               req'[a].cart = req'[r].cart
        PROVE  carts'[req'[a].cart] # NoCart
    <3>1. CASE req'[r].cart > lastCart
      <4>1. lastCart \in Int /\ req[a].cart \in Int
        BY <2>1, <2>3, Bounds, SMTT(30) DEF IInv, RowsTypeOK, Ids
      <4> QED BY <2>1, <2>3, <3>1, <4>1
    <3>2. CASE carts'[req'[r].cart] # NoCart
      BY <2>3, <3>2
    <3>3. CASE req[r].at \in WithCart /\ req'[r].cart = req[r].cart
      BY <2>1, <2>2, <2>3, <3>3
    <3> QED BY <2>3, <3>1, <3>2, <3>3 DEF CartFrom
  <2>4. CASE s # r /\ t # r
    BY <2>1, <2>2, <2>4
  <2>5. CASE s = r
    BY <2>3, <2>5
  <2>6. CASE t = r
    BY <2>3, <2>6
  <2> QED BY <2>4, <2>5, <2>6
<1> QED BY <1>1, <1>2, <1>3 DEF IInv
-----------------------------------------------------------------------------
(* Who wrote what.                                                         *)

Quantities == [r \in Requests |-> call[r].qty]

LEMMA CreditType ==
    ASSUME RowsTypeOK, NEW wroteTo, NEW i
    PROVE  /\ IsFiniteSet({r \in Requests : wroteTo[r] = i})
           /\ SumFunctionOnSet(Quantities, {r \in Requests : wroteTo[r] = i}) \in Nat
           /\ (IF i <= Cardinality(Starts) THEN StartItem(i).qty ELSE 0) \in Nat
           /\ Credit(wroteTo, i) \in Nat
<1>1. IsFiniteSet({r \in Requests : wroteTo[r] = i})
  BY CartAssumption, FS_Subset
<1>2. \A r \in {r \in Requests : wroteTo[r] = i} : Quantities[r] \in Nat
  BY DEF RowsTypeOK, Quantities, Call
<1>3. SumFunctionOnSet(Quantities, {r \in Requests : wroteTo[r] = i}) \in Nat
  BY <1>1, <1>2, SumType
<1>4. StartItem(i).qty \in Nat
  BY CartAssumption DEF StartItem, ItemRow
<1> QED BY <1>1, <1>3, <1>4 DEF Credit, Quantities

LEMMA CreditSame ==
    ASSUME UNCHANGED call, NEW wroteTo, NEW i
    PROVE  Credit(wroteTo, i)' = Credit(wroteTo, i)
BY DEF Credit, StartItem

\* A request that writes for the first time has its row credited.
LEMMA CreditGiven ==
    ASSUME RowsTypeOK, UNCHANGED call, NEW before \in [Requests -> 0 .. MaxRows],
           NEW r \in Requests, before[r] = 0, NEW i \in Ids
    PROVE  \E wroteTo \in [Requests -> 0 .. MaxRows] :
             /\ wroteTo[r] = i /\ \A s \in Requests : s # r => wroteTo[s] = before[s]
             /\ \A j \in Ids : /\ j = i => Credit(wroteTo, j)' = Credit(before, j) + call[r].qty
                               /\ j # i => Credit(wroteTo, j)' = Credit(before, j)
                               /\ Credit(before, j) \in Nat /\ call[r].qty \in Nat
<1> PICK wroteTo : wroteTo = [before EXCEPT ![r] = i]
  OBVIOUS
<1>1. wroteTo[r] = i /\ \A s \in Requests : s # r => wroteTo[s] = before[s]
  OBVIOUS
<1>2. ASSUME NEW j \in Ids
      PROVE  /\ wroteTo \in [Requests -> 0 .. MaxRows]
             /\ j = i => Credit(wroteTo, j) = Credit(before, j) + call[r].qty
             /\ j # i => Credit(wroteTo, j) = Credit(before, j)
             /\ Credit(before, j) \in Nat /\ call[r].qty \in Nat
  <2> DEFINE had == {s \in Requests : before[s] = j}
             now == {s \in Requests : wroteTo[s] = j}
  <2>1. wroteTo \in [Requests -> 0 .. MaxRows] /\ j # 0
    BY Bounds DEF Ids
  <2>2. now = IF j = i THEN had \cup {r} ELSE had
    BY <2>1
  <2>3. r \notin had
    BY <2>1
  <2>4. Quantities[r] = call[r].qty /\ \A s \in Requests : Quantities[s] \in Nat
    BY DEF RowsTypeOK, Quantities, Call
  <2>5. /\ IsFiniteSet(had) /\ SumFunctionOnSet(Quantities, had) \in Nat
        /\ (IF j <= Cardinality(Starts) THEN StartItem(j).qty ELSE 0) \in Nat
        /\ Credit(before, j) \in Nat
    BY CreditType
  <2>6. SumFunctionOnSet(Quantities, had \cup {r}) = Quantities[r] + SumFunctionOnSet(Quantities, had)
    <3>1. \A s \in had \cup {r} : Quantities[s] \in Int
      BY <2>4
    <3> HIDE DEF had
    <3> QED BY <2>3, <2>5, <3>1, SumAdd
  <2>7. /\ Credit(before, j) = (IF j <= Cardinality(Starts) THEN StartItem(j).qty ELSE 0)
                                + SumFunctionOnSet(Quantities, had)
        /\ Credit(wroteTo, j) = (IF j <= Cardinality(Starts) THEN StartItem(j).qty ELSE 0)
                              + SumFunctionOnSet(Quantities, now)
    BY Zenon DEF Credit, Quantities
  <2> DEFINE start == IF j <= Cardinality(Starts) THEN StartItem(j).qty ELSE 0
  <2>8. SumFunctionOnSet(Quantities, now)
          = SumFunctionOnSet(Quantities, had) + (IF j = i THEN Quantities[r] ELSE 0)
    <3> HIDE DEF had, now
    <3>1. CASE j = i
      BY <2>2, <2>4, <2>5, <2>6, <3>1
    <3>2. CASE j # i
      BY <2>2, <2>5, <3>2
    <3> QED BY <3>1, <3>2
  <2> HIDE DEF start, had, now
  <2>9. Credit(wroteTo, j) = Credit(before, j) + (IF j = i THEN Quantities[r] ELSE 0)
    <3>1. start \in Nat /\ SumFunctionOnSet(Quantities, had) \in Nat /\ Quantities[r] \in Nat
      BY <2>4, <2>5 DEF start
    <3>2. /\ Credit(before, j) = start + SumFunctionOnSet(Quantities, had)
          /\ Credit(wroteTo, j) = start + SumFunctionOnSet(Quantities, now)
      BY <2>7 DEF start
    <3> QED BY <2>8, <3>1, <3>2
  <2> QED BY <2>1, <2>4, <2>5, <2>9
<1>3. \A j : Credit(wroteTo, j)' = Credit(wroteTo, j)
  BY CreditSame
<1> QED BY <1>1, <1>2, <1>3, ZenonT(30)

LEMMA WritersStay ==
    ASSUME IInv, RowsTypeOK', NEW r \in Requests, Grows(r), NEW s \in Requests,
           req[s].wrote => req'[s].wrote,
           NEW wroteTo \in [Requests -> 0 .. MaxRows], Accounted(wroteTo), wroteTo[s] # 0
    PROVE  /\ wroteTo[s] <= lastItem' /\ req'[s].wrote /\ Op(s)' \in {"add", "update"}
           /\ items'[wroteTo[s]] # NoItem =>
                /\ carts'[items'[wroteTo[s]].cart].user = UserOf(s)'
                /\ Op(s)' = "add" => items'[wroteTo[s]].product = call'[s].product
<1> DEFINE i == wroteTo[s]
<1>1. /\ i \in Ids /\ i \in Int /\ lastItem \in Int /\ lastItem' \in Int /\ lastItem <= lastItem'
  BY Bounds DEF IInv, RowsTypeOK, Grows, Ids
<1>2. /\ i <= lastItem /\ req[s].wrote /\ Op(s) \in {"add", "update"}
      /\ items[i] # NoItem =>
           /\ carts[items[i].cart].user = UserOf(s)
           /\ Op(s) = "add" => items[i].product = call[s].product
  BY DEF Accounted
<1>3. Op(s)' = Op(s) /\ UserOf(s)' = UserOf(s) /\ call'[s] = call[s]
  BY SameCalls DEF Grows
<1> HIDE DEF i
<1>4. ASSUME items'[i] # NoItem
      PROVE  /\ items[i] # NoItem /\ items'[i].cart = items[i].cart /\ items'[i].product = items[i].product
             /\ carts'[items'[i].cart].user = carts[items[i].cart].user
  <2>1. items[i] # NoItem /\ items'[i].cart = items[i].cart /\ items'[i].product = items[i].product
    BY <1>1, <1>2, <1>4 DEF Grows, ItemsGrow
  <2>2. items[i] \in ItemRows /\ carts[items[i].cart] # NoCart
    BY <1>1, <2>1 DEF IInv, RowsTypeOK
  <2>3. items[i].cart \in Ids
    BY <2>2 DEF ItemRows
  <2> QED BY <2>1, <2>2, <2>3 DEF Grows, CartsGrow
<1>5. i <= lastItem'
  BY <1>1, <1>2
<1>6. wroteTo[s] = i
  BY DEF i
<1> QED BY <1>2, <1>3, <1>4, <1>5, <1>6

\* A step that writes no quantity.
LEMMA AccountsKept ==
    ASSUME IInv, RowsTypeOK', NEW r \in Requests, Grows(r), OthersWait(r),
           req[r].wrote => req'[r].wrote,
           \A i \in Ids : items'[i] # NoItem => items[i] # NoItem /\ items'[i].qty = items[i].qty,
           \A h \in req'[r].held : \/ h \in req[r].held
                                   \/ items[h.id] # NoItem /\ h.row.qty = items[h.id].qty
    PROVE  \E wroteTo \in [Requests -> 0 .. MaxRows] : Accounted(wroteTo)'
<1>1. PICK wroteTo \in [Requests -> 0 .. MaxRows] : Accounted(wroteTo)
  BY DEF IInv
<1>2. \A i : Credit(wroteTo, i)' = Credit(wroteTo, i)
  BY CreditSame DEF Grows
<1>3. \A s \in Requests : req[s].wrote => req'[s].wrote
  BY DEF OthersWait
<1>4. \A i \in Ids : items'[i] # NoItem => items'[i].qty <= Credit(wroteTo, i)
  BY <1>1 DEF Accounted
<1>5. ASSUME NEW s \in Requests, NEW h \in req'[s].held PROVE h.row.qty <= Credit(wroteTo, h.id)
  <2>1. h \in req[s].held \/ (items[h.id] # NoItem /\ h.row.qty = items[h.id].qty)
    BY <1>5 DEF OthersWait
  <2>2. h.id \in Ids
    <3>1. req'[s] \in Request
      BY DEF RowsTypeOK
    <3> QED BY <3>1 DEF Request
  <2> QED BY <1>1, <2>1, <2>2 DEF Accounted
<1> QED BY <1>1, <1>2, <1>3, <1>4, <1>5, WritersStay DEF Accounted

\* A request's one write, to row i.
LEMMA AccountsWritten ==
    ASSUME IInv, RowsTypeOK', NEW r \in Requests, Grows(r), OthersWait(r),
           ~req[r].wrote, req'[r].wrote, req'[r].held = {}, Op(r) \in {"add", "update"},
           NEW i \in Ids, i <= lastItem',
           items'[i] # NoItem =>
             /\ carts'[items'[i].cart].user = UserOf(r)
             /\ Op(r) = "add" => items'[i].product = call[r].product
             /\ \/ items'[i].qty = call[r].qty
                \/ \E h \in req[r].held : h.id = i /\ items'[i].qty = h.row.qty + call[r].qty,
           \A j \in Ids \ {i} : items'[j] # NoItem => items[j] # NoItem /\ items'[j].qty = items[j].qty
    PROVE  \E wroteTo \in [Requests -> 0 .. MaxRows] : Accounted(wroteTo)'
<1>1. PICK before \in [Requests -> 0 .. MaxRows] : Accounted(before)
  BY DEF IInv
<1>2. RowsTypeOK /\ UNCHANGED call /\ before[r] = 0
  BY <1>1 DEF IInv, Grows, Accounted
<1>3. PICK wroteTo \in [Requests -> 0 .. MaxRows] :
        /\ wroteTo[r] = i /\ \A s \in Requests : s # r => wroteTo[s] = before[s]
        /\ \A j \in Ids : /\ j = i => Credit(wroteTo, j)' = Credit(before, j) + call[r].qty
                          /\ j # i => Credit(wroteTo, j)' = Credit(before, j)
                          /\ Credit(before, j) \in Nat /\ call[r].qty \in Nat
  BY <1>2, CreditGiven
<1>4. wroteTo[r] = i /\ \A s \in Requests : s # r => wroteTo[s] = before[s]
  BY <1>3
<1>5. Op(r)' = Op(r) /\ UserOf(r)' = UserOf(r) /\ call'[r] = call[r]
  BY SameCalls DEF Grows
<1>6. ASSUME NEW s \in Requests, wroteTo[s] # 0
      PROVE  /\ wroteTo[s] <= lastItem' /\ req'[s].wrote /\ Op(s)' \in {"add", "update"}
             /\ items'[wroteTo[s]] # NoItem =>
                  /\ carts'[items'[wroteTo[s]].cart].user = UserOf(s)'
                  /\ Op(s)' = "add" => items'[wroteTo[s]].product = call'[s].product
  <2>1. CASE s = r
    BY <1>4, <1>5, <2>1
  <2>2. CASE s # r
    BY <1>1, <1>4, <1>6, <2>2, WritersStay DEF OthersWait
  <2> QED BY <2>1, <2>2
<1>7. ASSUME NEW j \in Ids, items'[j] # NoItem PROVE items'[j].qty <= Credit(wroteTo, j)'
  <2>1. items'[j] \in ItemRows
    BY <1>7 DEF RowsTypeOK
  <2>2. items'[j].qty \in Nat
    BY <2>1 DEF ItemRows
  <2>3. CASE j # i
    BY <1>1, <1>3, <1>7, <2>2, <2>3 DEF Accounted
  <2>4. CASE j = i /\ items'[j].qty = call[r].qty
    BY <1>3, <2>2, <2>4
  <2>5. ASSUME j = i, NEW h \in req[r].held, h.id = i, items'[j].qty = h.row.qty + call[r].qty
        PROVE  items'[j].qty <= Credit(wroteTo, j)'
    <3>1. h.row.qty <= Credit(before, j)
      BY <1>1, <2>5 DEF Accounted
    <3>2. h.row.qty \in Nat
      <4>1. req[r] \in Request
        BY DEF IInv, RowsTypeOK
      <4> QED BY <4>1 DEF Request, ItemRows
    <3> QED BY <1>3, <2>5, <3>1, <3>2
  <2> QED BY <1>7, <2>3, <2>4, <2>5
<1>8. ASSUME NEW s \in Requests, NEW h \in req'[s].held PROVE h.row.qty <= Credit(wroteTo, h.id)'
  <2>1. s # r /\ h \in req[s].held
    BY <1>8 DEF OthersWait
  <2>2. req[s] \in Request
    BY DEF IInv, RowsTypeOK
  <2>3. h.id \in Ids /\ h.row.qty \in Nat
    BY <2>1, <2>2 DEF Request, ItemRows
  <2>4. h.row.qty <= Credit(before, h.id)
    BY <1>1, <2>1 DEF Accounted
  <2> QED BY <1>3, <2>3, <2>4
<1>9. Accounted(wroteTo)'
  BY <1>6, <1>7, <1>8 DEF Accounted
<1> QED BY <1>3, <1>9
-----------------------------------------------------------------------------
(* Steps that leave the rows of carts and items as they are.               *)

LEMMA StutterKept ==
    ASSUME IInv, RowsTypeOK', UNCHANGED <<rows, req, call, overlap>>
    PROVE  IInv'
<1>1. \A r \in Requests : Op(r)' = Op(r) /\ UserOf(r)' = UserOf(r) /\ (InTx(r)' <=> InTx(r))
  BY SameCalls
<1>2. OwnCarts' /\ StartsKept'
  BY DEF rows, OwnCarts, StartsKept, IInv
<1>3. \A r \in Requests : RequestInv(r)'
  BY <1>1 DEF rows, RequestInv, CartAtHand, RowsAtHand, Course, IInv
<1>4. \E wroteTo \in [Requests -> 0 .. MaxRows] : Accounted(wroteTo)'
  <2>1. PICK wroteTo \in [Requests -> 0 .. MaxRows] : Accounted(wroteTo)
    BY DEF IInv
  <2>2. \A i : Credit(wroteTo, i)' = Credit(wroteTo, i)
    BY CreditSame
  <2>3. /\ \A i \in Ids : items'[i] # NoItem => items'[i].qty <= Credit(wroteTo, i)
        /\ \A r \in Requests : \A h \in req'[r].held : h.row.qty <= Credit(wroteTo, h.id)
    BY <2>1 DEF rows, Accounted
  <2>4. \A r \in Requests : wroteTo[r] # 0 =>
          /\ wroteTo[r] <= lastItem' /\ req'[r].wrote /\ Op(r)' \in {"add", "update"}
          /\ items'[wroteTo[r]] # NoItem =>
               /\ carts'[items'[wroteTo[r]].cart].user = UserOf(r)'
               /\ Op(r)' = "add" => items'[wroteTo[r]].product = call'[r].product
    BY <1>1, <2>1 DEF rows, Accounted
  <2> QED BY <2>2, <2>3, <2>4 DEF Accounted
<1> QED BY <1>2, <1>3, <1>4 DEF IInv

\* What RowsTypeOK says of the variables a request's step gives a new value.
Answers ==
    /\ failures \in Nat
    /\ orders \in [Requests -> SUBSET LineRow]
    /\ placed \in [Users -> Seq([Products -> Nat])]

RequestTyped(r) ==
    /\ req[r].at \in WithCart => req[r].cart \in Ids
    /\ \A h \in req[r].held : h.row.cart = req[r].cart

LEMMA RequestsTyped ==
    ASSUME RowsTypeOK, NEW r \in Requests, OthersWait(r), RequestTyped(r)'
    PROVE  \A s \in Requests : /\ req'[s].at \in WithCart => req'[s].cart \in Ids
                               /\ \A h \in req'[s].held : h.row.cart = req'[s].cart
<1> SUFFICES ASSUME NEW s \in Requests PROVE RequestTyped(s)'
  BY DEF RequestTyped
<1>1. CASE s = r
  BY <1>1
<1>2. CASE s # r
  <2>1. RequestTyped(s)
    BY DEF RowsTypeOK, RequestTyped
  <2> QED BY <1>2, <2>1 DEF RequestTyped, OthersWait
<1> QED BY <1>1, <1>2

LEMMA QuietKept ==
    ASSUME IInv, NEW r \in Requests, UNCHANGED <<rows, price, call, overlap>>, Answers',
           req' \in [Requests -> Request], OthersWait(r),
           RequestTyped(r)', RequestInv(r)', CartFrom(r), req[r].wrote => req'[r].wrote,
           \A h \in req'[r].held : \/ h \in req[r].held
                                   \/ items[h.id] # NoItem /\ h.row.qty = items[h.id].qty
    PROVE  IInv'
<1>1. RowsTypeOK'
  <2>1. RowsTypeOK
    BY DEF IInv
  <2>2. \A s \in Requests : /\ req'[s].at \in WithCart => req'[s].cart \in Ids
                            /\ \A h \in req'[s].held : h.row.cart = req'[s].cart
    BY <2>1, RequestsTyped
  <2>3. /\ carts' \in [Ids -> CartRows \cup {NoCart}] /\ lastCart' \in 0 .. MaxRows
        /\ items' \in [Ids -> ItemRows \cup {NoItem}] /\ lastItem' \in 0 .. MaxRows
        /\ \A c \in Ids : carts'[c] # NoCart => c <= lastCart'
        /\ \A i \in Ids : items'[i] # NoItem => i <= lastItem' /\ carts'[items'[i].cart] # NoCart
        /\ price' \in [Products -> Nat]
        /\ call' \in [Requests -> Call] /\ overlap' \in 1 .. MaxOverlap
    BY <2>1 DEF RowsTypeOK, rows
  <2> QED BY <2>2, <2>3 DEF RowsTypeOK, Answers
<1>2. Grows(r)
  <2>1. lastCart <= lastCart' /\ lastItem <= lastItem'
    BY Bounds DEF IInv, RowsTypeOK, rows
  <2>2. carts' = carts /\ items' = items
    BY DEF rows
  <2>3. UNCHANGED <<call, overlap>>
    OBVIOUS
  <2>4. CartsGrow(r) /\ ItemsGrow
    BY <2>2 DEF CartsGrow, ItemsGrow
  <2> QED BY <2>1, <2>3, <2>4 DEF Grows
<1>3. \E wroteTo \in [Requests -> 0 .. MaxRows] : Accounted(wroteTo)'
  <2>1. \A i \in Ids : items'[i] # NoItem => items[i] # NoItem /\ items'[i].qty = items[i].qty
    BY DEF rows
  <2> QED BY <1>1, <1>2, <2>1, AccountsKept
<1> QED BY <1>1, <1>2, <1>3, StepKept

\* A request that is over.
LEMMA OverKept ==
    ASSUME IInv, NEW r \in Requests, NEW at \in {"answered", "refused", "failed"}, NEW wrote \in BOOLEAN,
           Finish(r, at, wrote), UNCHANGED call, wrote => Op(r) # "view" /\ at # "refused"
    PROVE  /\ req' \in [Requests -> Request] /\ OthersWait(r) /\ Is(r, at, 0, {}, 0, wrote)
           /\ RequestTyped(r)' /\ RequestInv(r)' /\ CartFrom(r)
<1>1. req' \in [Requests -> Request] /\ OthersWait(r) /\ Is(r, at, 0, {}, 0, wrote)
  BY Finished DEF IInv, Ats
<1>2. /\ req'[r].at = at /\ req'[r].held = {} /\ req'[r].wrote = wrote
      /\ at \notin WithCart /\ at \notin Busy /\ at \notin {"expected", "reading", "writing", "showing"}
  BY <1>1 DEF Is, WithCart, Busy
<1>3. Op(r)' = Op(r)
  BY SameCalls
<1>5. RequestTyped(r)' /\ CartFrom(r) /\ CartAtHand(r)' /\ RowsAtHand(r)'
  BY <1>2, FS_EmptySet DEF RequestTyped, CartFrom, CartAtHand, RowsAtHand
<1>6. Course(r)'
  BY <1>2, <1>3 DEF Course
<1> QED BY <1>1, <1>5, <1>6 DEF RequestInv

LEMMA AnswersSame == ASSUME RowsTypeOK, UNCHANGED <<failures, seen>> PROVE Answers'
BY DEF RowsTypeOK, Answers, seen

LEMMA MaxActive ==
    ASSUME NEW u, NEW table, ActiveCarts(u, table) # {}
    PROVE  /\ Max(ActiveCarts(u, table)) \in Ids
           /\ table[Max(ActiveCarts(u, table))] = CartRow(u, "active")
<1> DEFINE S == ActiveCarts(u, table)
<1>1. S \subseteq Ids /\ \A c \in S : table[c] = CartRow(u, "active")
  BY DEF ActiveCarts
<1>2. IsFiniteSet(S) /\ S \subseteq Int /\ S # {}
  <2>1. IsFiniteSet(S)
    BY <1>1, Bounds, FS_Subset
  <2> QED BY <1>1, <2>1 DEF Ids
<1> HIDE DEF S
<1>3. Max(S) \in S
  BY <1>2, MaxOf
<1> QED BY <1>1, <1>3 DEF S

LEMMA OverIInv ==
    ASSUME IInv, NEW r \in Requests, NEW at \in {"answered", "refused", "failed"}, NEW wrote \in BOOLEAN,
           Finish(r, at, wrote), UNCHANGED <<rows, price, call, overlap>>, Answers',
           wrote => Op(r) # "view" /\ at # "refused", req[r].wrote => wrote
    PROVE  IInv'
<1>1. UNCHANGED call
  OBVIOUS
<1>2. /\ req' \in [Requests -> Request] /\ OthersWait(r) /\ Is(r, at, 0, {}, 0, wrote)
      /\ RequestTyped(r)' /\ RequestInv(r)' /\ CartFrom(r)
  BY <1>1, OverKept
<1>3. (req[r].wrote => req'[r].wrote) /\ req'[r].held = {}
  BY <1>2 DEF Is
<1> QED BY <1>2, <1>3, QuietKept

LEMMA RefuseKept ==
    ASSUME IInv, NEW r \in Requests, Refuse(r), req[r].at \in {"reading", "writing"}
    PROVE  IInv'
<1>1. ~req[r].wrote
  BY DEF IInv, RequestInv, Course
<1>2. Finish(r, "refused", FALSE) /\ UNCHANGED <<rows, price, call, overlap>> /\ UNCHANGED <<failures, seen>>
  BY DEF Refuse
<1>3. Answers'
  BY <1>2, AnswersSame DEF IInv
<1> QED BY <1>1, <1>2, <1>3, OverIInv

\* A request that has not yet found its cart, or not again.
LEMMA SeeksKept ==
    ASSUME IInv, NEW r \in Requests, NEW at \in {"looking", "creating"}, NEW cart, NEW quoted, NEW wrote,
           req' \in [Requests -> Request], OthersWait(r), Is(r, at, cart, {}, quoted, wrote),
           UNCHANGED <<rows, price, failures, call, overlap, seen>>,
           req[r].at \in Busy \/ ~wrote, wrote = req[r].wrote
    PROVE  IInv'
<1>1. /\ req'[r].at = at /\ req'[r].held = {} /\ req'[r].wrote = req[r].wrote
      /\ at \notin WithCart /\ at \notin {"expected", "refused", "reading", "writing", "showing"}
  BY DEF Is, WithCart
<1>2. Op(r)' = Op(r) /\ UNCHANGED <<rows, price, call, overlap>> /\ UNCHANGED <<failures, seen>>
  BY SameCalls
<1>3. Answers'
  BY <1>2, AnswersSame DEF IInv
<1>4. RequestTyped(r)' /\ CartFrom(r) /\ CartAtHand(r)' /\ RowsAtHand(r)'
  BY <1>1, FS_EmptySet DEF RequestTyped, CartFrom, CartAtHand, RowsAtHand
<1>5. Course(r)'
  <2>1. (Op(r) = "view" => ~req[r].wrote) /\ (req[r].wrote => ~InTx(r))
    BY DEF IInv, RequestInv, Course
  <2>2. InTx(r)' <=> InTx(r)
    BY SameCalls
  <2> QED BY <1>1, <1>2, <2>1, <2>2 DEF Course
<1>6. RequestInv(r)'
  BY <1>4, <1>5 DEF RequestInv
<1>7. (req[r].wrote => req'[r].wrote) /\ \A h \in req'[r].held : FALSE
  BY <1>1
<1> QED BY <1>2, <1>3, <1>4, <1>6, <1>7, QuietKept

LEMMA ReceiveKept == ASSUME IInv, NEW r \in Requests, Receive(r) PROVE IInv'
<1>1. UNCHANGED <<rows, price, failures, call, overlap, seen>> /\ req[r].at = "expected" /\ RowsTypeOK
  BY DEF Receive, IInv
<1>2. ~req[r].wrote /\ req[r].held = {}
  BY <1>1 DEF IInv, RequestInv, Course
<1>3. CASE Finish(r, "refused", FALSE)
  <2>1. UNCHANGED <<rows, price, call, overlap>> /\ UNCHANGED <<failures, seen>>
    BY <1>1
  <2>2. Answers'
    BY <1>1, <2>1, AnswersSame
  <2> QED BY <1>2, <1>3, <2>1, <2>2, OverIInv
<1>4. ASSUME NEW quoted \in Nat, req' = [req EXCEPT ![r].at = "looking", ![r].quoted = quoted] PROVE IInv'
  <2>1. /\ req' \in [Requests -> Request] /\ OthersWait(r)
        /\ Is(r, "looking", req[r].cart, {}, quoted, req[r].wrote)
    BY <1>1, <1>2, <1>4, GoesWithPrice DEF Ats, Busy
  <2> QED BY <1>1, <1>2, <2>1, SeeksKept
<1>5. (IF Op(r) = "add" THEN price[call[r].product] ELSE 0) \in Nat
  <2>1. call[r] \in Call
    BY <1>1 DEF RowsTypeOK
  <2> QED BY <1>1, <2>1 DEF RowsTypeOK, Call
<1> QED BY <1>3, <1>4, <1>5 DEF Receive

\* A cart has been found or made.
LEMMA Opens ==
    ASSUME IInv, NEW r \in Requests, req[r].at \in {"looking", "creating"}, UNCHANGED call, NEW cart \in Ids,
           req' = [req EXCEPT ![r].at = Opened(r), ![r].cart = cart], cart <= lastCart',
           IF carts'[cart] = NoCart THEN InTx(r) ELSE carts'[cart].user = UserOf(r)
    PROVE  /\ req' \in [Requests -> Request] /\ OthersWait(r)
           /\ Is(r, Opened(r), cart, {}, req[r].quoted, req[r].wrote)
           /\ RequestTyped(r)' /\ RequestInv(r)'
<1>1. req[r].held = {} /\ (Op(r) = "view" => ~req[r].wrote) /\ (req[r].wrote => ~InTx(r))
  BY DEF IInv, RequestInv, Course, Busy
<1>2. /\ Opened(r) \in {"reading", "showing"} /\ Opened(r) \in Ats /\ cart \in 0 .. MaxRows
      /\ Opened(r) = "showing" => req[r].wrote \/ Op(r) = "view"
      /\ Opened(r) = "reading" => ~req[r].wrote /\ Op(r) # "view"
  BY Bounds DEF Opened, Ats, Busy, WithCart, Ids
<1>3. /\ req' \in [Requests -> Request] /\ OthersWait(r)
      /\ Is(r, Opened(r), cart, {}, req[r].quoted, req[r].wrote)
  <2>1. RowsTypeOK
    BY DEF IInv
  <2>2. /\ req' \in [Requests -> Request] /\ OthersWait(r)
        /\ Is(r, Opened(r), cart, req[r].held, req[r].quoted, req[r].wrote)
    BY <1>2, <2>1, GoesWithCart
  <2> QED BY <1>1, <2>2
<1>4. req'[r].at = Opened(r) /\ req'[r].cart = cart /\ req'[r].held = {} /\ req'[r].wrote = req[r].wrote
  BY <1>3 DEF Is
<1>5. Op(r)' = Op(r) /\ UserOf(r)' = UserOf(r) /\ (InTx(r)' <=> InTx(r))
  BY SameCalls
<1>6. RequestTyped(r)' /\ RowsAtHand(r)'
  BY <1>4, FS_EmptySet DEF RequestTyped, RowsAtHand
<1>7. CartAtHand(r)'
  BY <1>4, <1>5 DEF CartAtHand
<1>8. Course(r)'
  BY <1>1, <1>2, <1>4, <1>5 DEF Course
<1> QED BY <1>3, <1>6, <1>7, <1>8 DEF RequestInv

LEMMA LookKept == ASSUME IInv, NEW r \in Requests, Look(r) PROVE IInv'
<1>1. UNCHANGED <<rows, price, failures, call, overlap, seen>> /\ req[r].at = "looking" /\ RowsTypeOK
  BY DEF Look, IInv
<1>2. req[r].held = {}
  BY <1>1 DEF IInv, RequestInv, Course
<1> DEFINE active == ActiveCarts(UserOf(r), carts)
           cart == Max(active)
<1>3. CASE active = {}
  <2>1. req' = [req EXCEPT ![r].at = "creating"]
    BY <1>3 DEF Look
  <2>2. /\ req' \in [Requests -> Request] /\ OthersWait(r)
        /\ Is(r, "creating", req[r].cart, {}, req[r].quoted, req[r].wrote)
    BY <1>1, <1>2, <2>1, GoesAt DEF Ats, Busy
  <2> QED BY <1>1, <2>2, SeeksKept DEF Busy
<1>4. CASE active # {}
  <2>1. cart \in Ids /\ carts[cart] = CartRow(UserOf(r), "active")
    BY <1>4, MaxActive
  <2>2. req' = [req EXCEPT ![r].at = Opened(r), ![r].cart = cart]
    BY <1>4 DEF Look
  <2> HIDE DEF cart
  <2>3. carts' = carts /\ lastCart' = lastCart /\ UNCHANGED <<rows, price, call, overlap>>
        /\ UNCHANGED <<failures, seen>>
    BY <1>1 DEF rows
  <2>4. carts[cart] # NoCart /\ carts[cart].user = UserOf(r) /\ cart <= lastCart
    <3>1. carts[cart] # NoCart /\ carts[cart].user = UserOf(r)
      BY <2>1 DEF CartRow, NoCart
    <3> QED BY <1>1, <2>1, <3>1 DEF RowsTypeOK
  <2>5. /\ req' \in [Requests -> Request] /\ OthersWait(r)
        /\ Is(r, Opened(r), cart, {}, req[r].quoted, req[r].wrote)
        /\ RequestTyped(r)' /\ RequestInv(r)'
    BY <1>1, <2>1, <2>2, <2>3, <2>4, Opens
  <2>6. Answers'
    BY <1>1, <2>3, AnswersSame
  <2>7. req'[r].cart = cart /\ req'[r].held = {} /\ req'[r].wrote = req[r].wrote
    BY <2>5 DEF Is
  <2>8. CartFrom(r)
    BY <2>3, <2>4, <2>7 DEF CartFrom
  <2> QED BY <2>3, <2>5, <2>6, <2>7, <2>8, QuietKept
<1> QED BY <1>3, <1>4

\* Rows are read as they are, but for their price.
Held(ids, amounts) == {[id |-> i, row |-> [items[i] EXCEPT !.price = amounts[i]]] : i \in ids}

TakenFrom(held, ids, c, amounts) ==
    /\ held \in SUBSET Holdings /\ IsFiniteSet(held)
    /\ {h.id : h \in held} = ids
    /\ \A h \in held :
         /\ h.id \in ids /\ items[h.id] # NoItem /\ items[h.id].cart = c
         /\ h.row = [items[h.id] EXCEPT !.price = amounts[h.id]]
         /\ h.row.cart = c /\ h.row.product = items[h.id].product
         /\ h.row.qty = items[h.id].qty /\ h.row.price = amounts[h.id]
    /\ \A g, h \in held : g.id = h.id => g = h

LEMMA HeldRow ==
    ASSUME RowsTypeOK, NEW i \in Ids, items[i] # NoItem, NEW amount \in Nat
    PROVE  LET row == [items[i] EXCEPT !.price = amount] IN
           /\ row \in ItemRows /\ row.price = amount
           /\ row.cart = items[i].cart /\ row.product = items[i].product /\ row.qty = items[i].qty
<1>1. items[i] \in ItemRows
  BY DEF RowsTypeOK
<1> QED BY <1>1 DEF ItemRows

LEMMA HeldRows ==
    ASSUME RowsTypeOK, NEW c, NEW ids, ids \subseteq ItemsOf(c, items), NEW amounts \in [ids -> Nat]
    PROVE  TakenFrom(Held(ids, amounts), ids, c, amounts)
<1>1. ASSUME NEW i \in ids
      PROVE  LET h == [id |-> i, row |-> [items[i] EXCEPT !.price = amounts[i]]] IN
             /\ h \in Holdings /\ h.id = i /\ items[i] # NoItem /\ items[i].cart = c
             /\ h.row = [items[i] EXCEPT !.price = amounts[i]]
             /\ h.row.cart = c /\ h.row.product = items[i].product
             /\ h.row.qty = items[i].qty /\ h.row.price = amounts[i]
  <2> DEFINE row == [items[i] EXCEPT !.price = amounts[i]]
  <2>1. i \in Ids /\ items[i] # NoItem /\ items[i].cart = c /\ amounts[i] \in Nat
    BY DEF ItemsOf
  <2>2. /\ row \in ItemRows /\ row.price = amounts[i]
        /\ row.cart = items[i].cart /\ row.product = items[i].product /\ row.qty = items[i].qty
    BY <2>1, HeldRow
  <2>3. row = [items[i] EXCEPT !.price = amounts[i]]
    OBVIOUS
  <2> HIDE DEF row
  <2>4. [id |-> i, row |-> row] \in Holdings
    BY <2>1, <2>2 DEF Holdings
  <2> QED BY <2>1, <2>2, <2>3, <2>4
<1>2. ASSUME NEW h \in Held(ids, amounts)
      PROVE  \E i \in ids : h = [id |-> i, row |-> [items[i] EXCEPT !.price = amounts[i]]]
  BY DEF Held
<1>3. \A i \in ids : [id |-> i, row |-> [items[i] EXCEPT !.price = amounts[i]]] \in Held(ids, amounts)
  BY DEF Held
<1>4. ASSUME NEW h \in Held(ids, amounts)
      PROVE  /\ h \in Holdings /\ h.id \in ids /\ items[h.id] # NoItem /\ items[h.id].cart = c
             /\ h.row = [items[h.id] EXCEPT !.price = amounts[h.id]]
             /\ h.row.cart = c /\ h.row.product = items[h.id].product
             /\ h.row.qty = items[h.id].qty /\ h.row.price = amounts[h.id]
             /\ h = [id |-> h.id, row |-> [items[h.id] EXCEPT !.price = amounts[h.id]]]
  <2> PICK i \in ids : h = [id |-> i, row |-> [items[i] EXCEPT !.price = amounts[i]]]
    BY <1>2
  <2>1. h.id = i
    BY <1>1
  <2> QED BY <1>1, <2>1
<1>5. \A i \in ids : \E h \in Held(ids, amounts) : h.id = i
  BY <1>1, <1>3
<1> DEFINE held == Held(ids, amounts)
<1>6. {h.id : h \in held} = ids
  <2>1. \A h \in held : h.id \in ids
    BY <1>4
  <2>2. \A i \in ids : \E h \in held : h.id = i
    BY <1>5
  <2> HIDE DEF held
  <2> QED BY <2>1, <2>2
<1>7. ASSUME NEW g \in held, NEW h \in held, g.id = h.id PROVE g = h
  BY <1>4, <1>7
<1>8. held \in SUBSET Holdings
  BY <1>4
<1>9. IsFiniteSet(held)
  <2> DEFINE f == [i \in ids |-> [id |-> i, row |-> [items[i] EXCEPT !.price = amounts[i]]]]
  <2>1. IsFiniteSet(ids)
    <3>1. ids \subseteq Ids
      BY DEF ItemsOf
    <3> QED BY <3>1, Bounds, FS_Subset
  <2>2. f \in Surjection(ids, held)
    BY <1>2, <1>3 DEF Surjection
  <2> HIDE DEF f, held
  <2> QED BY <2>1, <2>2, FS_Surjection
<1> HIDE DEF held
<1> QED BY <1>4, <1>6, <1>7, <1>8, <1>9 DEF TakenFrom, held

LEMMA HoldKept ==
    ASSUME IInv, NEW r \in Requests, req[r].at = "reading", NEW ids, ids \subseteq ItemsOf(req[r].cart, items),
           NEW amounts \in [ids -> Nat],
           req' = [req EXCEPT ![r].at = "writing", ![r].held = Held(ids, amounts)],
           UNCHANGED <<rows, price, failures, call, overlap, seen>>,
           Op(r) = "add" => \A i \in ids : items[i].product = call[r].product,
           Op(r) \in {"add", "update", "remove"} => \A i, j \in ids : i = j,
           ids = {} => Op(r) \in {"add", "clear"}
    PROVE  IInv'
<1> DEFINE held == Held(ids, amounts)
           cart == req[r].cart
<1>1. RowsTypeOK /\ RequestInv(r) /\ cart \in Ids /\ "reading" \in WithCart /\ "writing" \in WithCart
  BY DEF IInv, RowsTypeOK, WithCart
<1>2. /\ held \in SUBSET Holdings /\ {h.id : h \in held} = ids
      /\ \A h \in held :
           /\ h.id \in ids /\ items[h.id] # NoItem /\ items[h.id].cart = cart
           /\ h.row.cart = cart /\ h.row.product = items[h.id].product
           /\ h.row.qty = items[h.id].qty
      /\ IsFiniteSet(held) /\ \A g, h \in held : g.id = h.id => g = h
  <2>1. TakenFrom(held, ids, cart, amounts)
    BY <1>1, HeldRows
  <2> HIDE DEF held
  <2> QED BY <2>1 DEF TakenFrom
<1> HIDE DEF held
<1>3. /\ req' \in [Requests -> Request] /\ OthersWait(r)
      /\ Is(r, "writing", cart, held, req[r].quoted, req[r].wrote)
  BY <1>1, <1>2, GoesWithRows DEF held, Ats, Busy
<1>4. /\ req'[r].at = "writing" /\ req'[r].cart = cart /\ req'[r].held = held
      /\ req'[r].wrote = req[r].wrote
  BY <1>3 DEF Is
<1>5. UNCHANGED <<rows, price, call, overlap>> /\ UNCHANGED <<failures, seen>>
      /\ carts' = carts /\ lastCart' = lastCart /\ items' = items /\ lastItem' = lastItem /\ call' = call
  BY DEF rows
<1>6. Op(r)' = Op(r) /\ UserOf(r)' = UserOf(r) /\ (InTx(r)' <=> InTx(r))
  BY <1>5, SameCalls
<1>7. Answers'
  BY <1>1, <1>5, AnswersSame
<1>8. RequestTyped(r)'
  BY <1>1, <1>2, <1>4 DEF RequestTyped
<1>9. CartAtHand(r)'
  BY <1>1, <1>4, <1>5, <1>6 DEF CartAtHand, RequestInv
<1>10. RowsAtHand(r)'
  <2>1. ASSUME NEW h \in held
        PROVE  /\ h.id <= lastItem
               /\ items[h.id] # NoItem => /\ items[h.id].cart = h.row.cart
                                          /\ items[h.id].product = h.row.product
               /\ Op(r) = "add" => h.row.product = call[r].product
    <3>1. h.id \in Ids
      BY <1>2 DEF ItemsOf
    <3>2. h.id <= lastItem
      BY <1>1, <1>2, <3>1 DEF RowsTypeOK
    <3> QED BY <1>2, <3>2
  <2>2. Op(r) \in {"add", "update", "remove"} => \A g, h \in held : g = h
    BY <1>2
  <2>3. IsFiniteSet(held)
    BY <1>2
  <2> QED BY <1>4, <1>5, <1>6, <2>1, <2>2, <2>3, ZenonT(30) DEF RowsAtHand
<1>11. Course(r)'
  <2>1. ~req[r].wrote /\ Op(r) # "view"
    BY <1>1 DEF RequestInv, Course
  <2>2. held = {} => Op(r) \in {"add", "clear"}
    BY <1>2
  <2> QED BY <1>4, <1>6, <2>1, <2>2 DEF Course
<1>12. CartFrom(r)
  BY <1>1, <1>4 DEF CartFrom
<1>13. /\ RequestInv(r)' /\ (req[r].wrote => req'[r].wrote)
       /\ \A h \in req'[r].held : items[h.id] # NoItem /\ h.row.qty = items[h.id].qty
  BY <1>2, <1>4, <1>9, <1>10, <1>11 DEF RequestInv
<1> QED BY <1>3, <1>5, <1>7, <1>8, <1>12, <1>13, QuietKept

LEMMA ItemsTyped ==
    ASSUME RowsTypeOK, NEW c
    PROVE  /\ ItemsOf(c, items) \subseteq Ids
           /\ \A i \in ItemsOf(c, items) :
                /\ items[i] \in ItemRows /\ items[i] # NoItem /\ items[i].cart = c
                /\ Snapshot(i) \in Nat /\ Charged(i) \in Nat
<1> SUFFICES ASSUME NEW i \in ItemsOf(c, items)
             PROVE  /\ i \in Ids /\ items[i] \in ItemRows /\ items[i] # NoItem /\ items[i].cart = c
                    /\ Snapshot(i) \in Nat /\ Charged(i) \in Nat
  OBVIOUS
<1>1. i \in Ids /\ items[i] # NoItem /\ items[i].cart = c
  BY DEF ItemsOf
<1>2. items[i] \in ItemRows
  BY <1>1 DEF RowsTypeOK
<1>3. items[i].price \in Nat /\ items[i].product \in Products
  BY <1>2 DEF ItemRows
<1>4. price[items[i].product] \in Nat
  BY <1>3 DEF RowsTypeOK
<1> QED BY <1>1, <1>2, <1>3, <1>4 DEF Snapshot, Charged

LEMMA ReadKept == ASSUME IInv, NEW r \in Requests, Read(r) PROVE IInv'
<1> DEFINE own == ItemsOf(req[r].cart, items)
<1>1. RowsTypeOK /\ req[r].at = "reading"
  BY DEF Read, IInv
<1>2. own \subseteq Ids /\ \A i \in own : items[i] # NoItem /\ Snapshot(i) \in Nat /\ Charged(i) \in Nat
  BY <1>1, ItemsTyped
<1>3. ASSUME NEW ids, ids \subseteq own, Hold(r, ids, Snapshot),
             Op(r) = "add" => \A i \in ids : items[i].product = call[r].product,
             Op(r) \in {"add", "update", "remove"} => \A i, j \in ids : i = j,
             ids = {} => Op(r) \in {"add", "clear"}
      PROVE  IInv'
  <2> DEFINE amounts == [i \in ids |-> Snapshot(i)]
  <2>1. amounts \in [ids -> Nat] /\ \A i \in ids : amounts[i] = Snapshot(i)
    BY <1>2, <1>3
  <2> HIDE DEF amounts
  <2>2. /\ req' = [req EXCEPT ![r].at = "writing", ![r].held = Held(ids, amounts)]
        /\ UNCHANGED <<rows, price, failures, call, overlap, seen>>
    <3>1. Hold(r, ids, Snapshot)
      BY <1>3
    <3>2. Held(ids, amounts) = {[id |-> i, row |-> [items[i] EXCEPT !.price = Snapshot(i)]] : i \in ids}
      BY <2>1 DEF Held
    <3> QED BY <3>1, <3>2 DEF Hold
  <2> QED BY <1>1, <1>3, <2>1, <2>2, HoldKept
<1>4. CASE ReadForAdd(r)
  <2> DEFINE same == {i \in own : items[i].product = call[r].product}
  <2>1. CASE same = {}
    <3>1. Op(r) = "add" /\ Hold(r, {}, Snapshot)
      BY <1>4, <2>1 DEF ReadForAdd
    <3> QED BY <1>3, <3>1
  <2>2. CASE same # {}
    <3>1. Op(r) = "add" /\ \E i \in same : Hold(r, {i}, Snapshot)
      BY <1>4, <2>2 DEF ReadForAdd
    <3>2. PICK i \in same : Hold(r, {i}, Snapshot)
      BY <3>1
    <3> QED BY <1>3, <3>1, <3>2
  <2> QED BY <2>1, <2>2
<1>5. CASE ReadItem(r)
  <2>1. PICK i \in Ids : IF i \in own THEN Hold(r, {i}, Snapshot) ELSE Refuse(r)
    BY <1>5 DEF ReadItem
  <2>2. Op(r) \in {"update", "remove"}
    BY <1>5 DEF ReadItem
  <2>3. CASE i \in own
    BY <1>3, <2>1, <2>2, <2>3
  <2>4. CASE i \notin own
    BY <1>1, <2>1, <2>4, RefuseKept
  <2> QED BY <2>3, <2>4
<1>6. CASE ReadForClear(r)
  BY <1>3, <1>6 DEF ReadForClear
<1>7. CASE ReadForCheckout(r)
  <2>1. CASE Refuse(r)
    BY <1>1, <2>1, RefuseKept
  <2>2. CASE own # {} /\ Hold(r, own, Charged)
    <3> DEFINE amounts == [i \in own |-> Charged(i)]
    <3>1. amounts \in [own -> Nat] /\ \A i \in own : amounts[i] = Charged(i)
      BY <1>2
    <3> HIDE DEF amounts
    <3>2. /\ req' = [req EXCEPT ![r].at = "writing", ![r].held = Held(own, amounts)]
          /\ UNCHANGED <<rows, price, failures, call, overlap, seen>>
      BY <2>2, <3>1, ZenonT(30) DEF Hold, Held
    <3>3. Op(r) = "checkout"
      BY <1>7 DEF ReadForCheckout
    <3> QED BY <1>1, <2>2, <3>1, <3>2, <3>3, HoldKept
  <2> QED BY <1>7, <2>1, <2>2 DEF ReadForCheckout
<1> QED BY <1>4, <1>5, <1>6, <1>7 DEF Read

LEMMA LinesTyped ==
    ASSUME NEW table \in [Ids -> ItemRows \cup {NoItem}], NEW c
    PROVE  Lines(c, table) \in SUBSET LineRow
<1> SUFFICES ASSUME NEW i \in ItemsOf(c, table) PROVE Line(i, table[i]) \in LineRow
  BY DEF Lines
<1>1. i \in Ids /\ table[i] \in ItemRows
  BY DEF ItemsOf
<1> QED BY <1>1 DEF Line, LineRow, ItemRows

LEMMA AnswersGiven ==
    ASSUME RowsTypeOK, NEW r \in Requests, NEW answer, Answer(r, answer)
    PROVE  Answers'
BY DEF RowsTypeOK, Answers, Answer

LEMMA ShowKept == ASSUME IInv, NEW r \in Requests, Show(r) PROVE IInv'
<1>1. /\ RowsTypeOK /\ req[r].at = "showing"
      /\ Finish(r, "answered", Op(r) # "view") /\ UNCHANGED <<rows, price, call, overlap>>
  BY DEF IInv, Show, Answer
<1>2. Answers'
  <2>1. Answer(r, Shows(Lines(req[r].cart, items), {}))
    BY DEF Show
  <2> QED BY <1>1, <2>1, AnswersGiven
<1>3. req[r].wrote => Op(r) # "view"
  BY DEF IInv, RequestInv, Course
<1> QED BY <1>1, <1>2, <1>3, OverIInv

LEMMA FailKept == ASSUME IInv, NEW r \in Requests, Fail(r) PROVE IInv'
<1>1. /\ RowsTypeOK /\ Finish(r, "failed", req[r].wrote) /\ UNCHANGED <<rows, price, call, overlap>>
      /\ UNCHANGED <<orders, placed>> /\ failures' = failures + 1
  BY DEF IInv, Fail
<1>2. Answers'
  <2>1. failures' \in Nat
    BY <1>1 DEF RowsTypeOK
  <2> QED BY <1>1, <2>1 DEF RowsTypeOK, Answers
<1>3. req[r].wrote => Op(r) # "view"
  BY DEF IInv, RequestInv, Course
<1>4. req[r].wrote \in BOOLEAN
  BY <1>1 DEF RowsTypeOK, Request
<1> QED BY <1>1, <1>2, <1>3, <1>4, OverIInv

LEMMA RowIsGoneKept == ASSUME IInv, NEW r \in Requests, RowIsGone(r) PROVE IInv'
BY RefuseKept DEF RowIsGone

LEMMA LoadKept == ASSUME IInv, NEW r \in Requests, Load(r) PROVE IInv'
<1>1. RowsTypeOK /\ UNCHANGED <<rows, price, req, failures, call, overlap, seen>>
  BY DEF IInv, Load
<1>2. RowsTypeOK'
  BY <1>1 DEF RowsTypeOK, rows, seen
<1>3. UNCHANGED <<rows, req, call, overlap>>
  BY <1>1
<1> QED BY <1>2, <1>3, StutterKept

LEMMA RepriceKept == ASSUME IInv, NEW p \in Products, Reprice(p) PROVE IInv'
<1>1. /\ RowsTypeOK /\ UNCHANGED <<rows, req, failures, call, overlap, seen>>
      /\ price' = [price EXCEPT ![p] = @ + 1]
  BY DEF IInv, Reprice
<1>2. price' \in [Products -> Nat]
  BY <1>1 DEF RowsTypeOK
<1>3. RowsTypeOK'
  BY <1>1, <1>2 DEF RowsTypeOK, rows, seen
<1> QED BY <1>1, <1>3, StutterKept
-----------------------------------------------------------------------------
(* Steps that write rows.                                                  *)

LEMMA CreateKept ==
    ASSUME IInv, NEW r \in Requests, Create(r)
    PROVE  IInv' /\ Grows(r) /\ OthersWait(r)
<1> DEFINE cart == lastCart + 1
           row == CartRow(UserOf(r), "active")
<1>1. /\ RowsTypeOK /\ req[r].at = "creating" /\ lastCart < MaxRows /\ lastCart' = cart
      /\ carts' = IF InTx(r) THEN carts ELSE [carts EXCEPT ![cart] = row]
      /\ req' = [req EXCEPT ![r].at = Opened(r), ![r].cart = cart]
      /\ UNCHANGED <<items, lastItem, price, failures, call, overlap, seen>>
  BY DEF IInv, Create
<1>2. lastCart \in Nat /\ cart \in Ids /\ cart \in 0 .. MaxRows /\ ~(cart <= lastCart) /\ cart <= cart
  BY <1>1, Bounds DEF RowsTypeOK, Ids
<1>3. row \in CartRows /\ row # NoCart /\ row.user = UserOf(r)
  <2>1. call[r] \in Call
    BY <1>1 DEF RowsTypeOK
  <2> QED BY <2>1 DEF UserOf, Call, CartRow, CartRows, NoCart
<1> HIDE DEF row
<1>4. carts \in [Ids -> CartRows \cup {NoCart}] /\ carts[cart] = NoCart
  BY <1>1, <1>2 DEF RowsTypeOK
<1>5. /\ carts' \in [Ids -> CartRows \cup {NoCart}]
      /\ \A c \in Ids : c # cart => carts'[c] = carts[c]
      /\ carts'[cart] = IF InTx(r) THEN NoCart ELSE row
  BY <1>1, <1>2, <1>3, <1>4
<1>6. cart <= lastCart' /\ IF carts'[cart] = NoCart THEN InTx(r) ELSE carts'[cart].user = UserOf(r)
  BY <1>1, <1>2, <1>3, <1>5
<1> HIDE DEF cart
<1>7. /\ req' \in [Requests -> Request] /\ OthersWait(r)
      /\ Is(r, Opened(r), cart, {}, req[r].quoted, req[r].wrote)
      /\ RequestTyped(r)' /\ RequestInv(r)'
  <2>1. req[r].at \in {"looking", "creating"} /\ UNCHANGED call
    BY <1>1
  <2> QED BY <1>1, <1>2, <1>6, <2>1, Opens
<1>8. req'[r].cart = cart /\ req'[r].held = {} /\ req'[r].wrote = req[r].wrote
  BY <1>7 DEF Is
<1>9. RowsTypeOK'
  <2>1. \A s \in Requests : /\ req'[s].at \in WithCart => req'[s].cart \in Ids
                            /\ \A h \in req'[s].held : h.row.cart = req'[s].cart
    BY <1>1, <1>7, RequestsTyped
  <2>2. \A c \in Ids : carts'[c] # NoCart => c <= lastCart'
    <3>1. ASSUME NEW c \in Ids, c # cart, carts'[c] # NoCart PROVE c <= lastCart'
      <4>1. c <= lastCart
        BY <1>1, <1>5, <3>1 DEF RowsTypeOK
      <4> QED BY <1>1, <1>2, <4>1 DEF Ids, cart
    <3> QED BY <1>6, <3>1
  <2>3. \A i \in Ids : items'[i] # NoItem => i <= lastItem' /\ carts'[items'[i].cart] # NoCart
    <3> SUFFICES ASSUME NEW i \in Ids, items[i] # NoItem
                 PROVE  i <= lastItem /\ carts'[items[i].cart] # NoCart
      BY <1>1
    <3>1. i <= lastItem /\ carts[items[i].cart] # NoCart /\ items[i].cart \in Ids
      BY <1>1 DEF RowsTypeOK, ItemRows
    <3> QED BY <1>4, <1>5, <3>1
  <2>4. lastCart' \in 0 .. MaxRows
    BY <1>1, <1>2
  <2> QED BY <1>1, <1>5, <1>7, <2>1, <2>2, <2>3, <2>4 DEF RowsTypeOK, seen
<1>10. Grows(r)
  <2>1. CartsGrow(r)
    BY <1>2, <1>3, <1>4, <1>5 DEF CartsGrow, cart
  <2>2. ItemsGrow /\ lastItem <= lastItem' /\ UNCHANGED <<call, overlap>>
    BY <1>1, Bounds DEF ItemsGrow, RowsTypeOK
  <2>3. lastCart <= lastCart'
    BY <1>1, <1>2 DEF cart
  <2> QED BY <2>1, <2>2, <2>3 DEF Grows
<1>11. CartFrom(r)
  BY <1>2, <1>8 DEF CartFrom, cart
<1>12. \E wroteTo \in [Requests -> 0 .. MaxRows] : Accounted(wroteTo)'
  <2>1. /\ \A i \in Ids : items'[i] # NoItem => items[i] # NoItem /\ items'[i].qty = items[i].qty
        /\ \A h \in req'[r].held : FALSE
        /\ req[r].wrote => req'[r].wrote
    BY <1>1, <1>8
  <2> QED BY <1>7, <1>9, <1>10, <2>1, AccountsKept
<1> QED BY <1>7, <1>9, <1>10, <1>11, <1>12, StepKept

LEMMA HeldQuantityType ==
    ASSUME IInv, NEW r \in Requests, NEW p
    PROVE  HeldQuantity(r, p) \in Nat
<1> DEFINE held == req[r].held
           f == [h \in held |-> IF h.row.product = p THEN h.row.qty ELSE 0]
<1>1. IsFiniteSet(held) /\ req[r] \in Request
  BY DEF IInv, RowsTypeOK, RequestInv, RowsAtHand
<1>2. DOMAIN f = held /\ \A h \in held : f[h] \in Nat
  BY <1>1 DEF Request, ItemRows
<1>3. HeldQuantity(r, p) = SumFunctionOnSet(f, DOMAIN f)
  BY Zenon DEF HeldQuantity, SumFunction
<1> HIDE DEF f, held
<1> QED BY <1>1, <1>2, <1>3, SumType

LEMMA PlaceOrderKept ==
    ASSUME IInv, NEW r \in Requests, PlaceOrder(r)
    PROVE  IInv' /\ Grows(r) /\ OthersWait(r)
<1> DEFINE cart == req[r].cart
           row == CartRow(UserOf(r), "checked_out")
           order == {Line(h.id, h.row) : h \in req[r].held}
           counts == [p \in Products |-> HeldQuantity(r, p)]
<1>1. /\ RowsTypeOK /\ req[r].at = "writing" /\ Op(r) = "checkout"
      /\ orders' = [orders EXCEPT ![r] = order]
      /\ carts' = [carts EXCEPT ![cart] = row]
      /\ placed' = [placed EXCEPT ![UserOf(r)] = Append(@, counts)]
      /\ shown' = [shown EXCEPT ![UserOf(r)] = None]
      /\ Finish(r, "answered", TRUE)
      /\ UNCHANGED <<items, lastCart, lastItem, price, failures, call, overlap>>
  BY DEF IInv, PlaceOrder
<1>2. UserOf(r) \in Users
  BY <1>1 DEF RowsTypeOK, UserOf, Call
<1>3. row \in CartRows /\ row # NoCart /\ row.user = UserOf(r)
  BY <1>2 DEF CartRow, CartRows, NoCart
<1>4. /\ cart \in Ids /\ cart <= lastCart /\ "writing" \in WithCart
      /\ carts[cart] # NoCart => carts[cart].user = UserOf(r)
  BY <1>1 DEF IInv, RowsTypeOK, RequestInv, CartAtHand, WithCart
<1>5. order \in SUBSET LineRow
  <2>1. req[r] \in Request
    BY <1>1 DEF RowsTypeOK
  <2>2. ASSUME NEW h \in req[r].held PROVE Line(h.id, h.row) \in LineRow
    BY <2>1 DEF Request, Line, LineRow, ItemRows
  <2> QED BY <2>2
<1>6. counts \in [Products -> Nat]
  BY HeldQuantityType
<1> HIDE DEF row, order, counts
<1>7. /\ req' \in [Requests -> Request] /\ OthersWait(r) /\ Is(r, "answered", 0, {}, 0, TRUE)
      /\ RequestTyped(r)' /\ RequestInv(r)' /\ CartFrom(r)
  <2>1. UNCHANGED call /\ TRUE \in BOOLEAN
    BY <1>1
  <2> QED BY <1>1, <2>1, OverKept
<1>8. req'[r].held = {} /\ req'[r].wrote
  BY <1>7 DEF Is
<1>9. Answers'
  <2>1. orders' \in [Requests -> SUBSET LineRow]
    BY <1>1, <1>5 DEF RowsTypeOK
  <2>2. placed' \in [Users -> Seq([Products -> Nat])]
    <3>1. placed \in [Users -> Seq([Products -> Nat])]
      BY <1>1 DEF RowsTypeOK
    <3>2. placed[UserOf(r)] \in Seq([Products -> Nat])
      BY <1>2, <3>1
    <3>3. Append(placed[UserOf(r)], counts) \in Seq([Products -> Nat])
      BY <1>6, <3>2
    <3> QED BY <1>1, <3>1, <3>3
  <2> QED BY <1>1, <2>1, <2>2 DEF Answers, RowsTypeOK
<1>10. /\ carts' \in [Ids -> CartRows \cup {NoCart}]
       /\ \A c \in Ids : c # cart => carts'[c] = carts[c]
       /\ carts'[cart] = row
  <2>1. carts \in [Ids -> CartRows \cup {NoCart}]
    BY <1>1 DEF RowsTypeOK
  <2> QED BY <1>1, <1>3, <1>4, <2>1
<1> HIDE DEF cart
<1>11. RowsTypeOK'
  <2>1. \A s \in Requests : /\ req'[s].at \in WithCart => req'[s].cart \in Ids
                            /\ \A h \in req'[s].held : h.row.cart = req'[s].cart
    BY <1>1, <1>7, RequestsTyped
  <2>2. \A c \in Ids : carts'[c] # NoCart => c <= lastCart'
    BY <1>1, <1>4, <1>10 DEF RowsTypeOK
  <2>3. \A i \in Ids : items'[i] # NoItem => i <= lastItem' /\ carts'[items'[i].cart] # NoCart
    <3> SUFFICES ASSUME NEW i \in Ids, items[i] # NoItem
                 PROVE  i <= lastItem /\ carts'[items[i].cart] # NoCart
      BY <1>1
    <3>1. i <= lastItem /\ carts[items[i].cart] # NoCart /\ items[i].cart \in Ids
      BY <1>1 DEF RowsTypeOK, ItemRows
    <3> QED BY <1>3, <1>10, <3>1
  <2>4. /\ lastCart' \in 0 .. MaxRows /\ items' \in [Ids -> ItemRows \cup {NoItem}] /\ lastItem' \in 0 .. MaxRows
        /\ price' \in [Products -> Nat] /\ call' \in [Requests -> Call] /\ overlap' \in 1 .. MaxOverlap
    BY <1>1 DEF RowsTypeOK
  <2> QED BY <1>7, <1>9, <1>10, <2>1, <2>2, <2>3, <2>4 DEF RowsTypeOK, Answers
<1>12. Grows(r)
  <2>1. CartsGrow(r)
    BY <1>1, <1>3, <1>4, <1>10 DEF CartsGrow, cart
  <2>2. ItemsGrow /\ lastItem <= lastItem' /\ lastCart <= lastCart' /\ UNCHANGED <<call, overlap>>
    BY <1>1, Bounds DEF ItemsGrow, RowsTypeOK
  <2> QED BY <2>1, <2>2 DEF Grows
<1>13. \E wroteTo \in [Requests -> 0 .. MaxRows] : Accounted(wroteTo)'
  <2>1. /\ \A i \in Ids : items'[i] # NoItem => items[i] # NoItem /\ items'[i].qty = items[i].qty
        /\ \A h \in req'[r].held : FALSE
        /\ req[r].wrote => req'[r].wrote
    BY <1>1, <1>8
  <2> QED BY <1>7, <1>11, <1>12, <2>1, AccountsKept
<1> QED BY <1>7, <1>11, <1>12, <1>13, StepKept

\* What a write does to the items: it adds or changes row i of the request's
\* cart, or it deletes rows.
ChangesRow(r, i) ==
    /\ i \in Ids /\ i <= lastItem'
    /\ items'[i] # NoItem =>
         /\ items'[i].cart = req[r].cart
         /\ Op(r) = "add" => items'[i].product = call[r].product
         /\ \/ items'[i].qty = call[r].qty
            \/ \E h \in req[r].held : h.id = i /\ items'[i].qty = h.row.qty + call[r].qty
    /\ \A j \in Ids \ {i} : items'[j] # NoItem => items[j] # NoItem /\ items'[j].qty = items[j].qty

Deletes == \A i \in Ids : items'[i] # NoItem => items'[i] = items[i]

ItemsWritten(r) ==
    /\ items' \in [Ids -> ItemRows \cup {NoItem}] /\ lastItem' \in 0 .. MaxRows /\ lastItem <= lastItem'
    /\ ItemsGrow
    /\ \A i \in Ids : items'[i] # NoItem =>
         /\ i <= lastItem'
         /\ items'[i].cart = req[r].cart \/ (items[i] # NoItem /\ items'[i].cart = items[i].cart)
    /\ IF Op(r) \in {"add", "update"} /\ ~NothingToWrite(r) THEN \E i \in Ids : ChangesRow(r, i) ELSE Deletes

LEMMA NewRow ==
    ASSUME RowsTypeOK, NEW r \in Requests, req[r].at = "writing", req[r].held = {}, lastItem < MaxRows,
           Op(r) = "add", lastItem' = lastItem + 1,
           items' = [items EXCEPT ![lastItem + 1] =
                       ItemRow(req[r].cart, call[r].product, call[r].qty, req[r].quoted)]
    PROVE  ItemsWritten(r)
<1> DEFINE new == lastItem + 1
           row == ItemRow(req[r].cart, call[r].product, call[r].qty, req[r].quoted)
<1>1. /\ lastItem \in Nat /\ new \in Ids /\ new \in 0 .. MaxRows /\ new = lastItem'
      /\ lastItem <= lastItem' /\ ~(new <= lastItem) /\ new <= new
  BY Bounds DEF RowsTypeOK, Ids
<1>2. req[r] \in Request /\ req[r].cart \in Ids /\ call[r] \in Call
  BY DEF RowsTypeOK, WithCart
<1>3. /\ row \in ItemRows /\ row # NoItem
      /\ row.cart = req[r].cart /\ row.product = call[r].product /\ row.qty = call[r].qty
  <2>1. req[r].quoted \in Nat /\ call[r].product \in Products /\ call[r].qty \in Nat \ {0}
    BY <1>2 DEF Request, Call
  <2> QED BY <1>2, <2>1 DEF ItemRow, ItemRows, NoItem
<1>4. items \in [Ids -> ItemRows \cup {NoItem}]
  BY DEF RowsTypeOK
<1> HIDE DEF row
<1>5. /\ items' \in [Ids -> ItemRows \cup {NoItem}] /\ items'[new] = row
      /\ \A i \in Ids : i # new => items'[i] = items[i]
  <2>1. items' = [items EXCEPT ![new] = row]
    BY DEF row
  <2> QED BY <1>1, <1>3, <1>4, <2>1
<1>6. ItemsGrow
  BY <1>1, <1>5 DEF ItemsGrow
<1>7. ASSUME NEW i \in Ids, items'[i] # NoItem
      PROVE  /\ i <= lastItem'
             /\ items'[i].cart = req[r].cart \/ (items[i] # NoItem /\ items'[i].cart = items[i].cart)
  <2>1. CASE i = new
    BY <1>1, <1>3, <1>5, <2>1
  <2>2. CASE i # new
    <3>1. items'[i] = items[i] /\ i <= lastItem
      BY <1>5, <1>7, <2>2 DEF RowsTypeOK
    <3> QED BY <1>1, <1>7, <3>1 DEF Ids
  <2> QED BY <2>1, <2>2
<1>8. ChangesRow(r, new)
  <2> HIDE DEF new
  <2>1. \A j \in Ids \ {new} : items'[j] # NoItem => items[j] # NoItem /\ items'[j].qty = items[j].qty
    BY <1>5
  <2>2. /\ new \in Ids /\ new <= lastItem' /\ items'[new].cart = req[r].cart
        /\ items'[new].product = call[r].product /\ items'[new].qty = call[r].qty
    BY <1>1, <1>3, <1>5
  <2> QED BY <2>1, <2>2 DEF ChangesRow
<1>9. Op(r) \in {"add", "update"} /\ ~NothingToWrite(r)
  BY DEF NothingToWrite
<1> HIDE DEF new
<1>10. \E i \in Ids : ChangesRow(r, i)
  BY <1>1, <1>8
<1> QED BY <1>1, <1>5, <1>6, <1>7, <1>9, <1>10 DEF ItemsWritten

LEMMA ChangedRow ==
    ASSUME IInv, NEW r \in Requests, req[r].at = "writing", Op(r) \in {"add", "update"}, ~NothingToWrite(r),
           NEW h \in req[r].held, NEW q \in Nat \ {0},
           q = call[r].qty \/ q = h.row.qty + call[r].qty, lastItem' = lastItem,
           items' = [i \in Ids |-> IF i = h.id /\ items[i] # NoItem
                                   THEN [h.row EXCEPT !.qty = q] ELSE items[i]]
    PROVE  ItemsWritten(r)
<1> DEFINE row == [h.row EXCEPT !.qty = q]
           i == h.id
<1>1. RowsTypeOK /\ RowsAtHand(r) /\ req[r] \in Request
  BY DEF IInv, RowsTypeOK, RequestInv
<1>2. i \in Ids /\ h.row \in ItemRows
  BY <1>1 DEF Request
<1>3. h.row.cart = req[r].cart /\ req[r].cart \in Ids
  BY <1>1 DEF RowsTypeOK, WithCart
<1>4. /\ i <= lastItem
      /\ items[i] # NoItem => items[i].cart = h.row.cart /\ items[i].product = h.row.product
      /\ Op(r) = "add" => h.row.product = call[r].product
  BY <1>1 DEF RowsAtHand
<1>5. /\ row \in ItemRows /\ row.cart = h.row.cart /\ row.product = h.row.product /\ row.qty = q
  BY <1>2 DEF ItemRows
<1>6. items \in [Ids -> ItemRows \cup {NoItem}] /\ lastItem \in 0 .. MaxRows /\ lastItem <= lastItem
  BY <1>1, Bounds DEF RowsTypeOK
<1> HIDE DEF row, i
<1>7. items' = [j \in Ids |-> IF j = i /\ items[j] # NoItem THEN row ELSE items[j]]
  BY DEF row, i
<1>8. /\ items' \in [Ids -> ItemRows \cup {NoItem}]
      /\ items'[i] = (IF items[i] # NoItem THEN row ELSE NoItem)
      /\ \A j \in Ids : j # i => items'[j] = items[j]
  BY <1>2, <1>5, <1>6, <1>7
<1>9. ItemsGrow
  BY <1>4, <1>5, <1>8 DEF ItemsGrow
<1>10. ASSUME NEW j \in Ids, items'[j] # NoItem
       PROVE  j <= lastItem' /\ items[j] # NoItem /\ items'[j].cart = items[j].cart
  <2>1. items[j] # NoItem
    BY <1>8, <1>10
  <2>2. j <= lastItem
    BY <1>1, <2>1 DEF RowsTypeOK
  <2> QED BY <1>4, <1>5, <1>8, <2>1, <2>2
<1>11. ChangesRow(r, i)
  <2>1. \A j \in Ids \ {i} : items'[j] # NoItem => items[j] # NoItem /\ items'[j].qty = items[j].qty
    BY <1>8
  <2>2. ASSUME items'[i] # NoItem
        PROVE  /\ items'[i].cart = req[r].cart
               /\ Op(r) = "add" => items'[i].product = call[r].product
               /\ items'[i].qty = call[r].qty \/ items'[i].qty = h.row.qty + call[r].qty
    <3>1. items'[i] = row
      BY <1>8, <2>2
    <3> QED BY <1>3, <1>4, <1>5, <3>1
  <2>3. h.id = i
    BY DEF i
  <2> QED BY <1>2, <1>4, <2>1, <2>2, <2>3 DEF ChangesRow
<1> QED BY <1>2, <1>6, <1>8, <1>9, <1>10, <1>11 DEF ItemsWritten

LEMMA GoneRows ==
    ASSUME IInv, NEW r \in Requests, Op(r) \in {"add", "update"} => NothingToWrite(r),
           NEW cleared, lastItem' = lastItem,
           items' = [i \in Ids |-> IF i \in cleared THEN NoItem ELSE items[i]]
    PROVE  ItemsWritten(r)
<1>1. RowsTypeOK /\ items \in [Ids -> ItemRows \cup {NoItem}] /\ lastItem \in 0 .. MaxRows /\ lastItem <= lastItem
  BY Bounds DEF IInv, RowsTypeOK
<1>2. items' \in [Ids -> ItemRows \cup {NoItem}] /\ \A i \in Ids : items'[i] # NoItem => items'[i] = items[i]
  BY <1>1
<1>3. ItemsGrow /\ Deletes
  BY <1>2 DEF ItemsGrow, Deletes
<1>4. \A i \in Ids : items'[i] # NoItem => i <= lastItem' /\ items[i] # NoItem /\ items'[i].cart = items[i].cart
  BY <1>1, <1>2 DEF RowsTypeOK
<1> QED BY <1>1, <1>2, <1>3, <1>4 DEF ItemsWritten

\* A request that adds to a row or changes it has read that row alone.
LEMMA OneHeld ==
    ASSUME IInv, NEW r \in Requests, Op(r) \in {"add", "update"}, NEW h \in req[r].held
    PROVE  HeldIds(r) = {h.id} /\ RowHeld(r, h.id) = h.row
<1>1. \A g \in req[r].held : g = h
  BY DEF IInv, RequestInv, RowsAtHand
<1>2. HeldIds(r) = {h.id}
  BY <1>1 DEF HeldIds
<1>3. (CHOOSE g \in req[r].held : g.id = h.id) = h
  BY <1>1
<1> QED BY <1>2, <1>3 DEF RowHeld

\* The three things a write can be.
AddsRow(r) ==
    /\ Op(r) = "add" /\ req[r].held = {} /\ lastItem < MaxRows /\ lastItem' = lastItem + 1
    /\ items' = [items EXCEPT ![lastItem + 1] =
                    ItemRow(req[r].cart, call[r].product, call[r].qty, req[r].quoted)]
ChangesHeld(r, h, q) ==
    /\ Op(r) \in {"add", "update"} /\ ~NothingToWrite(r) /\ lastItem' = lastItem
    /\ q = IF Op(r) = "add" THEN h.row.qty + call[r].qty ELSE call[r].qty
    /\ items' = [i \in Ids |-> IF i = h.id /\ items[i] # NoItem
                              THEN [h.row EXCEPT !.qty = q] ELSE items[i]]
DeletesRows(r, cleared) ==
    /\ lastItem' = lastItem
    /\ Op(r) \in {"add", "update"} => NothingToWrite(r) /\ cleared = {}
    /\ items' = [i \in Ids |-> IF i \in cleared THEN NoItem ELSE items[i]]
    /\ \A i \in cleared : i \in Ids /\ (items[i] # NoItem => items[i].cart = req[r].cart)
    /\ Op(r) = "clear" => cleared = HeldIds(r) \/ cleared = ItemsOf(req[r].cart, items)
    /\ Op(r) = "remove" => cleared = HeldIds(r)

LEMMA WriteForms ==
    ASSUME IInv, NEW r \in Requests, req[r].at = "writing", WriteItems(r)
    PROVE  \/ AddsRow(r)
           \/ \E h \in req[r].held : \E q \in Nat \ {0} : ChangesHeld(r, h, q)
           \/ \E cleared : DeletesRows(r, cleared)
<1>1. RowsTypeOK /\ call[r] \in Call /\ req[r] \in Request /\ lastItem \in Nat
  BY Bounds DEF IInv, RowsTypeOK
<1>2. HeldIds(r) = {} <=> req[r].held = {}
  BY DEF HeldIds
<1>3. CASE Op(r) = "add" /\ req[r].held = {}
  <2>1. /\ lastItem < MaxRows /\ lastItem' = lastItem + 1
        /\ items' = [items EXCEPT ![lastItem + 1] =
                       ItemRow(req[r].cart, call[r].product, call[r].qty, req[r].quoted)]
    BY <1>2, <1>3 DEF WriteItems, Added
  <2> QED BY <1>3, <2>1 DEF AddsRow
<1>4. CASE Op(r) = "add" /\ req[r].held # {}
  <2>1. PICK h \in req[r].held : TRUE
    BY <1>4
  <2>2. HeldIds(r) = {h.id} /\ RowHeld(r, h.id) = h.row
    BY <1>4, OneHeld
  <2>3. h.row \in ItemRows /\ call[r].qty \in Nat \ {0}
    BY <1>1 DEF Request, Call
  <2>4. h.row.qty \in Nat \ {0}
    BY <2>3 DEF ItemRows
  <2> DEFINE q == h.row.qty + call[r].qty
  <2>5. q \in Nat \ {0} /\ [h.row EXCEPT !.qty = @ + call[r].qty] = [h.row EXCEPT !.qty = q]
    BY <2>3, <2>4 DEF ItemRows
  <2>6. items' = [i \in Ids |-> IF i = h.id /\ items[i] # NoItem
                                THEN [h.row EXCEPT !.qty = q] ELSE items[i]]
    <3>1. items' = Added(r)
      BY <1>4 DEF WriteItems
    <3>2. Added(r) = [i \in Ids |-> IF i \in HeldIds(r) /\ items[i] # NoItem
                        THEN [RowHeld(r, i) EXCEPT !.qty = @ + call[r].qty] ELSE items[i]]
      BY <1>2, <1>4 DEF Added
    <3>3. Added(r) = [i \in Ids |-> IF i \in HeldIds(r) /\ items[i] # NoItem
                        THEN [RowHeld(r, h.id) EXCEPT !.qty = @ + call[r].qty] ELSE items[i]]
      BY <2>2, <3>2
    <3> QED BY <2>2, <2>5, <3>1, <3>3
  <2>7. lastItem' = lastItem
    BY <1>1, <1>2, <1>4 DEF WriteItems
  <2> HIDE DEF q
  <2>8. q = h.row.qty + call[r].qty
    BY DEF q
  <2>9. ~NothingToWrite(r)
    BY <1>4 DEF NothingToWrite
  <2> QED BY <1>4, <2>5, <2>6, <2>7, <2>8, <2>9 DEF ChangesHeld
<1>5. CASE Op(r) = "update"
  <2>1. req[r].held # {}
    BY <1>5 DEF IInv, RequestInv, Course
  <2>2. PICK h \in req[r].held : TRUE
    BY <2>1
  <2>3. HeldIds(r) = {h.id} /\ RowHeld(r, h.id) = h.row
    BY <1>5, OneHeld
  <2>4. call[r].qty \in Nat \ {0}
    BY <1>1 DEF Call
  <2>5. items' = [i \in Ids |-> IF i \in HeldIds(r) /\ items[i] # NoItem /\ ~NothingToWrite(r)
                        THEN [RowHeld(r, i) EXCEPT !.qty = call[r].qty] ELSE items[i]]
    BY <1>5 DEF WriteItems, Updated
  <2>6. lastItem' = lastItem
    BY <1>1, <1>5 DEF WriteItems
  <2>7. CASE NothingToWrite(r)
    <3>1. items' = [i \in Ids |-> IF i \in {} THEN NoItem ELSE items[i]]
      BY <2>5, <2>7
    <3>2. DeletesRows(r, {})
      BY <1>5, <2>6, <2>7, <3>1 DEF DeletesRows
    <3> QED BY <3>2
  <2>8. CASE ~NothingToWrite(r)
    <3>1. items' = [i \in Ids |-> IF i = h.id /\ items[i] # NoItem
                                  THEN [h.row EXCEPT !.qty = call[r].qty] ELSE items[i]]
      BY <2>3, <2>5, <2>8
    <3>2. ChangesHeld(r, h, call[r].qty)
      BY <1>5, <2>6, <2>8, <3>1 DEF ChangesHeld
    <3> QED BY <2>2, <2>4, <3>2
  <2> QED BY <2>7, <2>8
<1>6. CASE Op(r) \notin {"add", "update"}
  <2> DEFINE cleared == IF Op(r) = "clear" /\ ~InApp(r) THEN ItemsOf(req[r].cart, items) ELSE HeldIds(r)
  <2>1. items' = [i \in Ids |-> IF i \in cleared THEN NoItem ELSE items[i]]
    BY <1>6 DEF WriteItems, Deleted
  <2>2. lastItem' = lastItem
    BY <1>1, <1>6 DEF WriteItems
  <2>3. ASSUME NEW i \in cleared
        PROVE  i \in Ids /\ (items[i] # NoItem => items[i].cart = req[r].cart)
    <3>1. CASE i \in HeldIds(r)
      <4>1. PICK h \in req[r].held : i = h.id
        BY <3>1 DEF HeldIds
      <4>2. h.id \in Ids /\ h.row.cart = req[r].cart
        BY <1>1 DEF Request, IInv, RowsTypeOK
      <4>3. items[h.id] # NoItem => items[h.id].cart = h.row.cart
        BY DEF IInv, RequestInv, RowsAtHand
      <4> QED BY <4>1, <4>2, <4>3
    <3>2. CASE i \in ItemsOf(req[r].cart, items)
      BY <3>2 DEF ItemsOf
    <3> QED BY <3>1, <3>2
  <2>4. /\ Op(r) = "clear" => cleared = HeldIds(r) \/ cleared = ItemsOf(req[r].cart, items)
        /\ Op(r) = "remove" => cleared = HeldIds(r)
    OBVIOUS
  <2> HIDE DEF cleared
  <2> QED BY <1>6, <2>1, <2>2, <2>3, <2>4 DEF DeletesRows
<1> QED BY <1>3, <1>4, <1>5, <1>6

LEMMA WritesItems ==
    ASSUME IInv, NEW r \in Requests, req[r].at = "writing", WriteItems(r)
    PROVE  ItemsWritten(r)
<1>1. CASE AddsRow(r)
  BY <1>1, NewRow DEF AddsRow, IInv
<1>2. ASSUME NEW h \in req[r].held, NEW q \in Nat \ {0}, ChangesHeld(r, h, q) PROVE ItemsWritten(r)
  BY <1>2, ChangedRow DEF ChangesHeld
<1>3. ASSUME NEW cleared, DeletesRows(r, cleared) PROVE ItemsWritten(r)
  BY <1>3, GoneRows DEF DeletesRows
<1> QED BY <1>1, <1>2, <1>3, WriteForms

\* A step that writes, when the cart of the request is there afterwards.
LEMMA WrittenAccounts ==
    ASSUME IInv, RowsTypeOK', NEW r \in Requests, req[r].at = "writing", ItemsWritten(r), Grows(r), OthersWait(r),
           req'[r].wrote, req'[r].held = {}, carts'[req[r].cart].user = UserOf(r)
    PROVE  \E wroteTo \in [Requests -> 0 .. MaxRows] : Accounted(wroteTo)'
<1>1. ~req[r].wrote
  BY DEF IInv, RequestInv, Course
<1>2. CASE Op(r) \in {"add", "update"} /\ ~NothingToWrite(r)
  <2>1. PICK i \in Ids : ChangesRow(r, i)
    BY <1>2 DEF ItemsWritten
  <2>2. /\ i <= lastItem'
        /\ items'[i] # NoItem =>
             /\ carts'[items'[i].cart].user = UserOf(r)
             /\ Op(r) = "add" => items'[i].product = call[r].product
             /\ \/ items'[i].qty = call[r].qty
                \/ \E h \in req[r].held : h.id = i /\ items'[i].qty = h.row.qty + call[r].qty
    BY <2>1 DEF ChangesRow
  <2>3. \A j \in Ids \ {i} : items'[j] # NoItem => items[j] # NoItem /\ items'[j].qty = items[j].qty
    BY <2>1 DEF ChangesRow
  <2> QED BY <1>1, <1>2, <2>2, <2>3, AccountsWritten
<1>3. CASE ~(Op(r) \in {"add", "update"} /\ ~NothingToWrite(r))
  <2>1. \A i \in Ids : items'[i] # NoItem => items[i] # NoItem /\ items'[i].qty = items[i].qty
    BY <1>3 DEF ItemsWritten, Deletes
  <2>2. \A h \in req'[r].held : FALSE
    OBVIOUS
  <2> QED BY <1>1, <2>1, <2>2, AccountsKept
<1> QED BY <1>2, <1>3

\* Types after a write that leaves the carts there.
LEMMA WrittenTyped ==
    ASSUME RowsTypeOK, NEW r \in Requests, ItemsWritten(r), req[r].at \in WithCart,
           carts' \in [Ids -> CartRows \cup {NoCart}], lastCart' \in 0 .. MaxRows,
           \A c \in Ids : carts'[c] # NoCart => c <= lastCart',
           \A c \in Ids : carts[c] # NoCart => carts'[c] # NoCart, carts'[req[r].cart] # NoCart,
           req' \in [Requests -> Request], OthersWait(r), RequestTyped(r)', Answers',
           UNCHANGED <<price, call, overlap>>
    PROVE  RowsTypeOK'
<1>1. \A s \in Requests : /\ req'[s].at \in WithCart => req'[s].cart \in Ids
                          /\ \A h \in req'[s].held : h.row.cart = req'[s].cart
  BY RequestsTyped
<1>2. ASSUME NEW i \in Ids, items'[i] # NoItem PROVE i <= lastItem' /\ carts'[items'[i].cart] # NoCart
  <2>1. /\ i <= lastItem'
        /\ items'[i].cart = req[r].cart \/ (items[i] # NoItem /\ items'[i].cart = items[i].cart)
    BY <1>2 DEF ItemsWritten
  <2>2. items[i] # NoItem => carts[items[i].cart] # NoCart /\ items[i].cart \in Ids
    BY DEF RowsTypeOK, ItemRows
  <2> QED BY <2>1, <2>2
<1>3. items' \in [Ids -> ItemRows \cup {NoItem}] /\ lastItem' \in 0 .. MaxRows
  BY DEF ItemsWritten
<1>4. price' \in [Products -> Nat] /\ call' \in [Requests -> Call] /\ overlap' \in 1 .. MaxOverlap
  BY DEF RowsTypeOK
<1> QED BY <1>1, <1>2, <1>3, <1>4 DEF RowsTypeOK, Answers

LEMMA WriteKept ==
    ASSUME IInv, NEW r \in Requests, Write(r)
    PROVE  IInv' /\ Grows(r) /\ OthersWait(r)
<1>1. /\ RowsTypeOK /\ req[r].at = "writing" /\ ~InTx(r) /\ WriteItems(r) /\ Finish(r, "looking", TRUE)
      /\ UNCHANGED <<carts, lastCart, price, failures, call, overlap, seen>>
  BY DEF IInv, Write, Finish
<1>2. ItemsWritten(r)
  BY <1>1, WritesItems
<1>3. carts[req[r].cart] # NoCart /\ carts[req[r].cart].user = UserOf(r) /\ "writing" \in WithCart
  BY <1>1 DEF IInv, RequestInv, CartAtHand, WithCart
<1>4. req' \in [Requests -> Request] /\ OthersWait(r) /\ Is(r, "looking", 0, {}, 0, TRUE)
  BY <1>1, Finished DEF Ats, Busy
<1>5. req'[r].at = "looking" /\ req'[r].held = {} /\ req'[r].wrote /\ "looking" \notin WithCart
  BY <1>4 DEF Is, WithCart
<1>6. RequestTyped(r)' /\ CartFrom(r) /\ CartAtHand(r)' /\ RowsAtHand(r)'
  BY <1>5, FS_EmptySet DEF RequestTyped, CartFrom, CartAtHand, RowsAtHand
<1>7. Course(r)'
  <2>1. Op(r)' = Op(r) /\ (InTx(r)' <=> InTx(r))
    BY <1>1, SameCalls
  <2>2. Op(r) # "view"
    BY <1>1 DEF IInv, RequestInv, Course
  <2> QED BY <1>1, <1>5, <2>1, <2>2 DEF Course
<1>8. RequestInv(r)'
  BY <1>6, <1>7 DEF RequestInv
<1>9. Answers'
  BY <1>1, AnswersSame
<1>10. RowsTypeOK'
  <2>1. /\ carts' \in [Ids -> CartRows \cup {NoCart}] /\ lastCart' \in 0 .. MaxRows
        /\ \A c \in Ids : carts'[c] # NoCart => c <= lastCart'
    BY <1>1 DEF RowsTypeOK
  <2>2. /\ \A c \in Ids : carts[c] # NoCart => carts'[c] # NoCart
        /\ carts'[req[r].cart] # NoCart /\ UNCHANGED <<price, call, overlap>>
    BY <1>1, <1>3
  <2> QED BY <1>1, <1>2, <1>3, <1>4, <1>6, <1>9, <2>1, <2>2, WrittenTyped
<1>11. Grows(r)
  <2>1. lastCart <= lastCart' /\ UNCHANGED <<call, overlap>> /\ CartsGrow(r)
    BY <1>1, Bounds DEF RowsTypeOK, CartsGrow
  <2> QED BY <1>2, <2>1 DEF Grows, ItemsWritten
<1>12. \E wroteTo \in [Requests -> 0 .. MaxRows] : Accounted(wroteTo)'
  <2>1. carts'[req[r].cart].user = UserOf(r)
    BY <1>1, <1>3
  <2> QED BY <1>1, <1>2, <1>4, <1>5, <1>10, <1>11, <2>1, WrittenAccounts
<1> QED BY <1>4, <1>6, <1>8, <1>10, <1>11, <1>12, StepKept

\* What a commit does to the carts: that of the request is there, and a next one
\* perhaps.
CartsCommitted(r) ==
    /\ carts' \in [Ids -> CartRows \cup {NoCart}] /\ lastCart' \in 0 .. MaxRows /\ lastCart <= lastCart'
    /\ \A c \in Ids : carts'[c] # NoCart => c <= lastCart'
    /\ carts'[req[r].cart] # NoCart /\ carts'[req[r].cart].user = UserOf(r)
    /\ CartsGrow(r)

LEMMA CommitsCarts ==
    ASSUME IInv, NEW r \in Requests, Commit(r)
    PROVE  CartsCommitted(r)
<1> DEFINE cart == req[r].cart
           row == CartRow(UserOf(r), "active")
           own == IF carts[cart] = NoCart THEN [carts EXCEPT ![cart] = row] ELSE carts
           new == lastCart + 1
<1>1. RowsTypeOK /\ req[r].at \in WithCart
  BY DEF IInv, Commit, WithCart
<1>2. row \in CartRows /\ row # NoCart /\ row.user = UserOf(r)
  <2>1. call[r] \in Call
    BY <1>1 DEF RowsTypeOK
  <2> QED BY <2>1 DEF UserOf, Call, CartRow, CartRows, NoCart
<1>3. /\ cart \in Ids /\ cart <= lastCart /\ lastCart \in Nat /\ lastCart \in 0 .. MaxRows
      /\ carts[cart] # NoCart => carts[cart].user = UserOf(r)
  BY <1>1, Bounds DEF IInv, RowsTypeOK, RequestInv, CartAtHand
<1>4. /\ carts \in [Ids -> CartRows \cup {NoCart}]
      /\ \A c \in Ids : carts[c] # NoCart => c <= lastCart
  BY <1>1 DEF RowsTypeOK
<1>5. \/ carts' = own /\ lastCart' = lastCart
      \/ lastCart < MaxRows /\ lastCart' = new /\ carts' = [own EXCEPT ![new] = row]
  BY DEF Commit
<1> HIDE DEF row
<1>6. /\ own \in [Ids -> CartRows \cup {NoCart}] /\ own[cart] # NoCart /\ own[cart].user = UserOf(r)
      /\ \A c \in Ids : c # cart => own[c] = carts[c]
      /\ carts[cart] # NoCart => own[cart] = carts[cart]
  BY <1>2, <1>3, <1>4
<1> HIDE DEF own
<1>7. ASSUME NEW c \in Ids, own[c] # NoCart PROVE c <= lastCart
  BY <1>3, <1>4, <1>6, <1>7
<1>8. ASSUME NEW c \in Ids
      PROVE  /\ carts[c] # NoCart => own[c] # NoCart /\ own[c].user = carts[c].user
             /\ carts[c] = NoCart /\ own[c] # NoCart => own[c].user = UserOf(r) /\ c = cart
  BY <1>6
<1>9. CASE carts' = own /\ lastCart' = lastCart
  <2>1. CartsGrow(r)
    BY <1>1, <1>8, <1>9 DEF CartsGrow
  <2>2. lastCart <= lastCart
    BY <1>3
  <2> QED BY <1>3, <1>6, <1>7, <1>9, <2>1, <2>2 DEF CartsCommitted
<1>10. CASE lastCart < MaxRows /\ lastCart' = new /\ carts' = [own EXCEPT ![new] = row]
  <2>1. /\ new \in Ids /\ new \in 0 .. MaxRows /\ lastCart <= new /\ new > lastCart /\ new # cart
        /\ own[new] = NoCart
    <3>1. new \in Ids /\ new \in 0 .. MaxRows /\ lastCart <= new /\ new > lastCart /\ ~(new <= lastCart)
      BY <1>3, <1>10, Bounds DEF Ids
    <3> QED BY <1>3, <1>7, <3>1
  <2> HIDE DEF new
  <2>2. /\ carts' \in [Ids -> CartRows \cup {NoCart}] /\ carts'[new] = row
        /\ \A c \in Ids : c # new => carts'[c] = own[c]
    BY <1>2, <1>6, <1>10, <2>1
  <2>3. ASSUME NEW c \in Ids, carts'[c] # NoCart PROVE c <= lastCart'
    <3>1. CASE c = new
      BY <1>10, <2>1, <3>1 DEF Ids
    <3>2. CASE c # new
      <4>1. c <= lastCart
        BY <1>7, <2>2, <2>3, <3>2
      <4> QED BY <1>3, <1>10, <2>1, <4>1 DEF Ids
    <3> QED BY <3>1, <3>2
  <2>4. CartsGrow(r)
    <3>1. ASSUME NEW c \in Ids, c # new
          PROVE  /\ carts[c] # NoCart => carts'[c] # NoCart /\ carts'[c].user = carts[c].user
                 /\ carts[c] = NoCart /\ carts'[c] # NoCart => carts'[c].user = UserOf(r) /\ c = cart
      BY <1>8, <2>2, <3>1
    <3>2. carts[new] = NoCart /\ carts'[new].user = UserOf(r)
      BY <1>2, <1>8, <2>1, <2>2
    <3> QED BY <1>1, <2>1, <3>1, <3>2 DEF CartsGrow
  <2> QED BY <1>3, <1>6, <1>10, <2>1, <2>2, <2>3, <2>4 DEF CartsCommitted
<1> QED BY <1>5, <1>9, <1>10

LEMMA CommitKept ==
    ASSUME IInv, NEW r \in Requests, Commit(r)
    PROVE  IInv' /\ Grows(r) /\ OthersWait(r)
<1>1. /\ RowsTypeOK /\ InApp(r) /\ Op(r) # "checkout" /\ UNCHANGED <<price, call, overlap>>
      /\ Finish(r, "answered", Op(r) # "view") /\ req[r].at \in WithCart
  BY DEF IInv, Commit, Answer, WithCart
<1>2. \E answer : Answer(r, answer)
  BY DEF Commit
<1>3. \/ req[r].at = "writing" /\ WriteItems(r)
      \/ req[r].at = "showing" /\ items' = items /\ lastItem' = lastItem
  BY DEF Commit
<1>4. CartsCommitted(r)
  BY CommitsCarts
<1>5. ~req[r].wrote /\ (req[r].at = "writing" => Op(r) # "view") /\ (req[r].at = "showing" => Op(r) = "view")
  <2>1. InTx(r) /\ req[r].at \in Busy
    BY <1>1 DEF InTx, Busy
  <2> QED BY <2>1 DEF IInv, RequestInv, Course
<1>6. ItemsWritten(r)
  <2>1. CASE req[r].at = "writing"
    BY <1>3, <2>1, WritesItems
  <2>2. CASE req[r].at = "showing"
    <3>1. items' = items /\ lastItem' = lastItem /\ Op(r) = "view"
      BY <1>3, <1>5, <2>2
    <3>2. items \in [Ids -> ItemRows \cup {NoItem}] /\ lastItem \in 0 .. MaxRows /\ lastItem <= lastItem
      BY <1>1, Bounds DEF RowsTypeOK
    <3>3. ItemsGrow /\ Deletes
      BY <3>1 DEF ItemsGrow, Deletes
    <3>4. \A i \in Ids : items[i] # NoItem => i <= lastItem
      BY <1>1 DEF RowsTypeOK
    <3> QED BY <3>1, <3>2, <3>3, <3>4 DEF ItemsWritten
  <2> QED BY <1>3, <2>1, <2>2
<1>7. Answers'
  BY <1>1, <1>2, AnswersGiven
<1>8. /\ req' \in [Requests -> Request] /\ OthersWait(r) /\ Is(r, "answered", 0, {}, 0, Op(r) # "view")
      /\ RequestTyped(r)' /\ RequestInv(r)' /\ CartFrom(r)
  <2>1. UNCHANGED call /\ (Op(r) # "view") \in BOOLEAN
    BY <1>1
  <2> QED BY <1>1, <2>1, OverKept
<1>9. req'[r].held = {} /\ req'[r].wrote = (Op(r) # "view")
  BY <1>8 DEF Is
<1>10. RowsTypeOK'
  <2>1. \A c \in Ids : carts[c] # NoCart => carts'[c] # NoCart
    BY <1>4 DEF CartsCommitted, CartsGrow
  <2> QED BY <1>1, <1>4, <1>6, <1>7, <1>8, <2>1, WrittenTyped DEF CartsCommitted
<1>11. Grows(r)
  BY <1>1, <1>4, <1>6 DEF Grows, CartsCommitted, ItemsWritten
<1>12. \E wroteTo \in [Requests -> 0 .. MaxRows] : Accounted(wroteTo)'
  <2>1. CASE req[r].at = "writing"
    <3>1. req'[r].wrote /\ carts'[req[r].cart].user = UserOf(r)
      BY <1>4, <1>5, <1>9, <2>1 DEF CartsCommitted
    <3> QED BY <1>6, <1>8, <1>9, <1>10, <1>11, <2>1, <3>1, WrittenAccounts
  <2>2. CASE req[r].at = "showing"
    <3>1. /\ \A i \in Ids : items'[i] # NoItem => items[i] # NoItem /\ items'[i].qty = items[i].qty
          /\ \A h \in req'[r].held : FALSE
      BY <1>3, <1>9, <2>2
    <3> QED BY <1>5, <1>8, <1>10, <1>11, <3>1, AccountsKept
  <2> QED BY <1>3, <2>1, <2>2
<1> QED BY <1>8, <1>10, <1>11, <1>12, StepKept

\* Init.
LEMMA InitKept == Init => IInv
<1> SUFFICES ASSUME Init PROVE IInv
  OBVIOUS
<1> DEFINE n == Cardinality(Starts)
<1>1. n \in 0 .. MaxRows /\ n \in Nat /\ MaxRows \in Nat
  BY Bounds
<1>2. PICK owner \in Bijection(1 .. n, Starts) :
        /\ carts = [c \in Ids |-> IF c <= lastCart THEN CartRow(owner[c], "active") ELSE NoCart]
        /\ items = [i \in Ids |-> IF i <= lastItem THEN StartItem(i) ELSE NoItem]
  BY DEF Init
<1>3. lastCart = n /\ lastItem = n
  BY DEF Init
<1>4. \A c \in 1 .. n : owner[c] \in Starts
  BY DEF Bijection, Injection
<1>5. \A c \in Ids : c <= n => c \in 1 .. n /\ c \in Ids
  BY <1>1 DEF Ids
<1>6. ASSUME NEW c \in Ids, c <= n
      PROVE  CartRow(owner[c], "active") \in CartRows /\ CartRow(owner[c], "active") # NoCart
  <2>1. owner[c] \in Users
    BY <1>4, <1>5, <1>6, CartAssumption
  <2> QED BY <2>1 DEF CartRow, CartRows, NoCart
<1>7. ASSUME NEW i \in Ids
      PROVE  /\ StartItem(i) \in ItemRows /\ StartItem(i) # NoItem
             /\ StartItem(i).cart = i /\ StartItem(i).product = StartsWith
  <2>1. StartsWith \in Products /\ Moq[StartsWith] + 1 \in Nat \ {0} /\ FirstPrice[StartsWith] \in Nat
    BY CartAssumption
  <2> QED BY <2>1 DEF StartItem, ItemRow, ItemRows, NoItem
<1> HIDE DEF n
<1>8. /\ carts \in [Ids -> CartRows \cup {NoCart}]
      /\ \A c \in Ids : carts[c] # NoCart <=> c <= n
  BY <1>2, <1>3, <1>6
<1>9. /\ items \in [Ids -> ItemRows \cup {NoItem}]
      /\ \A i \in Ids : items[i] # NoItem => i <= n /\ items[i] = StartItem(i)
  BY <1>2, <1>3, <1>7
<1>10. /\ req = [r \in Requests |-> Idle("expected", FALSE)]
       /\ \A r \in Requests : /\ req[r].at = "expected" /\ req[r].held = {} /\ ~req[r].wrote
                              /\ "expected" \notin WithCart /\ "expected" \notin Busy
  BY DEF Init, Idle, WithCart, Busy
<1>11. Idle("expected", FALSE) \in Request
  <2>1. 0 \in 0 .. MaxRows
    BY <1>1
  <2> QED BY <2>1 DEF Idle, Request
<1>12. RowsTypeOK
  <2>1. \A i \in Ids : items[i] # NoItem => i <= lastItem /\ carts[items[i].cart] # NoCart
    BY <1>3, <1>7, <1>8, <1>9
  <2>2. /\ price \in [Products -> Nat] /\ call \in [Requests -> Call] /\ overlap \in 1 .. MaxOverlap
        /\ failures \in Nat
    BY CartAssumption DEF Init
  <2>3. /\ orders \in [Requests -> SUBSET LineRow]
        /\ placed \in [Users -> Seq([Products -> Nat])]
    BY DEF Init
  <2>4. req \in [Requests -> Request]
    BY <1>10, <1>11
  <2>5. \A r \in Requests : /\ req[r].at \in WithCart => req[r].cart \in Ids
                            /\ \A h \in req[r].held : h.row.cart = req[r].cart
    BY <1>10
  <2> QED BY <1>1, <1>3, <1>8, <1>9, <2>1, <2>2, <2>3, <2>4, <2>5 DEF RowsTypeOK
<1>13. \A r \in Requests : RequestInv(r)
  BY <1>10, FS_EmptySet DEF RequestInv, CartAtHand, RowsAtHand, Course
<1>14. OwnCarts
  BY <1>10 DEF OwnCarts
<1>15. StartsKept
  <2>1. n <= n
    BY <1>1
  <2> QED BY <1>3, <1>7, <1>9, <2>1 DEF StartsKept, n
<1>16. \E wroteTo \in [Requests -> 0 .. MaxRows] : Accounted(wroteTo)
  <2> DEFINE wroteTo == [r \in Requests |-> 0]
  <2>1. wroteTo \in [Requests -> 0 .. MaxRows] /\ \A r \in Requests : wroteTo[r] = 0
    BY <1>1
  <2> HIDE DEF wroteTo
  <2>2. ASSUME NEW i \in Ids, items[i] # NoItem PROVE items[i].qty <= Credit(wroteTo, i)
    <3>1. /\ SumFunctionOnSet(Quantities, {r \in Requests : wroteTo[r] = i}) \in Nat
          /\ (IF i <= Cardinality(Starts) THEN StartItem(i).qty ELSE 0) \in Nat
      BY <1>12, CreditType
    <3>2. Credit(wroteTo, i) = (IF i <= Cardinality(Starts) THEN StartItem(i).qty ELSE 0)
                               + SumFunctionOnSet(Quantities, {r \in Requests : wroteTo[r] = i})
      BY Zenon DEF Credit, Quantities
    <3>3. i <= Cardinality(Starts) /\ items[i].qty = StartItem(i).qty
      BY <1>9, <2>2 DEF n
    <3> QED BY <3>1, <3>2, <3>3
  <2>3. Accounted(wroteTo)
    BY <1>10, <2>1, <2>2 DEF Accounted
  <2> QED BY <2>1, <2>3
<1> QED BY <1>12, <1>13, <1>14, <1>15, <1>16 DEF IInv

LEMMA NextKept == ASSUME IInv, [Next]_vars PROVE IInv'
<1>1. CASE UNCHANGED vars
  <2>1. RowsTypeOK /\ UNCHANGED <<carts, items, lastCart, lastItem, price, req, failures, call, overlap>>
        /\ UNCHANGED <<orders, shown, placed>>
    BY <1>1 DEF IInv, vars, rows, seen
  <2>2. RowsTypeOK'
    BY <2>1 DEF RowsTypeOK
  <2>3. UNCHANGED <<rows, req, call, overlap>>
    BY <2>1 DEF rows
  <2> QED BY <2>2, <2>3, StutterKept
<1>2. ASSUME NEW p \in Products, Reprice(p) PROVE IInv'
  BY <1>2, RepriceKept
<1>3. ASSUME NEW r \in Requests, Receive(r) \/ Proceed(r) \/ Fail(r) PROVE IInv'
  <2>1. CASE Receive(r)
    BY <2>1, ReceiveKept
  <2>2. CASE Look(r)
    BY <2>2, LookKept
  <2>3. CASE Create(r)
    BY <2>3, CreateKept
  <2>4. CASE Read(r)
    BY <2>4, ReadKept
  <2>5. CASE Write(r)
    BY <2>5, WriteKept
  <2>6. CASE Show(r)
    BY <2>6, ShowKept
  <2>7. CASE Commit(r)
    BY <2>7, CommitKept
  <2>8. CASE RowIsGone(r)
    BY <2>8, RowIsGoneKept
  <2>9. CASE PlaceOrder(r)
    BY <2>9, PlaceOrderKept
  <2>10. CASE Fail(r)
    BY <2>10, FailKept
  <2>11. CASE Load(r)
    BY <2>11, LoadKept
  <2> QED BY <1>3, <2>1, <2>2, <2>3, <2>4, <2>5, <2>6, <2>7, <2>8, <2>9, <2>10, <2>11 DEF Proceed
<1> QED BY <1>1, <1>2, <1>3 DEF Next

\* The inductive invariant: whose the cart at hand is and whose the rows, and
\* that every write is credited to one row of it.
THEOREM CartsInv == Spec => []IInv
<1>1. Init => IInv
  BY InitKept
<1>2. IInv /\ [Next]_vars => IInv'
  BY NextKept
<1> QED BY <1>1, <1>2, PTL DEF Spec

\* What a cart had at the start is in one row.
LEMMA StartCredit ==
    ASSUME IInv, NEW c \in Ids, NEW p,
           NEW own, own = [i \in ItemsOf(c, items) |->
                             IF i <= Cardinality(Starts) /\ items[i].product = p
                             THEN StartItem(i).qty ELSE 0]
    PROVE  /\ \A i \in ItemsOf(c, items) : own[i] \in Nat
           /\ SumFunctionOnSet(own, ItemsOf(c, items)) <= StartQuantity(c, p)
<1> DEFINE S == ItemsOf(c, items)
<1>1. \A i \in S : StartItem(i).qty \in Nat
  BY CartAssumption DEF StartItem, ItemRow
<1>2. IsFiniteSet(S) /\ S \subseteq Ids
  <2>1. S \subseteq Ids
    BY DEF ItemsOf
  <2> QED BY <2>1, Bounds, FS_Subset
<1>3. \A i \in S : own[i] \in Nat /\ own[i] \in Int
  BY <1>1
<1>4. ASSUME NEW i \in S, own[i] # 0 PROVE i = c /\ own[i] = StartQuantity(c, p)
  <2>1. /\ i <= Cardinality(Starts) /\ items[i].product = p /\ own[i] = StartItem(i).qty
        /\ i \in Ids /\ items[i] # NoItem /\ items[i].cart = c
    BY <1>4 DEF ItemsOf
  <2>2. items[i].cart = i /\ items[i].product = StartsWith
    BY <2>1 DEF IInv, StartsKept
  <2> QED BY <2>1, <2>2 DEF StartQuantity
<1>5. StartQuantity(c, p) \in Nat
  BY CartAssumption DEF StartQuantity, StartItem, ItemRow
<1> HIDE DEF S
<1>6. CASE c \notin S
  <2>1. \A i \in S : own[i] = 0
    BY <1>4, <1>6
  <2>2. SumFunctionOnSet(own, S) = 0
    BY <1>2, <2>1, SumZero
  <2> QED BY <1>3, <1>5, <2>2 DEF S
<1>7. CASE c \in S
  <2>1. \A i \in S \ {c} : own[i] = 0
    BY <1>4
  <2>2. IsFiniteSet(S \ {c})
    BY <1>2, FS_RemoveElement
  <2>3. SumFunctionOnSet(own, S \ {c}) = 0
    BY <2>1, <2>2, SumZero
  <2>4. SumFunctionOnSet(own, S) = own[c] + SumFunctionOnSet(own, S \ {c})
    BY <1>2, <1>3, <1>7, SumRemove
  <2>5. own[c] = 0 \/ own[c] = StartQuantity(c, p)
    BY <1>4, <1>7
  <2>6. SumFunctionOnSet(own, S) <= StartQuantity(c, p)
    BY <1>3, <1>5, <1>7, <2>3, <2>4, <2>5
  <2> QED BY <1>3, <2>6 DEF S
<1> QED BY <1>6, <1>7

LEMMA AskersWrote ==
    ASSUME IInv, NEW wroteTo \in [Requests -> 0 .. MaxRows], Accounted(wroteTo),
           NEW c \in Ids, NEW p, NEW i \in ItemsOf(c, items), items[i].product = p
    PROVE  /\ {r \in Asking(c, p) : wroteTo[r] = i} = {r \in Requests : wroteTo[r] = i}
           /\ items[i].qty <= Credit(wroteTo, i)
<1>1. i \in Ids /\ items[i] # NoItem /\ items[i].cart = c /\ i # 0
  BY DEF ItemsOf, Ids
<1>2. ASSUME NEW r \in Requests, wroteTo[r] = i PROVE r \in Asking(c, p)
  <2>1. /\ req[r].wrote /\ Op(r) \in {"add", "update"} /\ carts[c].user = UserOf(r)
        /\ Op(r) = "add" => p = call[r].product
    BY <1>1, <1>2 DEF Accounted
  <2>2. req[r].at \notin {"expected", "refused"}
    BY <2>1 DEF IInv, RequestInv, Course
  <2> QED BY <2>1, <2>2 DEF Asking
<1>3. Asking(c, p) \subseteq Requests
  BY DEF Asking
<1>4. items[i].qty <= Credit(wroteTo, i)
  BY <1>1 DEF Accounted
<1> QED BY <1>2, <1>3, <1>4

LEMMA CartsHoldWhatWasAsked == IInv => NeverMoreThanAsked
<1> SUFFICES ASSUME IInv, NEW c \in Ids, NEW p \in Products
             PROVE  Quantity(c, p)
                      <= StartQuantity(c, p) + SumFunction([r \in Asking(c, p) |-> call[r].qty])
  BY DEF NeverMoreThanAsked
<1> DEFINE S == ItemsOf(c, items)
           R == Asking(c, p)
           has == [i \in S |-> IF items[i].product = p THEN items[i].qty ELSE 0]
           own == [i \in S |-> IF i <= Cardinality(Starts) /\ items[i].product = p
                               THEN StartItem(i).qty ELSE 0]
           asked == [r \in R |-> call[r].qty]
<1>1. PICK wroteTo \in [Requests -> 0 .. MaxRows] : Accounted(wroteTo)
  BY DEF IInv
<1>2. IsFiniteSet(S) /\ S \subseteq Ids /\ IsFiniteSet(R) /\ R \subseteq Requests
  <2>1. S \subseteq Ids /\ R \subseteq Requests
    BY DEF ItemsOf, Asking
  <2> QED BY <2>1, Bounds, FS_Subset, CartAssumption
<1>3. RowsTypeOK /\ \A r \in Requests : Quantities[r] = call[r].qty /\ Quantities[r] \in Nat
  BY DEF IInv, RowsTypeOK, Quantities, Call
<1>4. (\A i \in S : own[i] \in Nat) /\ SumFunctionOnSet(own, S) <= StartQuantity(c, p)
  BY StartCredit
<1>5. \A i \in S : items[i].qty \in Nat /\ has[i] \in Nat
  <2>1. \A i \in S : items[i] \in ItemRows
    BY <1>3, ItemsTyped
  <2> QED BY <2>1 DEF ItemRows
<1>6. ASSUME NEW i \in S
      PROVE  has[i] <= own[i] + SumFunctionOnSet(Quantities, {r \in R : wroteTo[r] = i})
  <2> DEFINE given == SumFunctionOnSet(Quantities, {r \in R : wroteTo[r] = i})
  <2>1. given \in Nat
    <3>1. IsFiniteSet({r \in R : wroteTo[r] = i}) /\ \A r \in {r \in R : wroteTo[r] = i} : Quantities[r] \in Nat
      BY <1>2, <1>3, FS_Subset
    <3> QED BY <3>1, SumType
  <2>2. CASE items[i].product = p
    <3>1. /\ {r \in R : wroteTo[r] = i} = {r \in Requests : wroteTo[r] = i}
          /\ items[i].qty <= Credit(wroteTo, i)
      BY <1>1, <2>2, AskersWrote
    <3>2. Credit(wroteTo, i) = (IF i <= Cardinality(Starts) THEN StartItem(i).qty ELSE 0)
                               + SumFunctionOnSet(Quantities, {r \in Requests : wroteTo[r] = i})
      BY Zenon DEF Credit, Quantities
    <3>3. has[i] = items[i].qty /\ own[i] = IF i <= Cardinality(Starts) THEN StartItem(i).qty ELSE 0
      BY <2>2
    <3>4. given = SumFunctionOnSet(Quantities, {r \in Requests : wroteTo[r] = i})
      BY <3>1
    <3> HIDE DEF has, own, given
    <3> QED BY <3>1, <3>2, <3>3, <3>4 DEF given
  <2>3. CASE items[i].product # p
    <3>1. has[i] = 0 /\ own[i] \in Nat
      BY <1>4, <2>3
    <3> HIDE DEF has, own, given
    <3>2. has[i] <= own[i] + given
      BY <2>1, <3>1
    <3> QED BY <3>2 DEF given
  <2> QED BY <2>2, <2>3
<1>7. Quantity(c, p) = SumFunctionOnSet(has, S)
  <2>1. DOMAIN has = S
    OBVIOUS
  <2> QED BY <2>1, Zenon DEF Quantity, SumFunction
<1>8. SumFunction(asked) = SumFunctionOnSet(Quantities, R)
  <2>1. DOMAIN asked = R /\ \A r \in R : asked[r] = Quantities[r]
    BY <1>2, <1>3
  <2>2. SumFunction(asked) = SumFunctionOnSet(asked, R)
    BY <2>1, Zenon DEF SumFunction
  <2> HIDE DEF asked, R
  <2> QED BY <1>2, <2>1, <2>2, SumSame
<1> HIDE DEF has, own, asked, S, R
<1>9. SumFunctionOnSet(has, S)
        <= SumFunctionOnSet(own, S) + SumFunctionOnSet(Quantities, {r \in R : wroteTo[r] \in S})
  <2>1. \A r \in R : Quantities[r] \in Nat
    BY <1>2, <1>3
  <2>2. Covered(S, has, own, R, wroteTo, Quantities)
    BY <1>4, <1>5, <1>6 DEF Covered
  <2> QED BY <1>2, <2>1, <2>2, SumGroups
<1>10. /\ SumFunctionOnSet(Quantities, {r \in R : wroteTo[r] \in S}) <= SumFunctionOnSet(Quantities, R)
       /\ SumFunctionOnSet(Quantities, {r \in R : wroteTo[r] \in S}) \in Nat
       /\ SumFunctionOnSet(Quantities, R) \in Nat
  <2> DEFINE writers == {r \in R : wroteTo[r] \in S}
  <2>1. (\A r \in R : Quantities[r] \in Nat) /\ writers \in SUBSET R
    BY <1>2, <1>3
  <2>2. IsFiniteSet(writers) /\ \A r \in writers : Quantities[r] \in Nat
    BY <1>2, <2>1, FS_Subset
  <2> HIDE DEF writers
  <2>3. SumFunctionOnSet(Quantities, writers) <= SumFunctionOnSet(Quantities, R)
    BY <1>2, <2>1, SumBounds
  <2>4. SumFunctionOnSet(Quantities, writers) \in Nat /\ SumFunctionOnSet(Quantities, R) \in Nat
    BY <1>2, <2>1, <2>2, SumType
  <2> QED BY <2>3, <2>4 DEF writers
<1>11. /\ SumFunctionOnSet(has, S) \in Nat /\ SumFunctionOnSet(own, S) \in Nat
       /\ StartQuantity(c, p) \in Nat
  <2>1. SumFunctionOnSet(has, S) \in Nat /\ SumFunctionOnSet(own, S) \in Nat
    BY <1>2, <1>4, <1>5, SumType
  <2>2. StartQuantity(c, p) \in Nat
    BY CartAssumption DEF StartQuantity, StartItem, ItemRow
  <2> QED BY <2>1, <2>2
<1> DEFINE wrote == SumFunctionOnSet(Quantities, {r \in R : wroteTo[r] \in S})
<1>12. /\ wrote \in Nat /\ wrote <= SumFunctionOnSet(Quantities, R)
       /\ SumFunctionOnSet(has, S) <= SumFunctionOnSet(own, S) + wrote
  BY <1>9, <1>10
<1> HIDE DEF wrote
<1>13. Quantity(c, p) <= StartQuantity(c, p) + SumFunction(asked)
  BY <1>4, <1>7, <1>8, <1>10, <1>11, <1>12
<1> QED BY <1>13 DEF asked, R

\* Whatever overlaps, dies or is asked of either program, no cart holds more of a
\* product than it had at the start and its owner has asked for since.
THEOREM NothingIsAddedTwice == Spec => []NeverMoreThanAsked
BY CartsInv, CartsHoldWhatWasAsked, PTL
-----------------------------------------------------------------------------
(* Users who wait for each answer.                                         *)

\* Nobody else is at work for the user.
Waits(r) == \A s \in Requests : s # r /\ UserOf(s) = UserOf(r) => req[s].at \notin Busy
Alone == \A r \in Requests : req[r].at \in Busy => Waits(r)

\* One active cart, and in a cart one item of a product.
OneCart(u) == \A c, d \in ActiveCarts(u, carts) : c = d
OneItem ==
    \A i, j \in Ids :
        /\ items[i] # NoItem /\ items[j] # NoItem
        /\ items[i].cart = items[j].cart /\ items[i].product = items[j].product
        => i = j

\* The cart at hand is the active one, or there is none yet.
CurrentCart(r) ==
    /\ req[r].at = "creating" => ActiveCarts(UserOf(r), carts) = {}
    /\ req[r].at \in WithCart =>
         IF carts[req[r].cart] = NoCart THEN ActiveCarts(UserOf(r), carts) = {}
         ELSE carts[req[r].cart] = CartRow(UserOf(r), "active")

\* The rows read are the rows there are; a checkout has priced them.
CurrentRows(r) ==
    /\ \A h \in req[r].held :
         /\ items[h.id] # NoItem /\ h.row = [items[h.id] EXCEPT !.price = h.row.price]
         /\ Op(r) # "checkout" \/ items[h.id].price > 0 => h.row.price = items[h.id].price
    /\ \A g, h \in req[r].held : g.id = h.id => g = h
    /\ req[r].at = "writing" /\ Op(r) \in {"clear", "checkout"} =>
         ItemsOf(req[r].cart, items) = HeldIds(r)
    /\ req[r].at = "writing" /\ Op(r) = "add" /\ req[r].held = {} =>
         \A i \in ItemsOf(req[r].cart, items) : items[i].product # call[r].product

\* What a user was shown last is what the active cart holds, but for the items
\* the answer is behind with, unless a write is on its way to being shown.
Unseen(r) == req[r].at \in Busy /\ req[r].wrote
Matches(lines, answer) ==
    /\ But(lines, answer.behind) = But(answer.lines, answer.behind)
    /\ \A i \in answer.behind : i \in IdsOf(lines) <=> i \notin IdsOf(answer.lines)
StillShown(u) ==
    shown[u] # None /\ (\A r \in Requests : UserOf(r) = u => ~Unseen(r))
    => \E c \in ActiveCarts(u, carts) : Matches(Lines(c, items), shown[u])

PatientInv ==
    overlap = 1 =>
        /\ Alone /\ OneItem
        /\ \A u \in Users : OneCart(u) /\ StillShown(u)
        /\ \A r \in Requests : CurrentCart(r) /\ CurrentRows(r)

\* A session has the items of its cart while it works on them, and for a user
\* who waits they are the items there are.
SessionTyped ==
    /\ loaded \in [Requests -> LoadedRow \cup {None}]
    /\ shown \in [Users -> AnswerRow \cup {None}]
Session(r) ==
    /\ loaded[r] # None => req[r].at \in {"reading", "writing"}
    /\ req[r].at = "writing" /\ InApp(r) => loaded[r] # None
CurrentSession(r) == loaded[r] # None => loaded[r].lines = Lines(req[r].cart, items)

SessionInv ==
    /\ SessionTyped
    /\ \A r \in Requests : Session(r) /\ (overlap = 1 => CurrentSession(r))
-----------------------------------------------------------------------------
(* A user's step is nobody else's business.                                *)

OnlyOwn(r) ==
    /\ \A c \in Ids : carts'[c] # carts[c] => carts'[c] # NoCart /\ carts'[c].user = UserOf(r)
    /\ \A i \in Ids : items'[i] # items[i] =>
         /\ req[r].at \in WithCart
         /\ items[i] # NoItem => items[i].cart = req[r].cart
         /\ items'[i] # NoItem => items'[i].cart = req[r].cart
    /\ \A u \in Users : u # UserOf(r) => shown'[u] = shown[u]

LEMMA OthersCarts ==
    ASSUME IInv, NEW r \in Requests, Grows(r), OnlyOwn(r), NEW u \in Users, u # UserOf(r)
    PROVE  /\ ActiveCarts(u, carts') = ActiveCarts(u, carts)
           /\ \A c \in ActiveCarts(u, carts) : req[r].at \in WithCart => c # req[r].cart
<1>1. ASSUME NEW c \in Ids, NEW s, carts[c] = CartRow(u, s) \/ carts'[c] = CartRow(u, s)
      PROVE  carts'[c] = carts[c]
  <2>1. u # None
    BY CartAssumption
  <2>2. CartRow(u, s).user = u /\ NoCart.user = None
    BY DEF CartRow, NoCart
  <2>3. carts'[c] # carts[c] => carts'[c] # NoCart /\ carts'[c].user = UserOf(r)
    BY DEF OnlyOwn
  <2>4. carts[c] # NoCart => carts'[c].user = carts[c].user
    BY DEF Grows, CartsGrow
  <2>5. CASE carts[c] = CartRow(u, s)
    <3>1. carts[c].user = u /\ carts[c] # NoCart
      BY <2>1, <2>2, <2>5
    <3> QED BY <2>3, <2>4, <3>1
  <2>6. CASE carts'[c] = CartRow(u, s)
    <3>1. carts'[c].user = u
      BY <2>2, <2>6
    <3> QED BY <2>3, <3>1
  <2> QED BY <1>1, <2>5, <2>6
<1>2. ActiveCarts(u, carts') = ActiveCarts(u, carts)
  BY <1>1 DEF ActiveCarts
<1>3. ASSUME NEW c \in ActiveCarts(u, carts), req[r].at \in WithCart PROVE c # req[r].cart
  <2>1. carts[c] = CartRow(u, "active") /\ CartRow(u, "active").user = u
        /\ CartRow(u, "active").status = "active" /\ NoCart.status = "none"
    BY DEF ActiveCarts, CartRow, NoCart
  <2>2. carts[req[r].cart] = NoCart \/ carts[req[r].cart].user = UserOf(r)
    BY <1>3 DEF IInv, RequestInv, CartAtHand
  <2> QED BY <2>1, <2>2
<1> QED BY <1>2, <1>3

\* The items of a cart that is not the one at hand.
LEMMA OthersItems ==
    ASSUME NEW r \in Requests, OnlyOwn(r), NEW c, req[r].at \in WithCart => c # req[r].cart
    PROVE  /\ ItemsOf(c, items') = ItemsOf(c, items)
           /\ \A i \in ItemsOf(c, items) : items'[i] = items[i]
           /\ Lines(c, items') = Lines(c, items)
<1>1. ASSUME NEW i \in Ids, \/ items[i] # NoItem /\ items[i].cart = c
                            \/ items'[i] # NoItem /\ items'[i].cart = c
      PROVE  items'[i] = items[i]
  BY <1>1 DEF OnlyOwn
<1>2. ItemsOf(c, items') = ItemsOf(c, items)
  BY <1>1 DEF ItemsOf
<1>3. \A i \in ItemsOf(c, items) : items'[i] = items[i]
  BY <1>1 DEF ItemsOf
<1>4. Lines(c, items') = Lines(c, items)
  <2> HIDE DEF ItemsOf
  <2>1. {Line(i, items'[i]) : i \in ItemsOf(c, items)} = {Line(i, items[i]) : i \in ItemsOf(c, items)}
    BY <1>3
  <2> QED BY <1>2, <2>1 DEF Lines
<1> QED BY <1>2, <1>3, <1>4

\* A request that is not at work says nothing of the rows.
LEMMA NothingAtHand ==
    ASSUME IInv', NEW r \in Requests, req'[r].at \notin Busy \/ req'[r].at = "looking"
    PROVE  CurrentCart(r)' /\ CurrentRows(r)'
<1>1. /\ req'[r].at \notin WithCart /\ req'[r].at # "creating" /\ req'[r].at # "writing" /\ req'[r].held = {}
  BY DEF IInv, RequestInv, Course, Busy, WithCart
<1> QED BY <1>1 DEF CurrentCart, CurrentRows

LEMMA OthersCurrent ==
    ASSUME IInv, IInv', NEW r \in Requests, Grows(r), OnlyOwn(r), NEW s \in Requests, UserOf(s) # UserOf(r),
           req'[s] = req[s], CurrentCart(s), CurrentRows(s)
    PROVE  CurrentCart(s)' /\ CurrentRows(s)'
<1> DEFINE u == UserOf(s)
           c == req[s].cart
<1>1. u \in Users /\ RowsTypeOK /\ Op(s)' = Op(s) /\ UserOf(s)' = u /\ call'[s] = call[s]
  <2>1. call[s] \in Call /\ UNCHANGED call
    BY DEF IInv, RowsTypeOK, Grows
  <2> QED BY <2>1, SameCalls DEF IInv, UserOf, Call
<1>2. ActiveCarts(u, carts') = ActiveCarts(u, carts)
  BY <1>1, OthersCarts
<1>3. ASSUME req[s].at \in WithCart
      PROVE  /\ req[r].at \in WithCart => c # req[r].cart
             /\ carts[c] = NoCart => carts'[c] = NoCart
             /\ carts[c] # NoCart => carts'[c] = carts[c]
  <2>1. c \in Ids /\ c <= lastCart /\ lastCart \in Int /\ ~(c > lastCart)
    <3>1. c \in Ids /\ c <= lastCart /\ lastCart \in Int
      BY <1>3, Bounds, SMTT(30) DEF IInv, RowsTypeOK, RequestInv, CartAtHand
    <3> QED BY <3>1 DEF Ids
  <2>2. carts[c] # NoCart => carts[c].user = u
    BY <1>3 DEF IInv, RequestInv, CartAtHand
  <2>3. req[r].at \in WithCart => c # req[r].cart
    <3> SUFFICES ASSUME req[r].at \in WithCart, c = req[r].cart PROVE FALSE
      OBVIOUS
    <3>1. carts[c] # NoCart
      BY <1>3 DEF IInv, OwnCarts
    <3>2. carts[c].user = UserOf(r)
      BY <3>1 DEF IInv, RequestInv, CartAtHand
    <3> QED BY <2>2, <3>1, <3>2
  <2>4. carts[c] = NoCart => carts'[c] = NoCart
    BY <2>1, <2>3 DEF Grows, CartsGrow
  <2>5. carts[c] # NoCart => carts'[c] = carts[c]
    <3> SUFFICES ASSUME carts[c] # NoCart, carts'[c] # carts[c] PROVE FALSE
      OBVIOUS
    <3>1. carts'[c].user = UserOf(r) /\ carts'[c].user = carts[c].user
      BY <2>1 DEF Grows, CartsGrow, OnlyOwn
    <3> QED BY <2>2, <3>1
  <2> QED BY <2>3, <2>4, <2>5
<1> HIDE DEF u, c
<1>4. CurrentCart(s)'
  <2>1. /\ req[s].at = "creating" => ActiveCarts(u, carts) = {}
        /\ req[s].at \in WithCart => IF carts[c] = NoCart THEN ActiveCarts(u, carts) = {}
                                     ELSE carts[c] = CartRow(u, "active")
    BY DEF CurrentCart, u, c
  <2>2. req[s].at \in WithCart => IF carts'[c] = NoCart THEN ActiveCarts(u, carts') = {}
                                  ELSE carts'[c] = CartRow(u, "active")
    BY <1>2, <1>3, <2>1
  <2>3. req[s].at = "creating" => ActiveCarts(u, carts') = {}
    BY <1>2, <2>1
  <2>4. req'[s] = req[s] /\ UserOf(s)' = u /\ req[s].cart = c
    BY <1>1 DEF c
  <2> QED BY <2>2, <2>3, <2>4 DEF CurrentCart
<1>5. CurrentRows(s)'
  <2>1. ASSUME req[s].at \in WithCart
        PROVE  /\ ItemsOf(c, items') = ItemsOf(c, items)
               /\ \A i \in ItemsOf(c, items) : items'[i] = items[i]
    BY <1>3, <2>1, OthersItems
  <2>2. req[s].held # {} => req[s].at = "writing" /\ "writing" \in WithCart
    BY DEF IInv, RequestInv, Course, WithCart
  <2>3. ASSUME NEW h \in req[s].held PROVE h.id \in ItemsOf(c, items) /\ items'[h.id] = items[h.id]
    <3>1. items[h.id] # NoItem /\ items[h.id].cart = h.row.cart
      BY DEF CurrentRows, IInv, RequestInv, RowsAtHand
    <3>2. h.row.cart = c /\ h.id \in Ids
      BY <1>1 DEF RowsTypeOK, Request, c
    <3>3. h.id \in ItemsOf(c, items)
      BY <3>1, <3>2 DEF ItemsOf
    <3> QED BY <2>1, <2>2, <3>3
  <2>4. req'[s] = req[s] /\ HeldIds(s)' = HeldIds(s)
    BY DEF HeldIds
  <2>5. "writing" \in WithCart
    BY DEF WithCart
  <2>6. \A h \in req[s].held :
          /\ items'[h.id] # NoItem /\ h.row = [items'[h.id] EXCEPT !.price = h.row.price]
          /\ Op(s) # "checkout" \/ items'[h.id].price > 0 => h.row.price = items'[h.id].price
    BY <2>3 DEF CurrentRows
  <2>7. \A g, h \in req[s].held : g.id = h.id => g = h
    BY DEF CurrentRows
  <2>8. /\ req[s].at = "writing" /\ Op(s) \in {"clear", "checkout"} =>
             ItemsOf(c, items') = HeldIds(s)
        /\ req[s].at = "writing" /\ Op(s) = "add" /\ req[s].held = {} =>
             \A i \in ItemsOf(c, items') : items'[i].product # call[s].product
    BY <2>1, <2>5 DEF CurrentRows, c
  <2> QED BY <1>1, <2>4, <2>6, <2>7, <2>8 DEF CurrentRows, c
<1> QED BY <1>4, <1>5

LEMMA PatientStep ==
    ASSUME IInv, IInv', PatientInv, overlap = 1, NEW r \in Requests, Grows(r), OthersWait(r), OnlyOwn(r),
           Waits(r), OneItem', CurrentCart(r)', CurrentRows(r)',
           NEW own, own = UserOf(r), OneCart(own)', StillShown(own)'
    PROVE  PatientInv'
<1>1. /\ Alone /\ \A u \in Users : OneCart(u) /\ StillShown(u)
      /\ \A s \in Requests : CurrentCart(s) /\ CurrentRows(s)
  BY DEF PatientInv
<1>2. \A s \in Requests : UserOf(s)' = UserOf(s)
  BY SameCalls DEF Grows
<1>3. ASSUME NEW s \in Requests PROVE CurrentCart(s)' /\ CurrentRows(s)'
  <2>1. CASE s = r
    BY <2>1
  <2>2. CASE s # r /\ UserOf(s) = UserOf(r)
    <3>1. req'[s].at \notin Busy
      BY <2>2 DEF Waits, OthersWait
    <3> QED BY <3>1, NothingAtHand
  <2>3. CASE UserOf(s) # UserOf(r)
    BY <1>1, <2>3, OthersCurrent DEF OthersWait
  <2> QED BY <2>1, <2>2, <2>3
<1>4. Alone'
  <2> SUFFICES ASSUME NEW s \in Requests, NEW t \in Requests, t # s, UserOf(t) = UserOf(s),
                      req'[s].at \in Busy, req'[t].at \in Busy
               PROVE  FALSE
    BY <1>2 DEF Alone, Waits
  <2>1. CASE s = r
    BY <2>1 DEF Waits, OthersWait
  <2>2. CASE t = r
    BY <2>2 DEF Waits, OthersWait
  <2>3. CASE s # r /\ t # r
    BY <1>1, <2>3 DEF Alone, Waits, OthersWait
  <2> QED BY <2>1, <2>2, <2>3
<1>5. ASSUME NEW u \in Users, u # UserOf(r) PROVE OneCart(u)' /\ StillShown(u)'
  <2>1. /\ ActiveCarts(u, carts') = ActiveCarts(u, carts)
        /\ \A c \in ActiveCarts(u, carts) : req[r].at \in WithCart => c # req[r].cart
    BY <1>5, OthersCarts
  <2>2. OneCart(u)'
    BY <1>1, <2>1 DEF OneCart
  <2>3. StillShown(u)'
    <3> SUFFICES ASSUME shown'[u] # None, \A s \in Requests : UserOf(s)' = u => ~Unseen(s)'
                 PROVE  \E c \in ActiveCarts(u, carts') : Matches(Lines(c, items'), shown'[u])
      BY DEF StillShown
    <3>1. \A s \in Requests : UserOf(s) = u => ~Unseen(s)
      BY <1>2, <1>5 DEF Unseen, OthersWait
    <3>2. shown'[u] = shown[u]
      BY <1>5 DEF OnlyOwn
    <3>3. PICK c \in ActiveCarts(u, carts) : Matches(Lines(c, items), shown[u])
      BY <1>1, <3>1, <3>2 DEF StillShown
    <3>4. Lines(c, items') = Lines(c, items)
      BY <2>1, OthersItems
    <3> QED BY <2>1, <3>2, <3>3, <3>4
  <2> QED BY <2>2, <2>3
<1>6. \A u \in Users : OneCart(u)' /\ StillShown(u)'
  BY <1>5
<1> QED BY <1>3, <1>4, <1>6 DEF PatientInv

LEMMA GrowsNot == ASSUME IInv, UNCHANGED <<rows, call, overlap>>, NEW r PROVE Grows(r)
<1>1. carts' = carts /\ items' = items /\ lastCart' = lastCart /\ lastItem' = lastItem
  BY DEF rows
<1>2. lastCart <= lastCart' /\ lastItem <= lastItem'
  BY <1>1, Bounds DEF IInv, RowsTypeOK
<1>3. CartsGrow(r) /\ ItemsGrow
  BY <1>1 DEF CartsGrow, ItemsGrow
<1> QED BY <1>2, <1>3 DEF Grows

LEMMA OneAtWork ==
    ASSUME PatientInv, overlap = 1, NEW r \in Requests, req[r].at \in Busy
    PROVE  Waits(r)
BY DEF PatientInv, Alone

\* A step that leaves the rows as they are.
LEMMA PatientQuiet ==
    ASSUME IInv, IInv', PatientInv, overlap = 1, NEW r \in Requests, OthersWait(r), Waits(r),
           UNCHANGED <<rows, call, overlap>>,
           \A u \in Users : shown'[u] = shown[u] \/ (u = UserOf(r) /\ shown'[u] = None),
           Unseen(r) => Unseen(r)' \/ shown'[UserOf(r)] = None,
           CurrentCart(r)', CurrentRows(r)'
    PROVE  PatientInv'
<1>0. PICK own : own = UserOf(r)
  OBVIOUS
<1>1. carts' = carts /\ items' = items
  BY DEF rows
<1>2. OneItem' /\ own \in Users /\ UserOf(r)' = own /\ \A s \in Requests : UserOf(s)' = UserOf(s)
  <2>1. call[r] \in Call
    BY DEF IInv, RowsTypeOK
  <2>2. OneItem'
    BY <1>1 DEF PatientInv, OneItem
  <2> QED BY <1>0, <2>1, <2>2, SameCalls DEF UserOf, Call
<1>3. OneCart(own) /\ StillShown(own)
  BY <1>2 DEF PatientInv
<1>4. OneCart(own)'
  BY <1>1, <1>3 DEF OneCart
<1>5. StillShown(own)'
  <2> SUFFICES ASSUME shown'[own] # None, \A s \in Requests : UserOf(s)' = own => ~Unseen(s)'
               PROVE  \E c \in ActiveCarts(own, carts') : Matches(Lines(c, items'), shown'[own])
    BY DEF StillShown
  <2>1. shown'[own] = shown[own]
    BY <1>0, <1>2
  <2>2. ASSUME NEW s \in Requests, UserOf(s) = own PROVE ~Unseen(s)
    <3>1. CASE s = r
      BY <1>0, <1>2, <2>1, <3>1
    <3>2. CASE s # r
      BY <1>0, <2>2, <3>2 DEF Waits, Unseen
    <3> QED BY <3>1, <3>2
  <2> QED BY <1>1, <1>3, <2>1, <2>2 DEF StillShown
<1>6. Grows(r) /\ OnlyOwn(r)
  <2>1. \A u \in Users : u # UserOf(r) => shown'[u] = shown[u]
    OBVIOUS
  <2> QED BY <1>1, <2>1, GrowsNot DEF OnlyOwn
<1> QED BY <1>0, <1>2, <1>4, <1>5, <1>6, PatientStep

\* A request is over, and what it wrote, if it did, is not known to its user.
LEMMA PatientOver ==
    ASSUME IInv, IInv', PatientInv, SessionInv, overlap = 1, NEW r \in Requests, req[r].at \in Busy,
           NEW at \in {"answered", "refused", "failed"}, NEW wrote \in BOOLEAN, Finish(r, at, wrote),
           UNCHANGED <<rows, call, overlap>>,
           \/ ~req[r].wrote /\ shown' = shown
           \/ shown' = [shown EXCEPT ![UserOf(r)] = None]
    PROVE  PatientInv'
<1>1. OthersWait(r) /\ Is(r, at, 0, {}, 0, wrote)
  BY Finished DEF IInv, Ats
<1>2. req'[r].at \notin Busy
  BY <1>1 DEF Is, Busy, WithCart
<1>3. CurrentCart(r)' /\ CurrentRows(r)' /\ Waits(r)
  BY <1>2, NothingAtHand, OneAtWork
<1>4. shown \in [Users -> AnswerRow \cup {None}] /\ UserOf(r) \in Users
  BY DEF IInv, RowsTypeOK, SessionInv, SessionTyped, Call, UserOf
<1>5. \A u \in Users : shown'[u] = shown[u] \/ (u = UserOf(r) /\ shown'[u] = None)
  BY <1>4
<1>6. Unseen(r) => shown'[UserOf(r)] = None
  BY <1>4 DEF Unseen
<1> QED BY <1>1, <1>3, <1>5, <1>6, PatientQuiet

LEMMA PatientReceive ==
    ASSUME IInv, IInv', PatientInv, SessionInv, overlap = 1, NEW r \in Requests, Receive(r)
    PROVE  PatientInv'
<1>1. /\ req[r].at = "expected" /\ UNCHANGED <<rows, call, overlap>> /\ shown' = shown
      /\ Cardinality({s \in Requests : UserOf(s) = UserOf(r) /\ req[s].at \in Busy}) < 1
  BY DEF Receive, seen
<1>2. Waits(r)
  <2> DEFINE S == {s \in Requests : UserOf(s) = UserOf(r) /\ req[s].at \in Busy}
  <2>1. IsFiniteSet(S)
    BY CartAssumption, FS_Subset
  <2>2. Cardinality(S) \in Nat /\ Cardinality(S) < 1
    BY <1>1, <2>1, FS_CardinalityType
  <2>3. Cardinality(S) = 0
    BY <2>2
  <2>4. S = {}
    BY <2>1, <2>3, FS_EmptySet
  <2> QED BY <2>4 DEF Waits
<1>3. OthersWait(r) /\ (req'[r].at = "refused" \/ req'[r].at = "looking")
  <2>1. CASE Finish(r, "refused", FALSE)
    <3>1. OthersWait(r) /\ Is(r, "refused", 0, {}, 0, FALSE)
      BY <2>1, Finished DEF IInv, Ats
    <3> QED BY <3>1 DEF Is
  <2>2. ASSUME NEW quoted, req' = [req EXCEPT ![r].at = "looking", ![r].quoted = quoted]
        PROVE  OthersWait(r) /\ req'[r].at = "looking"
    <3>1. req[r] \in Request /\ req \in [Requests -> Request]
      BY DEF IInv, RowsTypeOK
    <3>2. \A s \in Requests : s # r => req'[s] = req[s]
      BY <2>2, <3>1
    <3>3. req'[r] = [req[r] EXCEPT !.at = "looking", !.quoted = quoted]
      BY <2>2, <3>1
    <3> QED BY <3>1, <3>2, <3>3 DEF OthersWait, Request
  <2> QED BY <2>1, <2>2 DEF Receive
<1>4. CurrentCart(r)' /\ CurrentRows(r)'
  BY <1>3, NothingAtHand DEF Busy, WithCart
<1>5. ~Unseen(r)
  BY <1>1 DEF Unseen, Busy, WithCart
<1> QED BY <1>1, <1>2, <1>3, <1>4, <1>5, PatientQuiet

LEMMA PatientRefuse ==
    ASSUME IInv, IInv', PatientInv, SessionInv, overlap = 1, NEW r \in Requests, Refuse(r),
           req[r].at \in {"reading", "writing"}
    PROVE  PatientInv'
<1>1. ~req[r].wrote
  BY DEF IInv, RequestInv, Course
<1>2. Finish(r, "refused", FALSE) /\ UNCHANGED <<rows, call, overlap>> /\ shown' = shown
  BY DEF Refuse, seen
<1> QED BY <1>1, <1>2, PatientOver DEF Busy, WithCart

LEMMA PatientFail ==
    ASSUME IInv, IInv', PatientInv, SessionInv, overlap = 1, NEW r \in Requests, Fail(r)
    PROVE  PatientInv'
<1>1. req[r].wrote \in BOOLEAN
  BY DEF IInv, RowsTypeOK, Request
<1>2. /\ Finish(r, "failed", req[r].wrote) /\ req[r].at \in Busy /\ UNCHANGED <<rows, call, overlap>>
      /\ shown' = [shown EXCEPT ![UserOf(r)] = None]
  BY DEF Fail
<1> QED BY <1>1, <1>2, PatientOver

\* A request at work goes on, and writes nothing.
LEMMA PatientOn ==
    ASSUME IInv, IInv', PatientInv, SessionInv, overlap = 1, NEW r \in Requests, req[r].at \in Busy, OthersWait(r),
           UNCHANGED <<rows, price, failures, call, overlap, seen>>,
           req'[r].at \in Busy, req'[r].wrote = req[r].wrote, CurrentCart(r)', CurrentRows(r)'
    PROVE  PatientInv'
<1>1. shown' = shown /\ UNCHANGED <<rows, call, overlap>>
  BY DEF seen
<1>2. Unseen(r) => Unseen(r)'
  BY DEF Unseen
<1> QED BY <1>1, <1>2, OneAtWork, PatientQuiet

LEMMA PatientLook ==
    ASSUME IInv, IInv', PatientInv, SessionInv, overlap = 1, NEW r \in Requests, Look(r)
    PROVE  PatientInv'
<1> DEFINE active == ActiveCarts(UserOf(r), carts)
           cart == Max(active)
<1>1. /\ UNCHANGED <<rows, price, failures, call, overlap, seen>> /\ req[r].at = "looking" /\ RowsTypeOK
      /\ carts' = carts /\ UserOf(r)' = UserOf(r)
  <2>1. UNCHANGED call /\ carts' = carts
    BY DEF Look, rows
  <2> QED BY <2>1, SameCalls DEF Look, IInv
<1>2. req[r].held = {}
  BY <1>1 DEF IInv, RequestInv, Course
<1>3. CASE active = {}
  <2>1. req' = [req EXCEPT ![r].at = "creating"]
    BY <1>3 DEF Look
  <2>2. OthersWait(r) /\ Is(r, "creating", req[r].cart, {}, req[r].quoted, req[r].wrote)
    BY <1>1, <1>2, <2>1, GoesAt DEF Ats, Busy
  <2>3. req'[r].at = "creating" /\ req'[r].held = {} /\ req'[r].wrote = req[r].wrote
    BY <2>2 DEF Is
  <2>4. CurrentCart(r)' /\ CurrentRows(r)'
    BY <1>1, <1>3, <2>3 DEF CurrentCart, CurrentRows, WithCart
  <2> QED BY <1>1, <2>2, <2>3, <2>4, PatientOn DEF Busy
<1>4. CASE active # {}
  <2>1. cart \in Ids /\ carts[cart] = CartRow(UserOf(r), "active")
    BY <1>4, MaxActive
  <2>2. req' = [req EXCEPT ![r].at = Opened(r), ![r].cart = cart]
    BY <1>4 DEF Look
  <2> HIDE DEF cart
  <2>3. Opened(r) \in {"showing", "reading"} /\ cart \in 0 .. MaxRows
    BY <2>1, Bounds, SMTT(30) DEF Opened, Ids
  <2>4. OthersWait(r) /\ Is(r, Opened(r), cart, {}, req[r].quoted, req[r].wrote)
    BY <1>1, <1>2, <2>2, <2>3, GoesWithCart DEF Ats, Busy, WithCart
  <2>5. /\ req'[r].at \in {"showing", "reading"} /\ req'[r].cart = cart /\ req'[r].held = {}
        /\ req'[r].wrote = req[r].wrote
    BY <2>3, <2>4 DEF Is
  <2>6. CurrentCart(r)' /\ CurrentRows(r)'
    <3>1. carts[cart] # NoCart
      BY <2>1 DEF CartRow, NoCart
    <3> QED BY <1>1, <2>1, <2>5, <3>1 DEF CurrentCart, CurrentRows
  <2> QED BY <1>1, <2>4, <2>5, <2>6, PatientOn DEF Busy, WithCart
<1> QED BY <1>3, <1>4

LEMMA PatientHold ==
    ASSUME IInv, IInv', PatientInv, SessionInv, overlap = 1, NEW r \in Requests, req[r].at = "reading",
           NEW ids, ids \subseteq ItemsOf(req[r].cart, items), NEW amounts \in [ids -> Nat],
           req' = [req EXCEPT ![r].at = "writing", ![r].held = Held(ids, amounts)],
           UNCHANGED <<rows, price, failures, call, overlap, seen>>,
           \A i \in ids : Op(r) # "checkout" \/ items[i].price > 0 => amounts[i] = items[i].price,
           Op(r) \in {"clear", "checkout"} => ids = ItemsOf(req[r].cart, items),
           Op(r) = "add" /\ ids = {} =>
             \A i \in ItemsOf(req[r].cart, items) : items[i].product # call[r].product
    PROVE  PatientInv'
<1> DEFINE held == Held(ids, amounts)
<1>1. TakenFrom(held, ids, req[r].cart, amounts) /\ RowsTypeOK
  BY HeldRows DEF IInv
<1> HIDE DEF held
<1>2. /\ carts' = carts /\ items' = items /\ call' = call
      /\ UserOf(r)' = UserOf(r) /\ Op(r)' = Op(r)
  <2>1. carts' = carts /\ items' = items /\ call' = call
    BY DEF rows
  <2> QED BY <2>1, SameCalls
<1>3. OthersWait(r) /\ Is(r, "writing", req[r].cart, held, req[r].quoted, req[r].wrote)
  <2>1. held \in SUBSET Holdings
    BY <1>1 DEF TakenFrom
  <2> QED BY <1>1, <2>1, GoesWithRows DEF Ats, Busy, WithCart, held
<1>4. /\ req'[r].at = "writing" /\ req'[r].cart = req[r].cart /\ req'[r].held = held
      /\ req'[r].wrote = req[r].wrote
  BY <1>3 DEF Is
<1>5. CurrentCart(r)'
  BY <1>2, <1>4 DEF PatientInv, CurrentCart, WithCart
<1>6. HeldIds(r)' = ids
  BY <1>1, <1>4 DEF HeldIds, TakenFrom
<1>7. ASSUME NEW h \in held
      PROVE  /\ items[h.id] # NoItem /\ h.row = [items[h.id] EXCEPT !.price = h.row.price]
             /\ Op(r) # "checkout" \/ items[h.id].price > 0 => h.row.price = items[h.id].price
  BY <1>1 DEF TakenFrom
<1>8. held = {} => ids = {}
  BY <1>1 DEF TakenFrom
<1>9. CurrentRows(r)'
  <2>1. \A h \in req'[r].held :
          /\ items'[h.id] # NoItem /\ h.row = [items'[h.id] EXCEPT !.price = h.row.price]
          /\ Op(r)' # "checkout" \/ items'[h.id].price > 0 => h.row.price = items'[h.id].price
    BY <1>2, <1>4, <1>7
  <2>2. /\ Op(r) \in {"clear", "checkout"} => ItemsOf(req[r].cart, items) = ids
        /\ Op(r) = "add" /\ held = {} =>
             \A i \in ItemsOf(req[r].cart, items) : items[i].product # call[r].product
    BY <1>8
  <2>3. \A g, h \in held : g.id = h.id => g = h
    BY <1>1 DEF TakenFrom
  <2> QED BY <1>2, <1>4, <1>6, <2>1, <2>2, <2>3 DEF CurrentRows
<1> QED BY <1>3, <1>4, <1>5, <1>9, PatientOn DEF Busy, WithCart

LEMMA PatientRead ==
    ASSUME IInv, IInv', PatientInv, SessionInv, overlap = 1, NEW r \in Requests, Read(r)
    PROVE  PatientInv'
<1> DEFINE own == ItemsOf(req[r].cart, items)
<1>1. RowsTypeOK /\ req[r].at = "reading"
  BY DEF Read, IInv
<1>2. own \subseteq Ids /\ \A i \in own : items[i] # NoItem /\ Snapshot(i) \in Nat /\ Charged(i) \in Nat
  BY <1>1, ItemsTyped
<1>3. ASSUME NEW ids, ids \subseteq own, Hold(r, ids, Snapshot), Op(r) # "checkout",
             Op(r) = "clear" => ids = own,
             Op(r) = "add" /\ ids = {} => \A i \in own : items[i].product # call[r].product
      PROVE  PatientInv'
  <2> DEFINE amounts == [i \in ids |-> Snapshot(i)]
  <2>1. amounts \in [ids -> Nat] /\ \A i \in ids : amounts[i] = Snapshot(i)
    BY <1>2, <1>3
  <2> HIDE DEF amounts
  <2>2. /\ req' = [req EXCEPT ![r].at = "writing", ![r].held = Held(ids, amounts)]
        /\ UNCHANGED <<rows, price, failures, call, overlap, seen>>
    <3>1. Hold(r, ids, Snapshot)
      BY <1>3
    <3>2. Held(ids, amounts) = {[id |-> i, row |-> [items[i] EXCEPT !.price = Snapshot(i)]] : i \in ids}
      BY <2>1 DEF Held
    <3> QED BY <3>1, <3>2 DEF Hold
  <2>3. \A i \in ids : Op(r) # "checkout" \/ items[i].price > 0 => amounts[i] = items[i].price
    BY <2>1 DEF Snapshot
  <2>4. Op(r) \in {"clear", "checkout"} => ids = own
    BY <1>3
  <2> QED BY <1>1, <1>3, <2>1, <2>2, <2>3, <2>4, PatientHold
<1>4. CASE ReadForAdd(r)
  <2> DEFINE same == {i \in own : items[i].product = call[r].product}
  <2>1. CASE same = {}
    <3>1. Op(r) = "add" /\ Hold(r, {}, Snapshot)
      BY <1>4, <2>1 DEF ReadForAdd
    <3> QED BY <1>3, <2>1, <3>1
  <2>2. CASE same # {}
    <3>1. Op(r) = "add" /\ \E i \in same : Hold(r, {i}, Snapshot)
      BY <1>4, <2>2 DEF ReadForAdd
    <3>2. PICK i \in same : Hold(r, {i}, Snapshot)
      BY <3>1
    <3> QED BY <1>3, <3>1, <3>2
  <2> QED BY <2>1, <2>2
<1>5. CASE ReadItem(r)
  <2>1. PICK i \in Ids : IF i \in own THEN Hold(r, {i}, Snapshot) ELSE Refuse(r)
    BY <1>5 DEF ReadItem
  <2>2. Op(r) \in {"update", "remove"}
    BY <1>5 DEF ReadItem
  <2>3. CASE i \in own
    BY <1>3, <2>1, <2>2, <2>3
  <2>4. CASE i \notin own
    BY <1>1, <2>1, <2>4, PatientRefuse
  <2> QED BY <2>3, <2>4
<1>6. CASE ReadForClear(r)
  BY <1>3, <1>6 DEF ReadForClear
<1>7. CASE ReadForCheckout(r)
  <2>1. CASE Refuse(r)
    BY <1>1, <2>1, PatientRefuse
  <2>2. CASE own # {} /\ Hold(r, own, Charged)
    <3> DEFINE amounts == [i \in own |-> Charged(i)]
    <3>1. amounts \in [own -> Nat] /\ \A i \in own : amounts[i] = Charged(i)
      BY <1>2
    <3> HIDE DEF amounts
    <3>2. /\ req' = [req EXCEPT ![r].at = "writing", ![r].held = Held(own, amounts)]
          /\ UNCHANGED <<rows, price, failures, call, overlap, seen>>
      BY <2>2, <3>1, ZenonT(30) DEF Hold, Held
    <3>3. Op(r) = "checkout"
      BY <1>7 DEF ReadForCheckout
    <3>4. \A i \in own : Op(r) # "checkout" \/ items[i].price > 0 => amounts[i] = items[i].price
      BY <3>1, <3>3 DEF Charged
    <3> QED BY <1>1, <3>1, <3>2, <3>3, <3>4, PatientHold
  <2> QED BY <1>7, <2>1, <2>2 DEF ReadForCheckout
<1> QED BY <1>4, <1>5, <1>6, <1>7 DEF Read

\* The cart of a request that shows or writes it, once it is committed, is the
\* one active cart of its user.
LEMMA TheActiveCart ==
    ASSUME IInv, PatientInv, SessionInv, overlap = 1, NEW r \in Requests, req[r].at \in WithCart,
           NEW own, own = UserOf(r)
    PROVE  /\ own \in Users /\ req[r].cart \in Ids
           /\ IF carts[req[r].cart] = NoCart THEN ActiveCarts(own, carts) = {}
              ELSE /\ carts[req[r].cart] = CartRow(own, "active")
                   /\ ActiveCarts(own, carts) = {req[r].cart}
<1>1. own \in Users /\ req[r].cart \in Ids
  BY DEF IInv, RowsTypeOK, UserOf, Call
<1>2. OneCart(own) /\ CurrentCart(r)
  BY <1>1 DEF PatientInv
<1>3. ASSUME carts[req[r].cart] # NoCart
      PROVE  carts[req[r].cart] = CartRow(own, "active") /\ ActiveCarts(own, carts) = {req[r].cart}
  <2>1. carts[req[r].cart] = CartRow(own, "active")
    BY <1>2, <1>3 DEF CurrentCart
  <2>2. req[r].cart \in ActiveCarts(own, carts)
    BY <1>1, <2>1 DEF ActiveCarts
  <2> QED BY <1>2, <2>1, <2>2 DEF OneCart
<1> QED BY <1>1, <1>2, <1>3 DEF CurrentCart

LEMMA Shown ==
    ASSUME IInv, SessionInv, NEW r \in Requests, NEW answer, Answer(r, answer), NEW own, own = UserOf(r)
    PROVE  /\ own \in Users /\ shown'[own] = answer
           /\ \A u \in Users : u # UserOf(r) => shown'[u] = shown[u]
<1>1. shown \in [Users -> AnswerRow \cup {None}] /\ own \in Users
  BY DEF IInv, RowsTypeOK, SessionInv, SessionTyped, UserOf, Call
<1>2. shown' = [shown EXCEPT ![own] = answer]
  BY DEF Answer
<1> QED BY <1>1, <1>2

LEMMA PatientShow ==
    ASSUME IInv, IInv', PatientInv, SessionInv, overlap = 1, NEW r \in Requests, Show(r)
    PROVE  PatientInv'
<1>0. PICK own : own = UserOf(r)
  OBVIOUS
<1>1. /\ req[r].at = "showing" /\ ~InTx(r) /\ UNCHANGED <<rows, call, overlap>>
      /\ Answer(r, Shows(Lines(req[r].cart, items), {}))
      /\ carts' = carts /\ items' = items
  BY DEF Show, Answer, rows
<1>2. carts[req[r].cart] # NoCart /\ "showing" \in WithCart /\ "showing" \in Busy
  BY <1>1 DEF IInv, RequestInv, CartAtHand, WithCart, Busy
<1>3. own \in Users /\ ActiveCarts(own, carts) = {req[r].cart}
  BY <1>0, <1>1, <1>2, TheActiveCart
<1>4. OthersWait(r) /\ req'[r].at = "answered"
  <2>1. Finish(r, "answered", Op(r) # "view") /\ (Op(r) # "view") \in BOOLEAN
    BY <1>1 DEF Answer
  <2>2. OthersWait(r) /\ Is(r, "answered", 0, {}, 0, Op(r) # "view")
    BY <2>1, Finished DEF IInv, Ats
  <2> QED BY <2>2 DEF Is
<1>5. CurrentCart(r)' /\ CurrentRows(r)' /\ Waits(r)
  BY <1>1, <1>2, <1>4, NothingAtHand, OneAtWork DEF Busy, WithCart
<1>6. /\ shown'[own] = Shows(Lines(req[r].cart, items), {})
      /\ \A u \in Users : u # UserOf(r) => shown'[u] = shown[u]
  BY <1>0, <1>1, Shown
<1>7. Grows(r) /\ OnlyOwn(r)
  BY <1>1, <1>6, GrowsNot DEF OnlyOwn
<1>8. OneItem'
  BY <1>1 DEF PatientInv, OneItem
<1>9. OneCart(own)' /\ StillShown(own)'
  <2>1. ActiveCarts(own, carts') = {req[r].cart}
    BY <1>1, <1>3
  <2>2. Matches(Lines(req[r].cart, items'), shown'[own])
    BY <1>1, <1>6 DEF Matches, Shows
  <2> QED BY <2>1, <2>2 DEF OneCart, StillShown
<1> QED BY <1>0, <1>4, <1>5, <1>7, <1>8, <1>9, PatientStep

\* A write keeps to the cart at hand, and to one item of a product there.
WritesOwn(r) ==
    \A i \in Ids : items'[i] # items[i] =>
         /\ items[i] # NoItem => items[i].cart = req[r].cart
         /\ items'[i] # NoItem => items'[i].cart = req[r].cart

LEMMA WritesOneItem ==
    ASSUME IInv, PatientInv, SessionInv, overlap = 1, NEW r \in Requests, req[r].at = "writing", WriteItems(r)
    PROVE  OneItem' /\ WritesOwn(r)
<1>1. RowsTypeOK /\ call[r] \in Call /\ req[r] \in Request /\ lastItem \in Nat /\ OneItem /\ CurrentRows(r)
  BY Bounds DEF IInv, RowsTypeOK, PatientInv
<1>2. items \in [Ids -> ItemRows \cup {NoItem}] /\ \A i \in Ids : items[i] # NoItem => i <= lastItem
  BY <1>1 DEF RowsTypeOK
<1>3. CASE AddsRow(r)
  <2> DEFINE n == lastItem + 1
             row == ItemRow(req[r].cart, call[r].product, call[r].qty, req[r].quoted)
  <2>1. n \in Ids /\ ~(n <= lastItem)
    BY <1>1, <1>3, Bounds DEF Ids, AddsRow
  <2>2. row.cart = req[r].cart /\ row.product = call[r].product
    BY DEF ItemRow
  <2>3. items' = [items EXCEPT ![n] = row] /\ Op(r) = "add" /\ req[r].held = {}
    BY <1>3 DEF AddsRow
  <2> HIDE DEF n, row
  <2>4. items[n] = NoItem /\ items'[n] = row /\ \A i \in Ids : i # n => items'[i] = items[i]
    BY <1>2, <2>1, <2>3
  <2>5. ASSUME NEW i \in Ids, i # n, items[i] # NoItem, items[i].cart = req[r].cart
        PROVE  items[i].product # call[r].product
    <3>1. i \in ItemsOf(req[r].cart, items)
      BY <2>5 DEF ItemsOf
    <3> QED BY <1>1, <2>3, <3>1 DEF CurrentRows
  <2>6. OneItem'
    <3> SUFFICES ASSUME NEW i \in Ids, NEW j \in Ids, items'[i] # NoItem, items'[j] # NoItem,
                        items'[i].cart = items'[j].cart, items'[i].product = items'[j].product, i # j
                 PROVE  FALSE
      BY DEF OneItem
    <3>1. CASE i = n
      BY <2>2, <2>4, <2>5, <3>1
    <3>2. CASE j = n
      BY <2>2, <2>4, <2>5, <3>2
    <3>3. CASE i # n /\ j # n
      BY <1>1, <2>4, <3>3 DEF OneItem
    <3> QED BY <3>1, <3>2, <3>3
  <2>7. WritesOwn(r)
    BY <2>2, <2>4 DEF WritesOwn
  <2> QED BY <2>6, <2>7
<1>4. ASSUME NEW h \in req[r].held, NEW q \in Nat \ {0}, ChangesHeld(r, h, q) PROVE OneItem' /\ WritesOwn(r)
  <2> DEFINE row == [h.row EXCEPT !.qty = q]
  <2>1. /\ h.id \in Ids /\ h.row \in ItemRows /\ h.row.cart = req[r].cart
        /\ items[h.id] # NoItem => items[h.id].cart = h.row.cart /\ items[h.id].product = h.row.product
    BY <1>1 DEF Request, IInv, RequestInv, RowsAtHand, RowsTypeOK
  <2>2. row.cart = h.row.cart /\ row.product = h.row.product
    BY <2>1 DEF ItemRows
  <2>3. items' = [i \in Ids |-> IF i = h.id /\ items[i] # NoItem THEN row ELSE items[i]]
    BY <1>4 DEF ChangesHeld
  <2> HIDE DEF row
  <2>4. ASSUME NEW i \in Ids
        PROVE  /\ items'[i] # NoItem => /\ items[i] # NoItem /\ items'[i].cart = items[i].cart
                                        /\ items'[i].product = items[i].product
               /\ items'[i] # items[i] => i = h.id /\ items[i] # NoItem
    BY <2>1, <2>2, <2>3
  <2>5. OneItem'
    BY <1>1, <2>4 DEF OneItem
  <2>6. WritesOwn(r)
    BY <2>1, <2>4 DEF WritesOwn
  <2> QED BY <2>5, <2>6
<1>5. ASSUME NEW cleared, DeletesRows(r, cleared) PROVE OneItem' /\ WritesOwn(r)
  <2>1. /\ items' = [i \in Ids |-> IF i \in cleared THEN NoItem ELSE items[i]]
        /\ \A i \in cleared : items[i] # NoItem => items[i].cart = req[r].cart
    BY <1>5 DEF DeletesRows
  <2>2. \A i \in Ids : items'[i] # items[i] => i \in cleared /\ items'[i] = NoItem
    BY <2>1
  <2>3. \A i \in Ids : items'[i] # NoItem => items'[i] = items[i]
    BY <2>2
  <2>4. OneItem'
    BY <1>1, <2>3 DEF OneItem
  <2>5. WritesOwn(r)
    BY <2>1, <2>2 DEF WritesOwn
  <2> QED BY <2>4, <2>5
<1> QED BY <1>3, <1>4, <1>5, WriteForms

LEMMA PatientWrite ==
    ASSUME IInv, IInv', PatientInv, SessionInv, overlap = 1, NEW r \in Requests, Write(r)
    PROVE  PatientInv' /\ OnlyOwn(r)
<1>0. PICK own : own = UserOf(r)
  OBVIOUS
<1>1. /\ req[r].at = "writing" /\ WriteItems(r) /\ Finish(r, "looking", TRUE) /\ UNCHANGED call
      /\ carts' = carts /\ shown' = shown
  BY DEF Write, Finish, seen
<1>2. Grows(r) /\ OthersWait(r) /\ "writing" \in WithCart /\ "writing" \in Busy /\ "looking" \in Busy
  BY WriteKept DEF WithCart, Busy
<1>3. req'[r].at = "looking" /\ req'[r].wrote
  <2>1. Is(r, "looking", 0, {}, 0, TRUE)
    BY <1>1, Finished DEF IInv, Ats, Busy
  <2> QED BY <2>1 DEF Is
<1>4. CurrentCart(r)' /\ CurrentRows(r)' /\ Waits(r)
  BY <1>1, <1>2, <1>3, NothingAtHand, OneAtWork
<1>5. OneItem' /\ WritesOwn(r)
  BY <1>1, WritesOneItem
<1>6. OnlyOwn(r)
  BY <1>1, <1>2, <1>5 DEF OnlyOwn, WritesOwn
<1>7. own \in Users /\ UserOf(r)' = own
  BY <1>0, <1>1, SameCalls DEF IInv, RowsTypeOK, UserOf, Call
<1>8. OneCart(own)' /\ StillShown(own)'
  <2>1. OneCart(own)'
    BY <1>1, <1>7 DEF PatientInv, OneCart
  <2>2. Unseen(r)'
    BY <1>2, <1>3 DEF Unseen
  <2> QED BY <1>7, <2>1, <2>2 DEF StillShown
<1> QED BY <1>0, <1>2, <1>4, <1>5, <1>6, <1>8, PatientStep

\* A commit publishes the cart at hand, finds that one again and answers with
\* it.
LEMMA CommitTheCart ==
    ASSUME IInv, PatientInv, SessionInv, overlap = 1, NEW r \in Requests, Commit(r), NEW own, own = UserOf(r),
           NEW cart, cart = req[r].cart
    PROVE  /\ own \in Users /\ cart \in Ids
           /\ Answer(r, IF req[r].at = "writing" THEN Shows(Remembered(r), Outdated(r))
                        ELSE Shows(Lines(cart, items), {}))
           /\ ActiveCarts(own, carts') = {cart}
           /\ \A c \in Ids : carts'[c] # carts[c] => carts'[c] = CartRow(own, "active")
<1> DEFINE row == CartRow(own, "active")
           table == IF carts[cart] = NoCart THEN [carts EXCEPT ![cart] = row] ELSE carts
<1>1. req[r].at \in WithCart
  BY DEF Commit, WithCart
<1>2. /\ own \in Users /\ cart \in Ids
      /\ IF carts[cart] = NoCart THEN ActiveCarts(own, carts) = {}
         ELSE carts[cart] = row /\ ActiveCarts(own, carts) = {cart}
  BY <1>1, TheActiveCart
<1>3. carts \in [Ids -> CartRows \cup {NoCart}]
  BY DEF IInv, RowsTypeOK
<1>4. row # NoCart /\ row.user = own
  BY DEF CartRow, NoCart
<1>5. /\ ActiveCarts(own, table) = {cart}
      /\ \A c \in Ids : table[c] # carts[c] => table[c] = row
  <2> HIDE DEF row
  <2>1. CASE carts[cart] = NoCart
    <3>1. \A c \in Ids : table[c] = IF c = cart THEN row ELSE carts[c]
      BY <1>2, <1>3, <2>1
    <3>2. \A c \in Ids : carts[c] # row
      BY <1>2, <2>1 DEF ActiveCarts, row
    <3> QED BY <1>2, <3>1, <3>2 DEF ActiveCarts, row
  <2>2. CASE carts[cart] # NoCart
    BY <1>2, <2>2
  <2> QED BY <2>1, <2>2
<1> DEFINE answer == IF req[r].at = "writing" THEN Shows(Remembered(r), Outdated(r))
                      ELSE Shows(Lines(cart, items), {})
           active == IF Op(r) = "view" THEN {cart} ELSE ActiveCarts(own, table)
<1>6. carts' = table /\ Answer(r, answer)
  <2>1. Max({cart}) = cart
    <3>1. Max(ActiveCarts(own, table)) \in Ids /\ ActiveCarts(own, table) # {}
          /\ table[Max(ActiveCarts(own, table))] = row
      BY <1>5, MaxActive, ZenonT(30)
    <3>2. Max(ActiveCarts(own, table)) \in ActiveCarts(own, table)
      BY <3>1 DEF ActiveCarts
    <3> QED BY <1>5, <3>2
  <2>2. ActiveCarts(own, table) # {}
    BY <1>5
  <2>3. active = {cart} /\ active # {} /\ ~(Max(active) # cart)
    BY <1>5, <2>1
  <2>4. /\ carts' = table
        /\ Answer(r, CASE Max(active) # cart      -> None
                       [] req[r].at = "writing" -> Shows(Remembered(r), Outdated(r))
                       [] OTHER                 -> Shows(Lines(cart, items), {}))
    BY <2>3 DEF Commit
  <2> QED BY <2>3, <2>4
<1> QED BY <1>2, <1>5, <1>6

\* What the session of a request that writes in the app has, when its user waits.
LEMMA LoadedLines ==
    ASSUME IInv, SessionInv, overlap = 1, NEW r \in Requests, req[r].at = "writing", InApp(r)
    PROVE  loaded[r] \in LoadedRow /\ loaded[r].lines = Lines(req[r].cart, items)
BY DEF SessionInv, SessionTyped, Session, CurrentSession

LEMMA HeldIsThere ==
    ASSUME IInv, PatientInv, overlap = 1, NEW r \in Requests, NEW h \in req[r].held
    PROVE  /\ h.id \in ItemsOf(req[r].cart, items) /\ h.row \in ItemRows /\ items[h.id] \in ItemRows
           /\ h.row = [items[h.id] EXCEPT !.price = h.row.price] /\ items[h.id].qty = h.row.qty
           /\ Op(r) # "checkout" => h.row = items[h.id]
<1>1. h.id \in Ids /\ h.row \in ItemRows /\ h.row.cart = req[r].cart
  BY DEF Request, IInv, RowsTypeOK
<1>2. /\ items[h.id] # NoItem /\ h.row = [items[h.id] EXCEPT !.price = h.row.price]
      /\ Op(r) # "checkout" => h.row.price = items[h.id].price
  BY DEF PatientInv, CurrentRows
<1>3. items[h.id] \in ItemRows
  BY <1>1, <1>2 DEF IInv, RowsTypeOK
<1>4. items[h.id].cart = h.row.cart /\ items[h.id].qty = h.row.qty
  BY <1>2, <1>3 DEF ItemRows
<1>5. h.id \in ItemsOf(req[r].cart, items)
  BY <1>1, <1>2, <1>4 DEF ItemsOf
<1>6. Op(r) # "checkout" => h.row = items[h.id]
  BY <1>2, <1>3 DEF ItemRows
<1> QED BY <1>1, <1>2, <1>3, <1>4, <1>5, <1>6

\* An update that has nothing to write asks for the quantity there is.
LEMMA QuantityIsThere ==
    ASSUME IInv, PatientInv, SessionInv, overlap = 1, NEW r \in Requests, req[r].at = "writing",
           NEW h \in req[r].held, NothingToWrite(r)
    PROVE  h.row.qty = call[r].qty
<1>1. loaded[r].lines = Lines(req[r].cart, items)
  BY LoadedLines DEF NothingToWrite
<1>2. h.id \in ItemsOf(req[r].cart, items) /\ items[h.id].qty = h.row.qty
  BY HeldIsThere
<1> DEFINE l == Line(h.id, items[h.id])
<1>3. l.id = h.id /\ l.qty = h.row.qty
  BY <1>2 DEF Line
<1>4. l \in loaded[r].lines
  BY <1>1, <1>2 DEF Lines
<1> HIDE DEF l
<1>5. LET known == {k \in loaded[r].lines : k.id = h.id} IN
      IF known = {} THEN h.row.qty = call[r].qty ELSE \A k \in known : k.qty = call[r].qty
  BY DEF NothingToWrite
<1>6. l \in {k \in loaded[r].lines : k.id = h.id}
  BY <1>3, <1>4
<1>7. l.qty = call[r].qty
  BY <1>5, <1>6
<1> QED BY <1>3, <1>7

LEMMA LinesBut ==
    ASSUME NEW c, NEW table, NEW ids
    PROVE  /\ But(Lines(c, table), ids) = {Line(i, table[i]) : i \in ItemsOf(c, table) \ ids}
           /\ IdsOf(Lines(c, table)) = ItemsOf(c, table)
<1>1. \A i : Line(i, table[i]).id = i
  BY DEF Line
<1>2. But(Lines(c, table), ids) \subseteq {Line(i, table[i]) : i \in ItemsOf(c, table) \ ids}
  BY <1>1 DEF But, Lines
<1>3. {Line(i, table[i]) : i \in ItemsOf(c, table) \ ids} \subseteq But(Lines(c, table), ids)
  BY <1>1 DEF But, Lines
<1>4. IdsOf(Lines(c, table)) = ItemsOf(c, table)
  BY <1>1 DEF IdsOf, Lines
<1> QED BY <1>2, <1>3, <1>4

\* Answers that lack what was added or list what was deleted, and nothing else.
LEMMA MatchesAnyway ==
    ASSUME NEW c, NEW before, NEW after, NEW ids,
           \A i : i \notin ids => (i \in ItemsOf(c, after) <=> i \in ItemsOf(c, before)),
           \A i \in ItemsOf(c, before) \ ids : Line(i, after[i]) = Line(i, before[i]),
           \A i \in ids : i \in ItemsOf(c, after) <=> i \notin ItemsOf(c, before)
    PROVE  Matches(Lines(c, after), Shows(Lines(c, before), ids))
<1> DEFINE answer == Shows(Lines(c, before), ids)
<1>1. answer.lines = Lines(c, before) /\ answer.behind = ids
  BY DEF Shows
<1> HIDE DEF answer
<1>2. ItemsOf(c, after) \ ids = ItemsOf(c, before) \ ids
  OBVIOUS
<1> DEFINE same == ItemsOf(c, before) \ ids
<1>3. {Line(i, after[i]) : i \in same} = {Line(i, before[i]) : i \in same}
  OBVIOUS
<1>4. But(Lines(c, after), ids) = But(Lines(c, before), ids)
  BY <1>2, <1>3, LinesBut
<1>5. \A i \in ids : i \in IdsOf(Lines(c, after)) <=> i \notin IdsOf(Lines(c, before))
  BY LinesBut
<1> QED BY <1>1, <1>4, <1>5 DEF Matches, answer

\* The answer of a write in the app has the cart as it is but for the items that
\* write added or deleted.
LEMMA RememberedMatches ==
    ASSUME IInv, PatientInv, SessionInv, overlap = 1, NEW r \in Requests, req[r].at = "writing",
           WriteItems(r), InApp(r), Op(r) # "checkout"
    PROVE  Matches(Lines(req[r].cart, items'), Shows(Remembered(r), Outdated(r)))
<1>0. PICK c : c = req[r].cart
  OBVIOUS
<1> DEFINE own == ItemsOf(c, items)
           quantity(i) == IF i \notin HeldIds(r) THEN items[i].qty
                          ELSE CASE Op(r) = "add"    -> items[i].qty + call[r].qty
                                 [] Op(r) = "update" -> call[r].qty
                                 [] OTHER            -> items[i].qty
           line(i) == [id |-> i, product |-> items[i].product, qty |-> quantity(i), price |-> items[i].price]
<1>1. /\ RowsTypeOK /\ items \in [Ids -> ItemRows \cup {NoItem}] /\ lastItem \in Nat
      /\ \A i \in Ids : items[i] # NoItem => i <= lastItem
  BY Bounds DEF IInv, RowsTypeOK
<1>2. loaded[r].lines = Lines(c, items)
  BY <1>0, LoadedLines
<1>3. Remembered(r) = {line(i) : i \in own}
  <2> DEFINE told(l) == [l EXCEPT !.qty = IF l.id \notin HeldIds(r) THEN @
                                          ELSE CASE Op(r) = "add"    -> @ + call[r].qty
                                                 [] Op(r) = "update" -> call[r].qty
                                                 [] OTHER            -> @]
  <2>1. \A i \in own : told(Line(i, items[i])) = line(i)
    BY DEF Line
  <2>2. Remembered(r) = {told(l) : l \in Lines(c, items)}
    BY <1>2 DEF Remembered
  <2> HIDE DEF told, line, own
  <2>3. Lines(c, items) = {Line(i, items[i]) : i \in own}
    BY DEF Lines, own
  <2>4. {told(l) : l \in Lines(c, items)} = {line(i) : i \in own}
    BY <2>1, <2>3
  <2> QED BY <2>2, <2>4
<1>4. ASSUME \A i \in own : quantity(i) = items[i].qty PROVE Remembered(r) = Lines(c, items)
  <2>1. \A i \in own : line(i) = Line(i, items[i])
    BY <1>4 DEF Line
  <2> HIDE DEF line, own
  <2>2. {line(i) : i \in own} = {Line(i, items[i]) : i \in own}
    BY <2>1
  <2> QED BY <1>3, <2>2 DEF Lines, own
<1>5. HeldIds(r) = {} <=> req[r].held = {}
  BY DEF HeldIds
<1>6. CASE AddsRow(r)
  <2> DEFINE n == lastItem + 1
             row == ItemRow(req[r].cart, call[r].product, call[r].qty, req[r].quoted)
  <2>1. n \in Ids /\ ~(n <= lastItem)
    BY <1>1, <1>6, Bounds DEF Ids, AddsRow
  <2>2. row.cart = c /\ row # NoItem
    <3>1. c \in Ids
      BY <1>0, <1>1 DEF RowsTypeOK, WithCart
    <3> QED BY <1>0, <3>1 DEF ItemRow, NoItem, Ids
  <2>3. items' = [items EXCEPT ![n] = row] /\ Outdated(r) = {n} /\ HeldIds(r) = {}
    BY <1>5, <1>6 DEF AddsRow, Outdated
  <2> HIDE DEF n, row
  <2>4. items[n] = NoItem /\ items'[n] = row /\ \A i \in Ids : i # n => items'[i] = items[i]
    BY <1>1, <2>1, <2>3
  <2>5. Remembered(r) = Lines(c, items)
    BY <1>4, <2>3
  <2>6. /\ \A i : i # n => (i \in ItemsOf(c, items') <=> i \in own)
        /\ n \in ItemsOf(c, items') /\ n \notin own
    BY <2>1, <2>2, <2>4 DEF ItemsOf
  <2>7. \A i \in own \ {n} : Line(i, items'[i]) = Line(i, items[i])
    BY <2>4 DEF ItemsOf
  <2> QED BY <1>0, <2>3, <2>5, <2>6, <2>7, MatchesAnyway
<1>7. ASSUME NEW h \in req[r].held, NEW q \in Nat \ {0}, ChangesHeld(r, h, q)
      PROVE  Matches(Lines(c, items'), Shows(Remembered(r), Outdated(r)))
  <2>1. /\ HeldIds(r) = {h.id} /\ Outdated(r) = {} /\ h.id \in own
        /\ items[h.id] \in ItemRows /\ h.row = items[h.id]
    <3>1. HeldIds(r) = {h.id}
      BY <1>7, OneHeld DEF ChangesHeld
    <3> QED BY <1>0, <1>7, <3>1, HeldIsThere DEF ChangesHeld, Outdated
  <2>2. /\ q = quantity(h.id)
        /\ items' = [i \in Ids |-> IF i = h.id /\ items[i] # NoItem THEN [items[h.id] EXCEPT !.qty = q] ELSE items[i]]
    BY <1>7, <2>1 DEF ChangesHeld
  <2>3. items[h.id] # NoItem /\ h.id \in Ids
    BY <2>1 DEF ItemsOf
  <2>4. /\ items'[h.id] = [items[h.id] EXCEPT !.qty = q]
        /\ \A i \in Ids : i # h.id => items'[i] = items[i]
    BY <2>2, <2>3
  <2>5. /\ items'[h.id].product = items[h.id].product /\ items'[h.id].price = items[h.id].price
        /\ items'[h.id].qty = q /\ items'[h.id].cart = items[h.id].cart /\ items'[h.id] # NoItem
    BY <2>1, <2>4 DEF ItemRows, NoItem
  <2>6. ItemsOf(c, items') = own
    BY <2>3, <2>4, <2>5 DEF ItemsOf
  <2>7. \A i \in own : Line(i, items'[i]) = line(i)
    <3>1. Line(h.id, items'[h.id]) = line(h.id)
      BY <2>2, <2>5, Zenon DEF Line
    <3>2. ASSUME NEW i \in own, i # h.id PROVE Line(i, items'[i]) = line(i)
      <4>1. items'[i] = items[i] /\ quantity(i) = items[i].qty
        BY <2>1, <2>4, <3>2 DEF ItemsOf
      <4> QED BY <4>1 DEF Line
    <3> QED BY <3>1, <3>2
  <2> HIDE DEF line, own
  <2>8. Lines(c, items') = Remembered(r)
    <3>1. {Line(i, items'[i]) : i \in own} = {line(i) : i \in own}
      BY <2>7
    <3> QED BY <1>3, <2>6, <3>1 DEF Lines
  <2> QED BY <2>1, <2>8 DEF Matches, Shows
<1>8. ASSUME NEW cleared, DeletesRows(r, cleared)
      PROVE  Matches(Lines(c, items'), Shows(Remembered(r), Outdated(r)))
  <2>1. items' = [i \in Ids |-> IF i \in cleared THEN NoItem ELSE items[i]]
    BY <1>8 DEF DeletesRows
  <2>2. CASE Op(r) \in {"add", "update"}
    <3>1. NothingToWrite(r) /\ cleared = {} /\ Op(r) = "update"
      BY <1>8, <2>2 DEF DeletesRows, NothingToWrite
    <3>2. items' = items
      BY <1>1, <2>1, <3>1
    <3>3. \A i \in own : quantity(i) = items[i].qty
      <4>1. \A h \in req[r].held : items[h.id].qty = call[r].qty
        BY <3>1, HeldIsThere, QuantityIsThere
      <4> QED BY <3>1, <4>1 DEF HeldIds
    <3>4. Remembered(r) = Lines(c, items) /\ Outdated(r) = {}
      BY <1>4, <3>1, <3>3 DEF Outdated
    <3> QED BY <3>2, <3>4 DEF Matches, Shows
  <2>3. CASE Op(r) \notin {"add", "update"}
    <3>1. /\ Outdated(r) = HeldIds(r) /\ Remembered(r) = Lines(c, items)
      BY <1>4, <2>3 DEF Outdated
    <3>2. HeldIds(r) \subseteq own
      BY <1>0, HeldIsThere DEF HeldIds
    <3>3. cleared = HeldIds(r)
      <4>1. Op(r) \in {"remove", "clear"}
        <5>1. Op(r) \in Ops /\ Op(r) # "view"
          BY <1>1 DEF RowsTypeOK, Op, Call, IInv, RequestInv, Course
        <5> QED BY <2>3, <5>1 DEF Ops
      <4>2. Op(r) = "clear" => own = HeldIds(r)
        BY <1>0 DEF PatientInv, CurrentRows
      <4> QED BY <1>0, <1>8, <4>1, <4>2 DEF DeletesRows
    <3>4. \A i \in Ids : items'[i] = IF i \in cleared THEN NoItem ELSE items[i]
      BY <2>1
    <3>5. /\ \A i : i \notin HeldIds(r) => (i \in ItemsOf(c, items') <=> i \in own)
          /\ \A i \in HeldIds(r) : i \notin ItemsOf(c, items') /\ i \in own
      BY <3>2, <3>3, <3>4 DEF ItemsOf
    <3>6. \A i \in own \ HeldIds(r) : Line(i, items'[i]) = Line(i, items[i])
      BY <3>3, <3>4 DEF ItemsOf
    <3> HIDE DEF own
    <3> QED BY <3>1, <3>5, <3>6, MatchesAnyway DEF own
  <2> QED BY <2>2, <2>3
<1> QED BY <1>0, <1>6, <1>7, <1>8, WriteForms

LEMMA PatientCommit ==
    ASSUME IInv, IInv', PatientInv, SessionInv, overlap = 1, NEW r \in Requests, Commit(r)
    PROVE  PatientInv' /\ OnlyOwn(r)
<1>0. PICK own : own = UserOf(r)
  OBVIOUS
<1> DEFINE cart == req[r].cart
<1>1. /\ UNCHANGED call /\ (Op(r) # "view") \in BOOLEAN /\ Finish(r, "answered", Op(r) # "view")
      /\ req[r].at \in {"writing", "showing"}
      /\ (req[r].at = "writing" /\ WriteItems(r)) \/ items' = items
  BY DEF Commit, Answer
<1>2. Grows(r) /\ OthersWait(r) /\ req[r].at \in WithCart /\ req[r].at \in Busy
  BY <1>1, CommitKept DEF WithCart, Busy
<1>3. req'[r].at = "answered"
  <2>1. Is(r, "answered", 0, {}, 0, Op(r) # "view")
    BY <1>1, Finished DEF IInv, Ats
  <2> QED BY <2>1 DEF Is
<1>4. CurrentCart(r)' /\ CurrentRows(r)' /\ Waits(r)
  BY <1>2, <1>3, NothingAtHand, OneAtWork DEF Busy, WithCart
<1> DEFINE answer == IF req[r].at = "writing" THEN Shows(Remembered(r), Outdated(r))
                      ELSE Shows(Lines(cart, items), {})
<1>5. /\ Answer(r, answer) /\ ActiveCarts(own, carts') = {cart}
      /\ \A c \in Ids : carts'[c] # carts[c] => carts'[c] = CartRow(own, "active")
  BY <1>0, CommitTheCart
<1>5a. Matches(Lines(cart, items'), answer)
  <2>1. CASE req[r].at = "writing"
    <3>1. WriteItems(r) /\ InApp(r) /\ Op(r) # "checkout"
      BY <2>1 DEF Commit
    <3> QED BY <2>1, <3>1, RememberedMatches
  <2>2. CASE req[r].at # "writing"
    <3>1. items' = items
      BY <1>1, <2>2
    <3> QED BY <2>2, <3>1 DEF Matches, Shows
  <2> QED BY <2>1, <2>2
<1> HIDE DEF cart, answer
<1>6. OneItem' /\ WritesOwn(r)
  <2>1. CASE req[r].at = "writing" /\ WriteItems(r)
    BY <2>1, WritesOneItem
  <2>2. CASE items' = items
    BY <2>2 DEF PatientInv, OneItem, WritesOwn
  <2> QED BY <1>1, <2>1, <2>2
<1>7. shown'[own] = answer /\ \A u \in Users : u # UserOf(r) => shown'[u] = shown[u]
  BY <1>0, <1>5, Shown
<1>8. OnlyOwn(r)
  <2>1. \A c \in Ids : carts'[c] # carts[c] => carts'[c] # NoCart /\ carts'[c].user = UserOf(r)
    BY <1>0, <1>5 DEF CartRow, NoCart
  <2> QED BY <1>2, <1>6, <1>7, <2>1 DEF OnlyOwn, WritesOwn
<1>9. OneCart(own)' /\ StillShown(own)'
  BY <1>5, <1>5a, <1>7 DEF OneCart, StillShown
<1> QED BY <1>0, <1>2, <1>4, <1>6, <1>8, <1>9, PatientStep

LEMMA PatientOrder ==
    ASSUME IInv, IInv', PatientInv, SessionInv, overlap = 1, NEW r \in Requests, PlaceOrder(r)
    PROVE  PatientInv' /\ OnlyOwn(r)
<1>0. PICK own : own = UserOf(r)
  OBVIOUS
<1> DEFINE cart == req[r].cart
           row == CartRow(own, "checked_out")
<1>1. /\ UNCHANGED call /\ TRUE \in BOOLEAN /\ Finish(r, "answered", TRUE) /\ req[r].at = "writing"
      /\ items' = items /\ carts' = [carts EXCEPT ![cart] = row]
      /\ shown' = [shown EXCEPT ![own] = None]
  BY <1>0 DEF PlaceOrder
<1>2. Grows(r) /\ OthersWait(r) /\ req[r].at \in WithCart /\ req[r].at \in Busy
  BY <1>1, PlaceOrderKept DEF WithCart, Busy
<1>3. req'[r].at = "answered"
  <2>1. Is(r, "answered", 0, {}, 0, TRUE)
    BY <1>1, Finished DEF IInv, Ats
  <2> QED BY <2>1 DEF Is
<1>4. CurrentCart(r)' /\ CurrentRows(r)' /\ Waits(r)
  BY <1>2, <1>3, NothingAtHand, OneAtWork DEF Busy, WithCart
<1>5. own \in Users /\ cart \in Ids
  BY <1>0, <1>2, TheActiveCart
<1>6. /\ carts \in [Ids -> CartRows \cup {NoCart}]
      /\ shown \in [Users -> AnswerRow \cup {None}]
  BY DEF IInv, RowsTypeOK, SessionInv, SessionTyped
<1>7. row # NoCart /\ row.user = own /\ row # CartRow(own, "active")
  BY DEF CartRow, NoCart
<1> HIDE DEF cart, row
<1>8. /\ \A c \in Ids : carts'[c] = IF c = cart THEN row ELSE carts[c]
      /\ \A u \in Users : shown'[u] = IF u = own THEN None ELSE shown[u]
  BY <1>1, <1>5, <1>6
<1>9. OneItem'
  BY <1>1 DEF PatientInv, OneItem
<1>10. OnlyOwn(r)
  BY <1>0, <1>1, <1>7, <1>8 DEF OnlyOwn
<1>11. OneCart(own)' /\ StillShown(own)'
  <2>1. ActiveCarts(own, carts') \subseteq ActiveCarts(own, carts)
    BY <1>7, <1>8 DEF ActiveCarts
  <2>2. OneCart(own)
    BY <1>5 DEF PatientInv
  <2>3. OneCart(own)'
    BY <2>1, <2>2 DEF OneCart
  <2>4. shown'[own] = None
    BY <1>5, <1>8
  <2> QED BY <2>3, <2>4 DEF StillShown
<1> QED BY <1>0, <1>2, <1>4, <1>9, <1>10, <1>11, PatientStep

LEMMA PatientCreate ==
    ASSUME IInv, IInv', PatientInv, SessionInv, overlap = 1, NEW r \in Requests, Create(r)
    PROVE  PatientInv' /\ OnlyOwn(r)
<1>0. PICK own : own = UserOf(r)
  OBVIOUS
<1> DEFINE cart == lastCart + 1
           row == CartRow(own, "active")
<1>1. /\ RowsTypeOK /\ req[r].at = "creating" /\ lastCart < MaxRows
      /\ carts' = IF InTx(r) THEN carts ELSE [carts EXCEPT ![cart] = row]
      /\ req' = [req EXCEPT ![r].at = Opened(r), ![r].cart = cart]
      /\ items' = items /\ shown' = shown /\ UNCHANGED call
  BY <1>0 DEF IInv, Create, seen
<1>2. Grows(r) /\ OthersWait(r) /\ req[r].at \in Busy /\ req[r].at \notin WithCart
  BY <1>1, CreateKept DEF WithCart, Busy
<1>3. lastCart \in Nat /\ cart \in Ids /\ cart \in 0 .. MaxRows /\ ~(cart <= lastCart)
  BY <1>1, Bounds DEF RowsTypeOK, Ids
<1>4. row # NoCart /\ row.user = own
  BY DEF CartRow, NoCart
<1>5. carts \in [Ids -> CartRows \cup {NoCart}] /\ carts[cart] = NoCart
  BY <1>1, <1>3 DEF RowsTypeOK
<1> HIDE DEF cart, row
<1>6. \A c \in Ids : carts'[c] = IF c = cart /\ ~InTx(r) THEN row ELSE carts[c]
  BY <1>1, <1>3, <1>5
<1>7. own \in Users /\ UserOf(r)' = own
  BY <1>0, <1>1, SameCalls DEF RowsTypeOK, UserOf, Call
<1>8. Opened(r) \in {"showing", "reading"} /\ req[r].held = {}
  BY <1>1 DEF Opened, IInv, RequestInv, Course
<1>9. /\ req'[r].at \in {"showing", "reading"} /\ req'[r].cart = cart /\ req'[r].held = {}
      /\ req'[r].wrote = req[r].wrote
  <2>1. Is(r, Opened(r), cart, req[r].held, req[r].quoted, req[r].wrote)
    BY <1>1, <1>3, <1>8, GoesWithCart DEF Ats, Busy, WithCart
  <2> QED BY <1>8, <2>1, SMTT(30) DEF Is
<1>10. ActiveCarts(own, carts) = {}
  BY <1>0, <1>1 DEF PatientInv, CurrentCart
<1>11. ActiveCarts(own, carts') = IF InTx(r) THEN {} ELSE {cart}
  <2>1. \A c \in Ids : carts[c] # row
    BY <1>10 DEF ActiveCarts, row
  <2> QED BY <1>3, <1>6, <2>1 DEF ActiveCarts, row
<1>12. CurrentCart(r)' /\ CurrentRows(r)' /\ Waits(r)
  <2>1. IF carts'[cart] = NoCart THEN ActiveCarts(own, carts') = {} ELSE carts'[cart] = row
    BY <1>3, <1>4, <1>5, <1>6, <1>11
  <2>2. CurrentCart(r)'
    BY <1>7, <1>9, <2>1 DEF CurrentCart, row
  <2>3. CurrentRows(r)'
    BY <1>9 DEF CurrentRows
  <2> QED BY <1>2, <2>2, <2>3, OneAtWork
<1>13. OneItem'
  BY <1>1 DEF PatientInv, OneItem
<1>14. OnlyOwn(r)
  BY <1>0, <1>1, <1>4, <1>6 DEF OnlyOwn
<1>15. OneCart(own)'
  BY <1>11 DEF OneCart
<1>16. StillShown(own)'
  <2> SUFFICES ASSUME shown'[own] # None, \A s \in Requests : UserOf(s)' = own => ~Unseen(s)'
               PROVE  FALSE
    BY DEF StillShown
  <2>1. StillShown(own)
    BY <1>7 DEF PatientInv
  <2>2. PICK s \in Requests : UserOf(s) = own /\ Unseen(s)
    BY <1>1, <1>10, <2>1 DEF StillShown
  <2>3. s = r
    BY <1>0, <1>12, <2>2 DEF Waits, Unseen
  <2>4. Unseen(r)'
    BY <1>9, <2>2, <2>3 DEF Unseen, Busy, WithCart
  <2> QED BY <1>7, <2>4
<1> QED BY <1>0, <1>2, <1>12, <1>13, <1>14, <1>15, <1>16, PatientStep

\* A step of no request.
LEMMA PatientStill ==
    ASSUME PatientInv, UNCHANGED <<rows, req, call, overlap, shown>>
    PROVE  PatientInv'
<1>1. carts' = carts /\ items' = items /\ req' = req /\ call' = call /\ overlap' = overlap /\ shown' = shown
  BY DEF rows
<1> QED BY <1>1, SMTT(30) DEF PatientInv, Alone, Waits, OneItem, OneCart, StillShown, Unseen, CurrentCart, CurrentRows,
          HeldIds, UserOf, Op

LEMMA PatientInit == Init => PatientInv
<1> SUFFICES ASSUME Init PROVE PatientInv
  OBVIOUS
<1>1. PICK owner \in Bijection(1 .. lastCart, Starts) :
        /\ carts = [c \in Ids |-> IF c <= lastCart THEN CartRow(owner[c], "active") ELSE NoCart]
        /\ items = [i \in Ids |-> IF i <= lastItem THEN StartItem(i) ELSE NoItem]
  BY DEF Init
<1>2. lastCart \in Nat
  BY Bounds DEF Init
<1>3. \A r \in Requests : /\ req[r].at = "expected" /\ req[r].held = {} /\ "expected" \notin WithCart
                          /\ "expected" \notin Busy
  BY DEF Init, Idle, WithCart, Busy
<1>4. Alone /\ \A r \in Requests : CurrentCart(r) /\ CurrentRows(r)
  BY <1>3 DEF Alone, CurrentCart, CurrentRows
<1>5. OneItem
  <2>1. \A i \in Ids : items[i] # NoItem => items[i].cart = i
    BY <1>1 DEF StartItem, ItemRow
  <2> QED BY <2>1 DEF OneItem
<1>6. ASSUME NEW u \in Users PROVE OneCart(u) /\ StillShown(u)
  <2>1. ASSUME NEW c \in ActiveCarts(u, carts) PROVE c \in 1 .. lastCart /\ owner[c] = u
    <3>1. c \in Ids /\ carts[c] = CartRow(u, "active") /\ CartRow(u, "active") # NoCart
      BY DEF ActiveCarts, CartRow, NoCart
    <3>2. c <= lastCart /\ CartRow(owner[c], "active") = CartRow(u, "active")
      BY <1>1, <3>1
    <3> QED BY <1>2, <3>1, <3>2 DEF Ids, CartRow
  <2>2. \A c, d \in 1 .. lastCart : owner[c] = owner[d] => c = d
    BY DEF Bijection, Injection, IsInjective
  <2>3. OneCart(u)
    BY <2>1, <2>2 DEF OneCart
  <2>4. shown[u] = None
    BY DEF Init
  <2> QED BY <2>3, <2>4 DEF StillShown
<1> QED BY <1>4, <1>5, <1>6 DEF PatientInv

LEMMA PatientKept == ASSUME IInv, PatientInv, SessionInv, [Next]_vars PROVE PatientInv'
<1>1. IInv'
  BY NextKept
<1>2. CASE UNCHANGED vars
  BY <1>2, PatientStill DEF vars, seen
<1>3. ASSUME NEW p \in Products, Reprice(p) PROVE PatientInv'
  BY <1>3, PatientStill DEF Reprice, seen
<1>4. ASSUME NEW r \in Requests, Receive(r) \/ Proceed(r) \/ Fail(r) PROVE PatientInv'
  <2>1. overlap' = overlap
    BY <1>4 DEF Receive, Proceed, Fail, Look, Create, Load, Read, ReadForAdd, ReadItem, ReadForClear, ReadForCheckout,
                Hold, Refuse, Write, Show, Commit, RowIsGone, PlaceOrder, Answer
  <2> SUFFICES ASSUME overlap = 1 PROVE PatientInv'
    BY <2>1 DEF PatientInv
  <2>2. CASE Receive(r)
    BY <1>1, <2>2, PatientReceive
  <2>3. CASE Look(r)
    BY <1>1, <2>3, PatientLook
  <2>4. CASE Create(r)
    BY <1>1, <2>4, PatientCreate
  <2>5. CASE Read(r)
    BY <1>1, <2>5, PatientRead
  <2>6. CASE Write(r)
    BY <1>1, <2>6, PatientWrite
  <2>7. CASE Show(r)
    BY <1>1, <2>7, PatientShow
  <2>8. CASE Commit(r)
    BY <1>1, <2>8, PatientCommit
  <2>9. CASE RowIsGone(r)
    BY <1>1, <2>9, PatientRefuse DEF RowIsGone
  <2>10. CASE PlaceOrder(r)
    BY <1>1, <2>10, PatientOrder
  <2>11. CASE Fail(r)
    BY <1>1, <2>11, PatientFail
  <2>12. CASE Load(r)
    BY <2>12, PatientStill DEF Load, seen
  <2> QED BY <1>4, <2>2, <2>3, <2>4, <2>5, <2>6, <2>7, <2>8, <2>9, <2>10, <2>11, <2>12, SMTT(30) DEF Proceed
<1> QED BY <1>2, <1>3, <1>4 DEF Next
-----------------------------------------------------------------------------
(* Sessions.                                                               *)

\* What a request's step leaves as it was.
LEMMA OneMoves ==
    ASSUME IInv, NEW r \in Requests, Receive(r) \/ Proceed(r) \/ Fail(r)
    PROVE  OthersWait(r) /\ UNCHANGED <<call, overlap>> /\ (req[r].at \in Busy \/ Receive(r))
<1>1. UNCHANGED <<call, overlap>>
  BY DEF Receive, Proceed, Fail, Look, Create, Load, Read, ReadForAdd, ReadItem, ReadForClear, ReadForCheckout,
         Hold, Refuse, Write, Show, Commit, RowIsGone, PlaceOrder, Answer
<1>2. req[r].at \in Busy \/ Receive(r)
  BY DEF Proceed, Fail, Look, Create, Load, Read, Write, Show, Commit, RowIsGone, PlaceOrder, Busy, WithCart
<1>3. \E q : req' = [req EXCEPT ![r] = q]
  <2>1. req \in [Requests -> Request]
    BY DEF IInv, RowsTypeOK
  <2>2. ASSUME NEW at, req' = [req EXCEPT ![r].at = at] PROVE req' = [req EXCEPT ![r] = [@ EXCEPT !.at = at]]
    BY <2>2
  <2>3. ASSUME NEW at, NEW x, \/ req' = [req EXCEPT ![r].at = at, ![r].cart = x]
                              \/ req' = [req EXCEPT ![r].at = at, ![r].held = x]
                              \/ req' = [req EXCEPT ![r].at = at, ![r].quoted = x]
        PROVE  \E q : req' = [req EXCEPT ![r] = q]
    <3>1. CASE req' = [req EXCEPT ![r].at = at, ![r].cart = x]
      <4>1. req' = [req EXCEPT ![r] = [req[r] EXCEPT !.at = at, !.cart = x]]
        BY <2>1, <3>1
      <4> QED BY <4>1
    <3>2. CASE req' = [req EXCEPT ![r].at = at, ![r].held = x]
      <4>1. req' = [req EXCEPT ![r] = [req[r] EXCEPT !.at = at, !.held = x]]
        BY <2>1, <3>2
      <4> QED BY <4>1
    <3>3. CASE req' = [req EXCEPT ![r].at = at, ![r].quoted = x]
      <4>1. req' = [req EXCEPT ![r] = [req[r] EXCEPT !.at = at, !.quoted = x]]
        BY <2>1, <3>3
      <4> QED BY <4>1
    <3> QED BY <2>3, <3>1, <3>2, <3>3
  <2>4. CASE Receive(r)
    BY <2>3, <2>4 DEF Receive, Finish
  <2>5. CASE Look(r)
    BY <2>2, <2>3, <2>5 DEF Look
  <2>6. CASE Create(r)
    BY <2>3, <2>6 DEF Create
  <2>7. CASE Read(r)
    BY <2>3, <2>7 DEF Read, ReadForAdd, ReadItem, ReadForClear, ReadForCheckout, Hold, Refuse, Finish
  <2>8. CASE Write(r) \/ Show(r) \/ Commit(r) \/ RowIsGone(r) \/ PlaceOrder(r) \/ Fail(r)
    BY <2>8 DEF Write, Show, Commit, RowIsGone, Refuse, PlaceOrder, Fail, Answer, Finish
  <2>9. CASE Load(r)
    <3>1. req' = req
      BY <2>9 DEF Load
    <3> QED BY <2>1, <3>1
  <2> QED BY <2>4, <2>5, <2>6, <2>7, <2>8, <2>9 DEF Proceed
<1>4. OthersWait(r)
  <2>1. PICK q : req' = [req EXCEPT ![r] = q]
    BY <1>3
  <2> QED BY <2>1 DEF OthersWait, IInv, RowsTypeOK
<1> QED BY <1>1, <1>2, <1>4, SMTT(30)

\* A step of request r gives its session, and what its user was shown, anew.
LEMMA SessionStep ==
    ASSUME IInv, SessionInv, NEW r \in Requests, OthersWait(r), UNCHANGED <<call, overlap>>,
           NEW x \in LoadedRow \cup {None}, loaded' = [loaded EXCEPT ![r] = x],
           shown' \in [Users -> AnswerRow \cup {None}],
           x # None => req'[r].at \in {"reading", "writing"},
           req'[r].at = "writing" /\ InApp(r) => x # None,
           overlap = 1 => /\ x # None => x.lines = Lines(req'[r].cart, items')
                          /\ \A s \in Requests : s # r /\ loaded[s] # None =>
                               Lines(req[s].cart, items') = Lines(req[s].cart, items)
    PROVE  SessionInv'
<1>1. loaded \in [Requests -> LoadedRow \cup {None}]
  BY DEF SessionInv, SessionTyped
<1>2. loaded'[r] = x /\ \A s \in Requests : s # r => loaded'[s] = loaded[s]
  BY <1>1
<1>3. SessionTyped'
  BY <1>1 DEF SessionTyped
<1>4. \A s \in Requests : InApp(s)' <=> InApp(s)
  BY DEF InApp
<1>5. Session(r)' /\ (overlap = 1 => CurrentSession(r)')
  BY <1>2, <1>4 DEF Session, CurrentSession
<1>6. ASSUME NEW s \in Requests, s # r PROVE Session(s)' /\ (overlap = 1 => CurrentSession(s)')
  <2>1. req'[s] = req[s] /\ loaded'[s] = loaded[s] /\ Session(s) /\ (overlap = 1 => CurrentSession(s))
    BY <1>2, <1>6 DEF OthersWait, SessionInv
  <2>2. Session(s)'
    BY <1>4, <2>1 DEF Session
  <2>3. overlap = 1 => CurrentSession(s)'
    BY <1>6, <2>1 DEF CurrentSession
  <2> QED BY <2>2, <2>3
<1> QED BY <1>3, <1>5, <1>6 DEF SessionInv

\* A request that ends takes its session with it.
LEMMA SessionOver ==
    ASSUME IInv, SessionInv, NEW r \in Requests, UNCHANGED <<call, overlap>>,
           NEW at \in Ats \ {"reading", "writing"}, NEW wrote \in BOOLEAN, Finish(r, at, wrote),
           shown' \in [Users -> AnswerRow \cup {None}],
           overlap = 1 =>
             \A s \in Requests : s # r /\ loaded[s] # None =>
               Lines(req[s].cart, items') = Lines(req[s].cart, items)
    PROVE  SessionInv'
<1>1. OthersWait(r) /\ req'[r].at = at
  <2>1. OthersWait(r) /\ Is(r, at, 0, {}, 0, wrote)
    BY Finished DEF IInv
  <2> QED BY <2>1 DEF Is
<1>2. loaded' = [loaded EXCEPT ![r] = None]
  BY DEF Finish
<1>3. None \in LoadedRow \cup {None} /\ (None # None => FALSE)
  OBVIOUS
<1> QED BY <1>1, <1>2, <1>3, SessionStep

\* A write is in nobody else's cart.
LEMMA OthersSession ==
    ASSUME IInv, PatientInv, SessionInv, overlap = 1, NEW r \in Requests, OnlyOwn(r), req[r].at \in WithCart,
           NEW s \in Requests, s # r, loaded[s] # None
    PROVE  Lines(req[s].cart, items') = Lines(req[s].cart, items)
<1>1. req[s].at \in WithCart /\ req[s].at \in Busy /\ req[r].at \in Busy
  BY DEF SessionInv, Session, WithCart, Busy
<1>2. req[s].cart # req[r].cart
  <2> SUFFICES ASSUME req[s].cart = req[r].cart PROVE FALSE
    OBVIOUS
  <2>1. carts[req[r].cart] # NoCart
    BY <1>1 DEF IInv, OwnCarts
  <2>2. UserOf(s) = UserOf(r)
    BY <1>1, <2>1 DEF IInv, RequestInv, CartAtHand
  <2> QED BY <1>1, <2>2 DEF PatientInv, Alone, Waits
<1> QED BY <1>2, OthersItems

LEMMA AnswerTyped ==
    ASSUME SessionInv, NEW r \in Requests, NEW answer \in AnswerRow \cup {None}, Answer(r, answer)
    PROVE  shown' \in [Users -> AnswerRow \cup {None}]
BY DEF SessionInv, SessionTyped, Answer

LEMMA RememberedTyped ==
    ASSUME IInv, SessionInv, NEW r \in Requests, req[r].at = "writing", InApp(r), WriteItems(r)
    PROVE  Shows(Remembered(r), Outdated(r)) \in AnswerRow
<1>1. /\ loaded[r] \in LoadedRow /\ call[r] \in Call /\ lastItem \in Nat
      /\ HeldIds(r) \subseteq Ids
  BY Bounds DEF SessionInv, SessionTyped, Session, IInv, RowsTypeOK, Request, HeldIds
<1>2. Remembered(r) \in SUBSET LineRow
  <2>1. call[r].qty \in Nat \ {0} /\ loaded[r].lines \in SUBSET LineRow
    BY <1>1 DEF LoadedRow, Call
  <2>2. ASSUME NEW l \in LineRow, NEW q \in Nat \ {0} PROVE [l EXCEPT !.qty = q] \in LineRow
    BY DEF LineRow
  <2>3. \A l \in LineRow : l.qty \in Nat \ {0} /\ l.qty + call[r].qty \in Nat \ {0}
    BY <2>1 DEF LineRow
  <2>4. ASSUME NEW l \in loaded[r].lines
        PROVE  [l EXCEPT !.qty = IF l.id \notin HeldIds(r) THEN @
                                 ELSE CASE Op(r) = "add"    -> @ + call[r].qty
                                        [] Op(r) = "update" -> call[r].qty
                                        [] OTHER            -> @] \in LineRow
    BY <2>1, <2>2, <2>3
  <2> QED BY <2>4 DEF Remembered
<1>3. Outdated(r) \in SUBSET Ids
  <2>1. Op(r) = "add" /\ HeldIds(r) = {} => lastItem + 1 \in Ids
    BY <1>1, Bounds DEF WriteItems, Ids
  <2> QED BY <1>1, <2>1 DEF Outdated
<1> QED BY <1>2, <1>3 DEF Shows, AnswerRow

LEMMA SessionCommit ==
    ASSUME IInv, IInv', PatientInv, SessionInv, NEW r \in Requests, Commit(r)
    PROVE  SessionInv'
<1>1. /\ Finish(r, "answered", Op(r) # "view") /\ (Op(r) # "view") \in BOOLEAN /\ UNCHANGED <<call, overlap>>
      /\ InApp(r) /\ req[r].at \in WithCart /\ "answered" \in Ats \ {"reading", "writing"}
  BY DEF Commit, Answer, WithCart, Ats
<1>2. shown' \in [Users -> AnswerRow \cup {None}]
  <2>1. Shows(Lines(req[r].cart, items), {}) \in AnswerRow
    <3>1. Lines(req[r].cart, items) \in SUBSET LineRow
      BY LinesTyped DEF IInv, RowsTypeOK
    <3> QED BY <3>1 DEF Shows, AnswerRow
  <2>2. req[r].at = "writing" => Shows(Remembered(r), Outdated(r)) \in AnswerRow
    BY <1>1, RememberedTyped DEF Commit
  <2>3. \E answer \in AnswerRow \cup {None} : Answer(r, answer)
    BY <2>1, <2>2 DEF Commit
  <2> QED BY <2>3, AnswerTyped
<1>3. ASSUME overlap = 1, NEW s \in Requests, s # r, loaded[s] # None
      PROVE  Lines(req[s].cart, items') = Lines(req[s].cart, items)
  <2>1. OnlyOwn(r)
    BY <1>3, PatientCommit
  <2> QED BY <1>1, <1>3, <2>1, OthersSession
<1> QED BY <1>1, <1>2, <1>3, SessionOver

LEMMA SessionWrite ==
    ASSUME IInv, IInv', PatientInv, SessionInv, NEW r \in Requests, Write(r)
    PROVE  SessionInv'
<1>1. /\ Finish(r, "looking", TRUE) /\ TRUE \in BOOLEAN /\ UNCHANGED <<call, overlap>> /\ shown' = shown
      /\ req[r].at \in WithCart /\ "looking" \in Ats \ {"reading", "writing"}
  BY DEF Write, WithCart, Ats, Busy, seen
<1>2. shown' \in [Users -> AnswerRow \cup {None}]
  BY <1>1 DEF SessionInv, SessionTyped
<1>3. ASSUME overlap = 1, NEW s \in Requests, s # r, loaded[s] # None
      PROVE  Lines(req[s].cart, items') = Lines(req[s].cart, items)
  <2>1. OnlyOwn(r)
    BY <1>3, PatientWrite
  <2> QED BY <1>1, <1>3, <2>1, OthersSession
<1> QED BY <1>1, <1>2, <1>3, SessionOver

\* A step that leaves the items and goes on.
LEMMA SessionOn ==
    ASSUME IInv, SessionInv, NEW r \in Requests, OthersWait(r), UNCHANGED <<items, call, overlap, shown, loaded>>,
           loaded[r] = None, req'[r].at # "writing"
    PROVE  SessionInv'
<1>1. loaded' = [loaded EXCEPT ![r] = None] /\ shown' \in [Users -> AnswerRow \cup {None}]
  BY DEF SessionInv, SessionTyped
<1>2. None \in LoadedRow \cup {None} /\ (None # None => FALSE)
  OBVIOUS
<1> QED BY <1>1, <1>2, SessionStep

LEMMA SessionRead ==
    ASSUME IInv, SessionInv, NEW r \in Requests, Load(r) \/ Read(r)
    PROVE  SessionInv'
<1> DEFINE now == [lines |-> Lines(req[r].cart, items)]
<1>1. /\ now \in LoadedRow /\ now # None /\ req[r].at = "reading" /\ RowsTypeOK
      /\ shown \in [Users -> AnswerRow \cup {None}] /\ loaded \in [Requests -> LoadedRow \cup {None}]
  <2>1. Lines(req[r].cart, items) \in SUBSET LineRow
    BY LinesTyped DEF IInv, RowsTypeOK
  <2>2. now \in LoadedRow
    BY <2>1 DEF LoadedRow
  <2> QED BY <2>2, CartAssumption DEF Load, Read, IInv, SessionInv, SessionTyped
<1>2. now.lines = Lines(req[r].cart, items)
  OBVIOUS
<1> HIDE DEF now
<1>3. CASE Load(r)
  <2>1. /\ loaded' = [loaded EXCEPT ![r] = now] /\ OthersWait(r) /\ req' = req
        /\ items' = items /\ shown' = shown /\ UNCHANGED <<call, overlap>>
    BY <1>3 DEF Load, now, rows, seen, OthersWait
  <2> QED BY <1>1, <1>2, <2>1, SessionStep
<1>4. ASSUME NEW ids, NEW amounts, loaded' = [loaded EXCEPT ![r] = IF InApp(r) /\ @ = None THEN now ELSE @],
             req' = [req EXCEPT ![r].at = "writing", ![r].held = Held(ids, amounts)],
             UNCHANGED <<rows, price, failures, call, overlap, seen>>
      PROVE  SessionInv'
  <2> DEFINE x == IF InApp(r) /\ loaded[r] = None THEN now ELSE loaded[r]
  <2>1. loaded' = [loaded EXCEPT ![r] = x] /\ x \in LoadedRow \cup {None}
    BY <1>1, <1>4
  <2>2. OthersWait(r) /\ req'[r].at = "writing" /\ req'[r].cart = req[r].cart
    <3>1. req \in [Requests -> Request]
      BY <1>1 DEF RowsTypeOK
    <3> QED BY <1>4, <3>1 DEF OthersWait, Request
  <2>3. items' = items /\ shown' = shown /\ UNCHANGED <<call, overlap>>
    BY <1>4 DEF rows, seen
  <2>4. overlap = 1 => (x # None => x.lines = Lines(req[r].cart, items))
    BY <1>2 DEF SessionInv, CurrentSession
  <2>5. InApp(r) => x # None
    BY <1>1
  <2> HIDE DEF x
  <2> QED BY <1>1, <2>1, <2>2, <2>3, <2>4, <2>5, SessionStep
<1>5. ASSUME NEW ids, Hold(r, ids, Snapshot) PROVE SessionInv'
  <2> DEFINE amounts == [i \in ids |-> Snapshot(i)]
  <2>1. Held(ids, amounts) = {[id |-> i, row |-> [items[i] EXCEPT !.price = Snapshot(i)]] : i \in ids}
    BY DEF Held
  <2> HIDE DEF amounts
  <2>2. req' = [req EXCEPT ![r].at = "writing", ![r].held = Held(ids, amounts)]
    BY <1>5, <2>1 DEF Hold
  <2>3. /\ loaded' = [loaded EXCEPT ![r] = IF InApp(r) /\ @ = None THEN now ELSE @]
        /\ UNCHANGED <<rows, price, failures, call, overlap, seen>>
    BY <1>5 DEF Hold, now
  <2> QED BY <1>4, <2>2, <2>3
<1>6. CASE Refuse(r)
  <2>1. /\ Finish(r, "refused", FALSE) /\ "refused" \in Ats \ {"reading", "writing"} /\ FALSE \in BOOLEAN
        /\ items' = items /\ shown' = shown /\ UNCHANGED <<call, overlap>>
    BY <1>6 DEF Refuse, Ats, rows, seen
  <2> QED BY <1>1, <2>1, SessionOver
<1>7. CASE ReadForAdd(r)
  <2> DEFINE same == {i \in ItemsOf(req[r].cart, items) : items[i].product = call[r].product}
  <2>1. IF same = {} THEN Hold(r, {}, Snapshot) ELSE \E i \in same : Hold(r, {i}, Snapshot)
    BY <1>7 DEF ReadForAdd
  <2> QED BY <1>5, <2>1
<1>8. CASE ReadItem(r)
  <2>1. PICK i \in Ids : IF i \in ItemsOf(req[r].cart, items) THEN Hold(r, {i}, Snapshot) ELSE Refuse(r)
    BY <1>8 DEF ReadItem
  <2> QED BY <1>5, <1>6, <2>1
<1>9. CASE ReadForClear(r)
  BY <1>5, <1>9 DEF ReadForClear
<1>10. CASE ReadForCheckout(r)
  <2> DEFINE own == ItemsOf(req[r].cart, items)
             amounts == [i \in own |-> Charged(i)]
  <2>1. CASE Hold(r, own, Charged)
    <3>1. Held(own, amounts) = {[id |-> i, row |-> [items[i] EXCEPT !.price = Charged(i)]] : i \in own}
      BY DEF Held
    <3> HIDE DEF amounts, own
    <3>2. req' = [req EXCEPT ![r].at = "writing", ![r].held = Held(own, amounts)]
      BY <2>1, <3>1 DEF Hold
    <3>3. /\ loaded' = [loaded EXCEPT ![r] = IF InApp(r) /\ @ = None THEN now ELSE @]
          /\ UNCHANGED <<rows, price, failures, call, overlap, seen>>
      BY <2>1 DEF Hold, now
    <3> QED BY <1>4, <3>2, <3>3
  <2> QED BY <1>6, <1>10, <2>1 DEF ReadForCheckout
<1> QED BY <1>3, <1>7, <1>8, <1>9, <1>10 DEF Read

LEMMA SessionKept ==
    ASSUME IInv, PatientInv, SessionInv, [Next]_vars
    PROVE  SessionInv'
<1>1. IInv'
  BY NextKept
<1>2. ASSUME UNCHANGED <<req, items, call, overlap, shown, loaded>> PROVE SessionInv'
  BY <1>2, SMTT(30) DEF SessionInv, SessionTyped, Session, CurrentSession, InApp
<1>3. CASE UNCHANGED vars
  BY <1>2, <1>3 DEF vars, rows, seen
<1>4. ASSUME NEW p \in Products, Reprice(p) PROVE SessionInv'
  BY <1>2, <1>4 DEF Reprice, rows, seen
<1>5. shown \in [Users -> AnswerRow \cup {None}]
  BY DEF SessionInv, SessionTyped
<1>6. ASSUME NEW r \in Requests, Receive(r) \/ Proceed(r) \/ Fail(r) PROVE SessionInv'
  <2>1. OthersWait(r) /\ UNCHANGED <<call, overlap>>
    BY <1>6, OneMoves
  <2>2. ASSUME req[r].at \notin {"reading", "writing"} PROVE loaded[r] = None
    BY <2>2 DEF SessionInv, Session
  <2>3. ASSUME NEW at, NEW x, \/ req' = [req EXCEPT ![r].at = at]
                              \/ req' = [req EXCEPT ![r].at = at, ![r].cart = x]
                              \/ req' = [req EXCEPT ![r].at = at, ![r].quoted = x]
        PROVE  req'[r].at = at
    <3>1. req \in [Requests -> Request]
      BY DEF IInv, RowsTypeOK
    <3> QED BY <2>3, <3>1 DEF Request
  <2>4. ASSUME NEW at \in {"refused", "failed", "answered"}, NEW wrote \in BOOLEAN, Finish(r, at, wrote),
               items' = items, shown' \in [Users -> AnswerRow \cup {None}]
        PROVE  SessionInv'
    <3>1. at \in Ats \ {"reading", "writing"}
      BY DEF Ats
    <3> QED BY <2>1, <2>4, <3>1, SessionOver
  <2>5. CASE Receive(r)
    <3>1. items' = items /\ shown' = shown /\ req[r].at = "expected"
      BY <2>5 DEF Receive, rows, seen
    <3>2. CASE Finish(r, "refused", FALSE)
      BY <1>5, <2>4, <3>1, <3>2
    <3>3. CASE ~Finish(r, "refused", FALSE)
      <4>1. req'[r].at = "looking" /\ loaded' = loaded
        BY <2>3, <2>5, <3>3 DEF Receive
      <4> QED BY <2>1, <2>2, <3>1, <4>1, SessionOn
    <3> QED BY <3>2, <3>3
  <2>6. CASE Look(r)
    <3>1. req[r].at = "looking" /\ loaded' = loaded /\ items' = items /\ shown' = shown
      BY <2>6 DEF Look, rows, seen
    <3>2. req'[r].at \in {"creating", "showing", "reading"}
      BY <2>3, <2>6 DEF Look, Opened
    <3> QED BY <2>1, <2>2, <3>1, <3>2, SessionOn
  <2>7. CASE Create(r)
    <3>1. req[r].at = "creating" /\ loaded' = loaded /\ items' = items /\ shown' = shown
      BY <2>7 DEF Create, seen
    <3>2. req'[r].at \in {"showing", "reading"}
      BY <2>3, <2>7 DEF Create, Opened
    <3> QED BY <2>1, <2>2, <3>1, <3>2, SessionOn
  <2>8. CASE Load(r) \/ Read(r)
    BY <2>8, SessionRead
  <2>9. CASE Write(r)
    BY <1>1, <2>9, SessionWrite
  <2>10. CASE Show(r)
    <3>1. Finish(r, "answered", Op(r) # "view") /\ (Op(r) # "view") \in BOOLEAN /\ items' = items
      BY <2>10 DEF Show, Answer, rows
    <3>2. shown' \in [Users -> AnswerRow \cup {None}]
      <4>1. Lines(req[r].cart, items) \in SUBSET LineRow
        BY LinesTyped DEF IInv, RowsTypeOK
      <4>2. Shows(Lines(req[r].cart, items), {}) \in AnswerRow
        BY <4>1 DEF Shows, AnswerRow
      <4> QED BY <2>10, <4>2, AnswerTyped DEF Show
    <3> QED BY <2>4, <3>1, <3>2
  <2>11. CASE Commit(r)
    BY <1>1, <2>11, SessionCommit
  <2>12. CASE RowIsGone(r)
    <3>1. Finish(r, "refused", FALSE) /\ items' = items /\ shown' = shown
      BY <2>12 DEF RowIsGone, Refuse, rows, seen
    <3> QED BY <1>5, <2>4, <3>1
  <2>13. CASE PlaceOrder(r)
    <3>1. Finish(r, "answered", TRUE) /\ items' = items /\ shown' = [shown EXCEPT ![UserOf(r)] = None]
      BY <2>13 DEF PlaceOrder
    <3> QED BY <1>5, <2>4, <3>1
  <2>14. CASE Fail(r)
    <3>1. /\ Finish(r, "failed", req[r].wrote) /\ items' = items /\ shown' = [shown EXCEPT ![UserOf(r)] = None]
          /\ req[r].wrote \in BOOLEAN
      BY <2>14 DEF Fail, rows, IInv, RowsTypeOK, Request
    <3> QED BY <1>5, <2>4, <3>1
  <2> QED BY <1>6, <2>5, <2>6, <2>7, <2>8, <2>9, <2>10, <2>11, <2>12, <2>13, <2>14 DEF Proceed
<1> QED BY <1>3, <1>4, <1>6 DEF Next

LEMMA SessionInit == Init => SessionInv
BY DEF Init, SessionInv, SessionTyped, Session, CurrentSession, Idle

\* A user who waits for each answer has one active cart, with one item of a
\* product, and what the last answer showed is what is in it, but for the items
\* an answer of the app is behind with.
THEOREM OneCartAtATime == Spec => [](PatientInv /\ SessionInv)
<1>1. IInv /\ PatientInv /\ SessionInv /\ [Next]_vars => PatientInv' /\ SessionInv'
  BY PatientKept, SessionKept
<1> QED BY <1>1, CartsInv, PatientInit, SessionInit, PTL DEF Spec

\* Whatever overlaps: the ids stay within the sequences, an item is never left
\* without its cart, a request keeps to one cart, and what sessions and answers
\* list are lines.
THEOREM CartsTyped == Spec => []TypeOK
<1>1. IInv /\ SessionInv => TypeOK
  BY DEF IInv, SessionInv, SessionTyped, TypeOK
<1> QED BY <1>1, CartsInv, OneCartAtATime, PTL
-----------------------------------------------------------------------------
(* What is ordered.                                                        *)

LEMMA LinesHeld ==
    ASSUME IInv, PatientInv, SessionInv, overlap = 1, NEW r \in Requests, req[r].at = "writing", Op(r) = "checkout",
           shown[UserOf(r)] # None
    PROVE  AsAnswered({Line(h.id, h.row) : h \in req[r].held}, shown[UserOf(r)])
<1>0. PICK own : own = UserOf(r)
  OBVIOUS
<1> DEFINE cart == req[r].cart
           order == {Line(h.id, h.row) : h \in req[r].held}
           lines == Lines(cart, items)
           answer == shown[own]
<1>1. "writing" \in Busy /\ "writing" \in WithCart /\ Waits(r) /\ ~req[r].wrote
  <2>1. "writing" \in Busy /\ "writing" \in WithCart
    BY DEF Busy, WithCart
  <2> QED BY <2>1, OneAtWork DEF IInv, RequestInv, Course
<1>2. own \in Users /\ CurrentRows(r) /\ ActiveCarts(own, carts) \subseteq {cart}
  <2>1. /\ own \in Users
        /\ IF carts[cart] = NoCart THEN ActiveCarts(own, carts) = {} ELSE ActiveCarts(own, carts) = {cart}
    BY <1>0, <1>1, TheActiveCart
  <2> QED BY <2>1 DEF PatientInv
<1>3. Matches(lines, answer)
  <2>1. \A s \in Requests : UserOf(s) = own => ~Unseen(s)
    BY <1>0, <1>1 DEF Unseen, Waits
  <2>2. StillShown(own)
    BY <1>2 DEF PatientInv
  <2> QED BY <1>0, <1>2, <2>1, <2>2 DEF StillShown
<1>4. ItemsOf(cart, items) = HeldIds(r)
  BY <1>2 DEF CurrentRows
<1>5. ASSUME NEW h \in req[r].held
      PROVE  /\ [Line(h.id, h.row) EXCEPT !.price = 0] = [Line(h.id, items[h.id]) EXCEPT !.price = 0]
             /\ items[h.id].price > 0 => Line(h.id, h.row) = Line(h.id, items[h.id])
  <2>1. /\ items[h.id] # NoItem /\ h.row = [items[h.id] EXCEPT !.price = h.row.price]
        /\ items[h.id].price > 0 => h.row.price = items[h.id].price
    BY <1>2 DEF CurrentRows
  <2>2. items[h.id] \in ItemRows
    <3>1. h.id \in Ids /\ items \in [Ids -> ItemRows \cup {NoItem}]
      BY DEF IInv, RowsTypeOK, Request
    <3> QED BY <2>1, <3>1
  <2>3. h.row.product = items[h.id].product /\ h.row.qty = items[h.id].qty
    BY <2>1, <2>2 DEF ItemRows
  <2> QED BY <2>1, <2>3 DEF Line
<1> HIDE DEF cart, order, lines, answer
<1>6. ASSUME NEW l \in order
      PROVE  \E m \in lines : l.id = m.id /\ [l EXCEPT !.price = 0] = [m EXCEPT !.price = 0]
  <2>1. PICK h \in req[r].held : l = Line(h.id, h.row)
    BY DEF order
  <2>2. h.id \in ItemsOf(cart, items)
    BY <1>4 DEF HeldIds
  <2>3. Line(h.id, items[h.id]) \in lines
    BY <2>2 DEF Lines, lines
  <2>4. l.id = h.id /\ Line(h.id, items[h.id]).id = h.id
    BY <2>1 DEF Line
  <2> QED BY <1>5, <2>1, <2>3, <2>4
<1>7. ASSUME NEW m \in lines
      PROVE  /\ \E l \in order : l.id = m.id /\ [l EXCEPT !.price = 0] = [m EXCEPT !.price = 0]
             /\ m.price > 0 => m \in order
  <2>1. PICK i \in ItemsOf(cart, items) : m = Line(i, items[i])
    BY DEF Lines, lines
  <2>2. PICK h \in req[r].held : i = h.id
    BY <1>4 DEF HeldIds
  <2>3. Line(h.id, h.row) \in order
    BY DEF order
  <2>4. m.price = items[i].price /\ m.id = h.id /\ Line(h.id, h.row).id = h.id
    BY <2>1, <2>2 DEF Line
  <2> QED BY <1>5, <2>1, <2>2, <2>3, <2>4
<1>8. SameLines(But(order, answer.behind), But(lines, answer.behind))
  <2> DEFINE Unpriced(l) == [l EXCEPT !.price = 0]
             most == But(order, answer.behind)
             left == But(lines, answer.behind)
  <2>1. \A l \in most : \E m \in left : Unpriced(l) = Unpriced(m)
    BY <1>6 DEF But
  <2>2. \A m \in left : (\E l \in most : Unpriced(l) = Unpriced(m)) /\ (m.price > 0 => m \in most)
    BY <1>7 DEF But
  <2> HIDE DEF Unpriced, most, left
  <2>3. {Unpriced(l) : l \in most} = {Unpriced(l) : l \in left}
    BY <2>1, <2>2
  <2> QED BY <2>2, <2>3 DEF SameLines, Unpriced, most, left
<1>9. IdsOf(order) = IdsOf(lines)
  <2>1. \A l \in order : \E m \in lines : l.id = m.id
    BY <1>6
  <2>2. \A m \in lines : \E l \in order : l.id = m.id
    BY <1>7
  <2> QED BY <2>1, <2>2 DEF IdsOf
<1>10. AsAnswered(order, answer)
  BY <1>3, <1>8, <1>9 DEF AsAnswered, Matches
<1> QED BY <1>0, <1>10 DEF order, answer

LEMMA OrdersSame ==
    ASSUME IInv, PatientInv, SessionInv, [Next]_vars, NEW q \in Requests, orders'[q] # orders[q], overlap = 1,
           shown[UserOf(q)] # None
    PROVE  AsAnswered(orders'[q], shown[UserOf(q)])
<1>1. PICK r \in Requests : PlaceOrder(r)
  <2>1. orders' # orders
    OBVIOUS
  <2>2. ~UNCHANGED vars
    BY <2>1 DEF vars, seen
  <2>3. ASSUME NEW p \in Products PROVE ~Reprice(p)
    BY <2>1, SMTT(30) DEF Reprice, seen
  <2>4. ASSUME NEW r \in Requests, Receive(r) \/ Proceed(r) \/ Fail(r) PROVE PlaceOrder(r)
    BY <2>1, <2>4 DEF Receive, Proceed, Fail, Look, Create, Load, Read, ReadForAdd, ReadItem, ReadForClear,
         ReadForCheckout, Hold, Refuse, Write, Show, Commit, RowIsGone, Answer, seen
  <2> QED BY <2>2, <2>3, <2>4 DEF Next
<1>2. /\ orders' = [orders EXCEPT ![r] = {Line(h.id, h.row) : h \in req[r].held}]
      /\ req[r].at = "writing" /\ Op(r) = "checkout"
  BY <1>1 DEF PlaceOrder
<1>3. orders \in [Requests -> SUBSET LineRow]
  BY DEF IInv, RowsTypeOK
<1>4. q = r /\ orders'[r] = {Line(h.id, h.row) : h \in req[r].held}
  BY <1>2, <1>3
<1> QED BY <1>2, <1>4, LinesHeld

\* A user who waits for each answer is charged for what the last answer showed,
\* but for the items an answer of the app is behind with, in whichever program
\* and whatever staff do to the prices in between.
THEOREM OrdersAreAsShown == Spec => OrderedAsShown
<1>1. ASSUME IInv, PatientInv, SessionInv, [Next]_vars
      PROVE  [\A r \in Requests :
                orders'[r] # orders[r] /\ overlap = 1 /\ shown[UserOf(r)] # None
                => AsAnswered(orders'[r], shown[UserOf(r)])]_vars
  BY <1>1, OrdersSame
<1> QED BY <1>1, CartsInv, OneCartAtATime, PTL DEF Spec, OrderedAsShown
-----------------------------------------------------------------------------
(* The cart as a basket.                                                   *)

QuantityIn(c, p, table) ==
    SumFunction([i \in ItemsOf(c, table) |-> IF table[i].product = p THEN table[i].qty ELSE 0])
Contents(c, table) == [p \in Products |-> QuantityIn(c, p, table)]
Nothing == [p \in Products |-> 0]

OneIn(c, table) ==
    \A i, j \in ItemsOf(c, table) : table[i].product = table[j].product => i = j

\* With one item of a product, its quantity is that item's.
LEMMA QuantityOf ==
    ASSUME NEW table \in [Ids -> ItemRows \cup {NoItem}], NEW c, NEW p, OneIn(c, table)
    PROVE  /\ QuantityIn(c, p, table) \in Nat
           /\ \A i \in ItemsOf(c, table) : table[i].product = p => QuantityIn(c, p, table) = table[i].qty
           /\ (\A i \in ItemsOf(c, table) : table[i].product # p) => QuantityIn(c, p, table) = 0
<1> DEFINE S == ItemsOf(c, table)
           f == [i \in S |-> IF table[i].product = p THEN table[i].qty ELSE 0]
<1>1. IsFiniteSet(S) /\ \A i \in S : table[i] \in ItemRows
  <2>1. S \subseteq Ids /\ \A i \in S : table[i] # NoItem
    BY DEF ItemsOf
  <2> QED BY <2>1, Bounds, FS_Subset
<1>2. QuantityIn(c, p, table) = SumFunctionOnSet(f, S)
  <2>1. DOMAIN f = S
    OBVIOUS
  <2> QED BY <2>1, Zenon DEF QuantityIn, SumFunction
<1>3. \A i \in S : f[i] = (IF table[i].product = p THEN table[i].qty ELSE 0) /\ f[i] \in Nat
  BY <1>1 DEF ItemRows
<1>4. ASSUME NEW i \in S, table[i].product = p PROVE \A j \in S \ {i} : table[j].product # p
  BY <1>4 DEF OneIn
<1> HIDE DEF S, f
<1>5. SumFunctionOnSet(f, S) \in Nat
  BY <1>1, <1>3, SumType
<1>6. ASSUME NEW i \in S, table[i].product = p PROVE SumFunctionOnSet(f, S) = table[i].qty
  <2>1. f[i] = table[i].qty /\ f[i] \in Int /\ \A j \in S \ {i} : f[j] = 0
    BY <1>3, <1>4, <1>6
  <2>2. SumFunctionOnSet(f, S) = f[i]
    BY <1>1, <2>1, SumOne
  <2> QED BY <2>1, <2>2
<1>7. ASSUME \A i \in S : table[i].product # p PROVE SumFunctionOnSet(f, S) = 0
  <2>1. \A i \in S : f[i] = 0
    BY <1>3, <1>7
  <2> QED BY <1>1, <2>1, SumZero
<1> QED BY <1>2, <1>5, <1>6, <1>7 DEF S

\* A product whose items in the cart stay as they are.
LEMMA QuantitySame ==
    ASSUME NEW before \in [Ids -> ItemRows \cup {NoItem}], NEW after \in [Ids -> ItemRows \cup {NoItem}],
           NEW c, NEW p, OneIn(c, before), OneIn(c, after),
           \A i \in Ids : \/ i \in ItemsOf(c, before) /\ before[i].product = p
                          \/ i \in ItemsOf(c, after) /\ after[i].product = p
                          => after[i] = before[i]
    PROVE  QuantityIn(c, p, after) = QuantityIn(c, p, before)
<1>1. CASE \E i \in ItemsOf(c, before) : before[i].product = p
  <2>1. PICK i \in ItemsOf(c, before) : before[i].product = p
    BY <1>1
  <2>2. i \in Ids /\ after[i] = before[i]
    BY <2>1 DEF ItemsOf
  <2>3. i \in ItemsOf(c, after) /\ after[i].product = p
    BY <2>1, <2>2 DEF ItemsOf
  <2>4. QuantityIn(c, p, before) = before[i].qty
    BY <2>1, QuantityOf
  <2>5. QuantityIn(c, p, after) = after[i].qty
    BY <2>3, QuantityOf
  <2> QED BY <2>2, <2>4, <2>5
<1>2. CASE \A i \in ItemsOf(c, before) : before[i].product # p
  <2>1. ASSUME NEW i \in ItemsOf(c, after), after[i].product = p PROVE FALSE
    <3>1. i \in Ids /\ after[i] = before[i]
      BY <2>1 DEF ItemsOf
    <3>2. i \in ItemsOf(c, before)
      BY <3>1 DEF ItemsOf
    <3> QED BY <1>2, <2>1, <3>1, <3>2
  <2>2. QuantityIn(c, p, after) = 0
    BY <2>1, QuantityOf
  <2>3. QuantityIn(c, p, before) = 0
    BY <1>2, QuantityOf
  <2> QED BY <2>2, <2>3
<1> QED BY <1>1, <1>2

\* An empty cart.
LEMMA NothingIn ==
    ASSUME NEW table \in [Ids -> ItemRows \cup {NoItem}], NEW c, ItemsOf(c, table) = {}
    PROVE  Contents(c, table) = Nothing
<1>1. OneIn(c, table)
  BY DEF OneIn
<1>2. \A p \in Products : QuantityIn(c, p, table) = 0
  BY <1>1, QuantityOf
<1> QED BY <1>2 DEF Contents, Nothing

LEMMA ContentsType ==
    ASSUME NEW table \in [Ids -> ItemRows \cup {NoItem}], NEW c, OneIn(c, table)
    PROVE  Contents(c, table) \in [Products -> Nat]
BY QuantityOf DEF Contents

\* What a request does to the basket.
Effect(k, p, n, before, after) ==
    \/ k = "add" /\ n >= Moq[p] /\ after = [before EXCEPT ![p] = before[p] + n]
    \/ k = "update" /\ before[p] > 0 /\ after = [before EXCEPT ![p] = n]
    \/ k = "remove" /\ before[p] > 0 /\ after = [before EXCEPT ![p] = 0]
    \/ k = "clear" /\ after = Nothing

\* One product's quantity changes.
LEMMA ContentsChange ==
    ASSUME NEW before \in [Ids -> ItemRows \cup {NoItem}], NEW after \in [Ids -> ItemRows \cup {NoItem}],
           NEW c, NEW p, OneIn(c, before), OneIn(c, after),
           \A i \in Ids : \/ i \in ItemsOf(c, before) /\ before[i].product # p
                          \/ i \in ItemsOf(c, after) /\ after[i].product # p
                          => after[i] = before[i]
    PROVE  Contents(c, after) = [Contents(c, before) EXCEPT ![p] = QuantityIn(c, p, after)]
<1>1. ASSUME NEW q \in Products, q # p PROVE QuantityIn(c, q, after) = QuantityIn(c, q, before)
  BY <1>1, QuantitySame
<1> QED BY <1>1 DEF Contents

\* What a request asks is one of the workloads, and an addition that is at work
\* has passed the minimum.
Asked ==
    /\ call \in Workloads
    /\ \A r \in Requests :
         Op(r) = "add" /\ req[r].at \notin {"expected", "refused"} => call[r].qty >= Moq[call[r].product]

LEMMA WriteEffect ==
    ASSUME IInv, RowsTypeOK', PatientInv, SessionInv, Asked, overlap = 1, NEW r \in Requests, req[r].at = "writing",
           WriteItems(r), Op(r) # "checkout", NEW cart, cart = req[r].cart
    PROVE  \E p \in Products :
             Effect(Op(r), p, call[r].qty, Contents(cart, items), Contents(cart, items'))
<1>1. /\ RowsTypeOK /\ call[r] \in Call /\ req[r] \in Request /\ cart \in Ids
      /\ OneItem /\ CurrentRows(r) /\ "writing" \in WithCart
  BY DEF IInv, RowsTypeOK, PatientInv, WithCart
<1>2. items \in [Ids -> ItemRows \cup {NoItem}] /\ items' \in [Ids -> ItemRows \cup {NoItem}]
  BY <1>1 DEF RowsTypeOK
<1>3. OneIn(cart, items) /\ OneIn(cart, items')
  <2>1. OneItem'
    BY WritesOneItem
  <2>2. OneIn(cart, items)
    BY <1>1 DEF OneItem, OneIn, ItemsOf
  <2>3. OneIn(cart, items')
    BY <2>1 DEF OneItem, OneIn, ItemsOf
  <2> QED BY <2>2, <2>3
<1> DEFINE has(p) == QuantityIn(cart, p, items)
           becomes(p) == QuantityIn(cart, p, items')
<1>4. \A p \in Products : Contents(cart, items)[p] = has(p)
  BY DEF Contents
<1>5. CASE AddsRow(r)
  <2> DEFINE n == lastItem + 1
             p == call[r].product
             row == ItemRow(req[r].cart, call[r].product, call[r].qty, req[r].quoted)
  <2>1. n \in Ids /\ ~(n <= lastItem)
    BY <1>1, <1>5, Bounds DEF Ids, AddsRow, RowsTypeOK
  <2>2. row.cart = cart /\ row.product = p /\ row.qty = call[r].qty /\ row # NoItem
    BY <1>1 DEF ItemRow, NoItem, Ids
  <2>3. items' = [items EXCEPT ![n] = row] /\ Op(r) = "add" /\ req[r].held = {}
    BY <1>5 DEF AddsRow
  <2>4. p \in Products /\ call[r].qty \in Nat
    BY <1>1 DEF Call
  <2> HIDE DEF n, row, p
  <2>5. items[n] = NoItem /\ items'[n] = row /\ \A i \in Ids : i # n => items'[i] = items[i]
    BY <1>1, <1>2, <2>1, <2>3 DEF RowsTypeOK
  <2>6. has(p) = 0
    <3>1. \A i \in ItemsOf(cart, items) : items[i].product # p
      BY <1>1, <2>3 DEF CurrentRows, p
    <3> QED BY <1>2, <1>3, <3>1, QuantityOf
  <2>7. becomes(p) = call[r].qty
    <3>1. n \in ItemsOf(cart, items')
      BY <2>1, <2>2, <2>5 DEF ItemsOf
    <3> QED BY <1>2, <1>3, <2>2, <2>5, <3>1, QuantityOf
  <2>8. Contents(cart, items') = [Contents(cart, items) EXCEPT ![p] = becomes(p)]
    <3>1. \A i \in Ids : \/ i \in ItemsOf(cart, items) /\ items[i].product # p
                         \/ i \in ItemsOf(cart, items') /\ items'[i].product # p
                         => items'[i] = items[i]
      BY <2>2, <2>5 DEF ItemsOf
    <3> QED BY <1>2, <1>3, <3>1, ContentsChange
  <2>9. call[r].qty >= Moq[p]
    BY <2>3 DEF Asked, p
  <2>10. becomes(p) = Contents(cart, items)[p] + call[r].qty
    BY <1>4, <2>4, <2>6, <2>7
  <2> QED BY <2>3, <2>4, <2>8, <2>9, <2>10 DEF Effect
<1>6. ASSUME NEW h \in req[r].held
      PROVE  /\ h.id \in ItemsOf(cart, items) /\ items[h.id].product = h.row.product
             /\ h.row \in ItemRows /\ h.row.cart = cart /\ items[h.id].qty = h.row.qty
             /\ has(h.row.product) = h.row.qty /\ h.row.qty > 0 /\ h.row.qty \in Nat
  <2>1. h.id \in Ids /\ h.row \in ItemRows /\ h.row.cart = cart
    BY <1>1 DEF Request, RowsTypeOK
  <2>2. items[h.id] # NoItem /\ h.row = [items[h.id] EXCEPT !.price = h.row.price]
    BY <1>1 DEF CurrentRows
  <2>3. items[h.id] \in ItemRows
    BY <1>2, <2>1, <2>2
  <2>4. items[h.id].cart = h.row.cart /\ items[h.id].product = h.row.product /\ items[h.id].qty = h.row.qty
    BY <2>2, <2>3 DEF ItemRows
  <2>5. h.id \in ItemsOf(cart, items)
    BY <2>1, <2>2, <2>4 DEF ItemsOf
  <2>6. has(h.row.product) = h.row.qty
    BY <1>2, <1>3, <2>4, <2>5, QuantityOf
  <2>7. h.row.qty > 0 /\ h.row.qty \in Nat
    BY <2>1 DEF ItemRows
  <2> QED BY <2>1, <2>4, <2>5, <2>6, <2>7
<1>7. ASSUME NEW h \in req[r].held, NEW q \in Nat \ {0}, ChangesHeld(r, h, q)
      PROVE  \E p \in Products :
               Effect(Op(r), p, call[r].qty, Contents(cart, items), Contents(cart, items'))
  <2> DEFINE p == h.row.product
             row == [h.row EXCEPT !.qty = q]
  <2>1. row.cart = cart /\ row.product = p /\ row.qty = q /\ row # NoItem /\ p \in Products
    BY <1>6 DEF ItemRows, NoItem
  <2>2. h.id \in Ids /\ items[h.id] # NoItem
    BY <1>6 DEF ItemsOf
  <2>3. items' = [i \in Ids |-> IF i = h.id /\ items[i] # NoItem THEN row ELSE items[i]]
    BY <1>7 DEF ChangesHeld
  <2> HIDE DEF row
  <2>4. items'[h.id] = row /\ \A i \in Ids : i # h.id => items'[i] = items[i]
    BY <2>2, <2>3
  <2>5. becomes(p) = q
    <3>1. h.id \in ItemsOf(cart, items')
      BY <2>1, <2>2, <2>4 DEF ItemsOf
    <3> QED BY <1>2, <1>3, <2>1, <2>4, <3>1, QuantityOf
  <2>6. Contents(cart, items') = [Contents(cart, items) EXCEPT ![p] = q]
    <3>1. \A i \in Ids : \/ i \in ItemsOf(cart, items) /\ items[i].product # p
                         \/ i \in ItemsOf(cart, items') /\ items'[i].product # p
                         => items'[i] = items[i]
      BY <1>6, <2>1, <2>4
    <3> QED BY <1>2, <1>3, <2>5, <3>1, ContentsChange
  <2>7. Contents(cart, items)[p] = h.row.qty /\ h.row.qty > 0
    BY <1>4, <1>6, <2>1
  <2>8. CASE Op(r) = "add"
    <3>1. q = h.row.qty + call[r].qty /\ p = call[r].product
      BY <1>7, <2>8 DEF ChangesHeld, IInv, RequestInv, RowsAtHand
    <3>2. call[r].qty >= Moq[p]
      BY <2>8, <3>1 DEF Asked
    <3> QED BY <2>1, <2>6, <2>7, <2>8, <3>1, <3>2 DEF Effect
  <2>9. CASE Op(r) = "update"
    <3>1. q = call[r].qty
      BY <1>7, <2>9 DEF ChangesHeld
    <3> QED BY <2>1, <2>6, <2>7, <2>9, <3>1 DEF Effect
  <2> QED BY <1>7, <2>8, <2>9 DEF ChangesHeld
<1>8. ASSUME NEW cleared, DeletesRows(r, cleared)
      PROVE  \E p \in Products :
               Effect(Op(r), p, call[r].qty, Contents(cart, items), Contents(cart, items'))
  <2>1. /\ items' = [i \in Ids |-> IF i \in cleared THEN NoItem ELSE items[i]]
        /\ Op(r) \in {"update", "remove", "clear"}
    <3>1. Op(r) # "view" /\ Op(r) \in Ops /\ Op(r) # "add"
      BY <1>1, <1>8 DEF DeletesRows, NothingToWrite, IInv, RequestInv, Course, Op, Call
    <3> QED BY <1>8, <3>1 DEF DeletesRows, Ops
  <2>4. CASE Op(r) = "update"
    <3>1. cleared = {} /\ NothingToWrite(r)
      BY <1>8, <2>4 DEF DeletesRows
    <3>2. items' = items
      BY <1>2, <2>1, <3>1
    <3>3. PICK h \in req[r].held : TRUE
      BY <2>4 DEF IInv, RequestInv, Course
    <3>4. call[r].qty = h.row.qty
      BY <3>1, QuantityIsThere
    <3>5. h.row.product \in Products /\ Contents(cart, items)[h.row.product] = call[r].qty /\ h.row.qty > 0
      BY <1>4, <1>6, <3>4 DEF ItemRows
    <3>6. Contents(cart, items') = [Contents(cart, items) EXCEPT ![h.row.product] = call[r].qty]
      BY <3>2, <3>5 DEF Contents
    <3> QED BY <2>4, <3>4, <3>5, <3>6 DEF Effect
  <2>2. CASE Op(r) = "remove"
    <3>1. req[r].held # {} /\ cleared = HeldIds(r)
      BY <1>8, <2>2 DEF DeletesRows, IInv, RequestInv, Course
    <3>2. PICK h \in req[r].held : TRUE
      BY <3>1
    <3>3. \A g \in req[r].held : g = h
      BY <2>2 DEF IInv, RequestInv, RowsAtHand
    <3>4. cleared = {h.id}
      BY <3>1, <3>3 DEF HeldIds
    <3> DEFINE p == h.row.product
    <3>5. h.id \in Ids /\ p \in Products
      BY <1>6 DEF ItemsOf, ItemRows
    <3>6. items'[h.id] = NoItem /\ \A i \in Ids : i # h.id => items'[i] = items[i]
      BY <2>1, <3>4, <3>5
    <3>7. ASSUME NEW i \in ItemsOf(cart, items') PROVE items'[i].product # p
      <4>1. i # h.id /\ i \in ItemsOf(cart, items) /\ items'[i] = items[i]
        BY <3>6 DEF ItemsOf
      <4> QED BY <1>3, <1>6, <4>1 DEF OneIn
    <3>8. becomes(p) = 0
      BY <1>2, <1>3, <3>7, QuantityOf
    <3>9. Contents(cart, items') = [Contents(cart, items) EXCEPT ![p] = 0]
      <4>1. \A i \in Ids : \/ i \in ItemsOf(cart, items) /\ items[i].product # p
                           \/ i \in ItemsOf(cart, items') /\ items'[i].product # p
                           => items'[i] = items[i]
        BY <1>6, <3>6 DEF ItemsOf
      <4> QED BY <1>2, <1>3, <3>8, <4>1, ContentsChange
    <3>10. Contents(cart, items)[p] > 0
      BY <1>4, <1>6, <3>5
    <3> QED BY <2>2, <3>5, <3>9, <3>10 DEF Effect
  <2>3. CASE Op(r) = "clear"
    <3>1. cleared = ItemsOf(cart, items)
      BY <1>1, <1>8, <2>3 DEF DeletesRows, CurrentRows
    <3>2. ItemsOf(cart, items') = {}
      BY <2>1, <3>1 DEF ItemsOf
    <3>3. Contents(cart, items') = Nothing
      BY <1>2, <3>2, NothingIn
    <3>4. call[r].product \in Products
      BY <1>1 DEF Call
    <3> QED BY <2>3, <3>3, <3>4 DEF Effect
  <2> QED BY <2>1, <2>2, <2>3, <2>4
<1> QED BY <1>5, <1>7, <1>8, WriteForms

BasketIn(u, cartTable, itemTable) ==
    LET active == ActiveCarts(u, cartTable) IN
    [p \in Products |-> IF active = {} THEN 0 ELSE QuantityIn(Max(active), p, itemTable)]

LEMMA BasketIsIn ==
    ASSUME NEW u
    PROVE  BasketOf(u) = BasketIn(u, carts, items) /\ BasketOf(u)' = BasketIn(u, carts', items')
BY DEF BasketOf, BasketIn, Quantity, QuantityIn

LEMMA BasketOfOne ==
    ASSUME NEW u, NEW cartTable, NEW itemTable
    PROVE  /\ ActiveCarts(u, cartTable) = {} => BasketIn(u, cartTable, itemTable) = Nothing
           /\ \A c \in Ids : ActiveCarts(u, cartTable) = {c} =>
                BasketIn(u, cartTable, itemTable) = Contents(c, itemTable)
<1>1. ASSUME NEW c \in Ids, ActiveCarts(u, cartTable) = {c}
      PROVE  BasketIn(u, cartTable, itemTable) = Contents(c, itemTable)
  <2>1. Max({c}) = c
    <3>1. IsFiniteSet({c}) /\ {c} # {}
      BY FS_Singleton
    <3>2. {c} \subseteq Int
      BY Bounds DEF Ids
    <3>3. Max({c}) \in {c}
      BY <3>1, <3>2, MaxOf
    <3> QED BY <3>3
  <2>2. {c} # {}
    OBVIOUS
  <2>3. BasketIn(u, cartTable, itemTable) =
          [p \in Products |-> IF {c} = {} THEN 0 ELSE QuantityIn(Max({c}), p, itemTable)]
    BY <1>1 DEF BasketIn
  <2> QED BY <2>1, <2>2, <2>3 DEF Contents
<1>2. ASSUME ActiveCarts(u, cartTable) = {} PROVE BasketIn(u, cartTable, itemTable) = Nothing
  BY <1>2 DEF BasketIn, Nothing
<1> QED BY <1>1, <1>2

LEMMA OthersBaskets ==
    ASSUME IInv, NEW r \in Requests, Grows(r), OnlyOwn(r), NEW u \in Users, u # UserOf(r)
    PROVE  BasketOf(u)' = BasketOf(u)
<1> DEFINE active == ActiveCarts(u, carts)
           c == Max(active)
<1>1. /\ ActiveCarts(u, carts') = active
      /\ \A d \in active : req[r].at \in WithCart => d # req[r].cart
  BY OthersCarts
<1>2. CASE active = {}
  BY <1>1, <1>2, BasketIsIn, BasketOfOne
<1>3. CASE active # {}
  <2>1. c \in active
    BY <1>3, MaxActive DEF ActiveCarts
  <2>2. /\ ItemsOf(c, items') = ItemsOf(c, items)
        /\ \A i \in ItemsOf(c, items) : items'[i] = items[i]
    BY <1>1, <2>1, OthersItems
  <2>3. \A p \in Products : QuantityIn(c, p, items') = QuantityIn(c, p, items)
    <3> SUFFICES ASSUME NEW p \in Products PROVE QuantityIn(c, p, items') = QuantityIn(c, p, items)
      OBVIOUS
    <3>1. [i \in ItemsOf(c, items) |-> IF items'[i].product = p THEN items'[i].qty ELSE 0]
          = [i \in ItemsOf(c, items) |-> IF items[i].product = p THEN items[i].qty ELSE 0]
      BY <2>2
    <3> QED BY <2>2, <3>1 DEF QuantityIn
  <2>4. BasketIn(u, carts, items) = [p \in Products |-> QuantityIn(c, p, items)]
    BY <1>3 DEF BasketIn
  <2>5. BasketIn(u, carts', items') = [p \in Products |-> QuantityIn(c, p, items')]
    BY <1>1, <1>3 DEF BasketIn
  <2> QED BY <2>3, <2>4, <2>5, BasketIsIn
<1> QED BY <1>2, <1>3

\* Before and after a cart is there, what the request has at hand is the basket.
LEMMA OwnBasket ==
    ASSUME IInv, PatientInv, SessionInv, overlap = 1, NEW r \in Requests, req[r].at \in WithCart,
           NEW own, own = UserOf(r), NEW cart, cart = req[r].cart
    PROVE  BasketOf(own) = Contents(cart, items)
<1>1. /\ cart \in Ids
      /\ IF carts[cart] = NoCart THEN ActiveCarts(own, carts) = {} ELSE ActiveCarts(own, carts) = {cart}
  BY TheActiveCart
<1>2. CASE carts[cart] # NoCart
  BY <1>1, <1>2, BasketIsIn, BasketOfOne
<1>3. CASE carts[cart] = NoCart
  <2>1. /\ items \in [Ids -> ItemRows \cup {NoItem}]
        /\ \A i \in Ids : items[i] # NoItem => carts[items[i].cart] # NoCart
    BY DEF IInv, RowsTypeOK
  <2>2. ItemsOf(cart, items) = {}
    BY <1>3, <2>1 DEF ItemsOf
  <2>3. Contents(cart, items) = Nothing
    BY <2>1, <2>2, NothingIn
  <2> QED BY <1>1, <1>3, <2>3, BasketIsIn, BasketOfOne
<1> QED BY <1>2, <1>3

LEMMA WriteBasket ==
    ASSUME IInv, PatientInv, SessionInv, Asked, overlap = 1, NEW r \in Requests, Write(r), NEW own, own = UserOf(r)
    PROVE  \E p \in Products : Effect(Op(r), p, call[r].qty, BasketOf(own), BasketOf(own)')
<1> DEFINE cart == req[r].cart
<1>1. /\ req[r].at = "writing" /\ WriteItems(r) /\ ~InTx(r) /\ carts' = carts
      /\ Op(r) # "checkout" /\ "writing" \in WithCart
  BY DEF Write, InTx, WithCart
<1>2. RowsTypeOK'
  BY WriteKept DEF IInv
<1>3. carts[cart] # NoCart
  BY <1>1 DEF IInv, RequestInv, CartAtHand
<1>4. cart \in Ids /\ ActiveCarts(own, carts') = {cart}
  BY <1>1, <1>3, TheActiveCart
<1>5. BasketOf(own)' = Contents(cart, items')
  BY <1>4, BasketIsIn, BasketOfOne
<1>6. BasketOf(own) = Contents(cart, items)
  BY <1>1, OwnBasket
<1> QED BY <1>1, <1>2, <1>5, <1>6, WriteEffect

LEMMA CommitBasket ==
    ASSUME IInv, PatientInv, SessionInv, Asked, overlap = 1, NEW r \in Requests, Commit(r), NEW own, own = UserOf(r)
    PROVE  IF Op(r) = "view" THEN BasketOf(own)' = BasketOf(own)
           ELSE \E p \in Products : Effect(Op(r), p, call[r].qty, BasketOf(own), BasketOf(own)')
<1> DEFINE cart == req[r].cart
<1>1. /\ Op(r) # "checkout" /\ InTx(r)
      /\ (req[r].at = "writing" /\ WriteItems(r)) \/ (req[r].at = "showing" /\ items' = items)
      /\ req[r].at \in WithCart /\ req[r].at \in Busy
  <2>1. /\ Op(r) # "checkout" /\ InApp(r)
        /\ (req[r].at = "writing" /\ WriteItems(r)) \/ (req[r].at = "showing" /\ items' = items)
    BY DEF Commit
  <2> QED BY <2>1 DEF InTx, WithCart, Busy
<1>2. RowsTypeOK'
  BY CommitKept DEF IInv
<1>3. cart \in Ids /\ ActiveCarts(own, carts') = {cart}
  BY CommitTheCart
<1>4. BasketOf(own)' = Contents(cart, items')
  BY <1>3, BasketIsIn, BasketOfOne
<1>5. BasketOf(own) = Contents(cart, items)
  BY <1>1, OwnBasket
<1>6. (req[r].at = "writing" => Op(r) # "view") /\ (req[r].at = "showing" => Op(r) = "view")
  BY <1>1 DEF IInv, RequestInv, Course
<1>7. CASE req[r].at = "writing" /\ WriteItems(r)
  BY <1>1, <1>2, <1>4, <1>5, <1>6, <1>7, WriteEffect
<1>8. CASE req[r].at = "showing" /\ items' = items
  BY <1>4, <1>5, <1>6, <1>8
<1> QED BY <1>1, <1>7, <1>8

LEMMA CreateBasket ==
    ASSUME IInv, PatientInv, SessionInv, overlap = 1, NEW r \in Requests, Create(r), NEW own, own = UserOf(r)
    PROVE  BasketOf(own)' = BasketOf(own)
<1> DEFINE cart == lastCart + 1
           row == CartRow(own, "active")
<1>1. /\ RowsTypeOK /\ req[r].at = "creating" /\ lastCart < MaxRows /\ items' = items
      /\ carts' = carts \/ carts' = [carts EXCEPT ![cart] = row]
  BY DEF IInv, Create
<1>2. lastCart \in Nat /\ cart \in Ids /\ ~(cart <= lastCart)
  BY <1>1, Bounds DEF RowsTypeOK, Ids
<1>3. ActiveCarts(own, carts) = {}
  BY <1>1 DEF PatientInv, CurrentCart
<1>4. /\ items \in [Ids -> ItemRows \cup {NoItem}] /\ ItemsOf(cart, items) = {}
      /\ carts \in [Ids -> CartRows \cup {NoCart}]
  <2>1. /\ carts[cart] = NoCart /\ items \in [Ids -> ItemRows \cup {NoItem}]
        /\ \A i \in Ids : items[i] # NoItem => carts[items[i].cart] # NoCart
        /\ carts \in [Ids -> CartRows \cup {NoCart}]
    BY <1>1, <1>2 DEF RowsTypeOK
  <2> QED BY <2>1 DEF ItemsOf
<1> HIDE DEF cart, row
<1>5. ActiveCarts(own, carts') = {} \/ ActiveCarts(own, carts') = {cart}
  <2>1. CASE carts' = carts
    BY <1>3, <2>1
  <2>2. CASE carts' = [carts EXCEPT ![cart] = row]
    <3>1. \A c \in Ids : c # cart => carts'[c] # row
      BY <1>3, <1>4, <2>2 DEF ActiveCarts, row
    <3>2. carts'[cart] = row
      BY <1>2, <1>4, <2>2
    <3> QED BY <1>2, <3>1, <3>2 DEF ActiveCarts, row
  <2> QED BY <1>1, <2>1, <2>2
<1>6. BasketOf(own) = Nothing
  BY <1>3, BasketIsIn, BasketOfOne
<1>7. Contents(cart, items) = Nothing
  BY <1>4, NothingIn
<1>8. BasketOf(own)' = Nothing
  BY <1>1, <1>2, <1>5, <1>7, BasketIsIn, BasketOfOne
<1> QED BY <1>6, <1>8

\* A checkout orders what is in the basket, something, and leaves nothing.
LEMMA OrderBasket ==
    ASSUME IInv, PatientInv, SessionInv, overlap = 1, NEW r \in Requests, PlaceOrder(r), NEW own, own = UserOf(r)
    PROVE  /\ BasketOf(own)' = Nothing /\ BasketOf(own) # Nothing
           /\ [p \in Products |-> HeldQuantity(r, p)] = BasketOf(own)
<1> DEFINE cart == req[r].cart
           held == req[r].held
           row == CartRow(own, "checked_out")
<1>1. /\ req[r].at = "writing" /\ Op(r) = "checkout" /\ carts' = [carts EXCEPT ![cart] = row]
      /\ items' = items /\ "writing" \in WithCart /\ RowsTypeOK /\ OneItem /\ CurrentRows(r)
  BY DEF PlaceOrder, WithCart, IInv, PatientInv
<1>2. /\ cart \in Ids
      /\ IF carts[cart] = NoCart THEN ActiveCarts(own, carts) = {} ELSE ActiveCarts(own, carts) = {cart}
  BY <1>1, TheActiveCart
<1>3. BasketOf(own)' = Nothing
  <2>1. carts \in [Ids -> CartRows \cup {NoCart}] /\ row # CartRow(own, "active")
    BY <1>1 DEF RowsTypeOK, CartRow
  <2>2. \A c \in Ids : carts'[c] = IF c = cart THEN row ELSE carts[c]
    BY <1>1, <1>2, <2>1
  <2>3. \A c \in Ids : c # cart => carts[c] # CartRow(own, "active")
    BY <1>2 DEF ActiveCarts
  <2>4. ActiveCarts(own, carts') = {}
    BY <2>1, <2>2, <2>3 DEF ActiveCarts
  <2> QED BY <2>4, BasketIsIn, BasketOfOne
<1>4. BasketOf(own) = Contents(cart, items)
  BY <1>1, OwnBasket
<1>5. items \in [Ids -> ItemRows \cup {NoItem}] /\ OneIn(cart, items)
  BY <1>1 DEF RowsTypeOK, OneItem, OneIn, ItemsOf
<1>6. IsFiniteSet(held) /\ held # {} /\ ItemsOf(cart, items) = HeldIds(r)
  BY <1>1 DEF IInv, RequestInv, RowsAtHand, Course, CurrentRows
<1>7. ASSUME NEW h \in held
      PROVE  /\ h.id \in ItemsOf(cart, items) /\ h.row.product = items[h.id].product
             /\ h.row.qty = items[h.id].qty /\ h.row.qty \in Nat \ {0} /\ h.row.product \in Products
  <2>1. h.id \in ItemsOf(cart, items)
    BY <1>6 DEF HeldIds
  <2>2. items[h.id] \in ItemRows /\ h.row = [items[h.id] EXCEPT !.price = h.row.price]
    BY <1>1, <1>5, <2>1 DEF ItemsOf, CurrentRows
  <2> QED BY <2>1, <2>2 DEF ItemRows
<1>8. \A g, h \in held : g.id = h.id => g = h
  BY <1>1 DEF CurrentRows
<1> HIDE DEF cart, held, row
<1>9. ASSUME NEW p \in Products PROVE HeldQuantity(r, p) = QuantityIn(cart, p, items)
  <2> DEFINE f == [h \in held |-> IF h.row.product = p THEN h.row.qty ELSE 0]
  <2>1. HeldQuantity(r, p) = SumFunctionOnSet(f, held)
    <3>1. DOMAIN f = held
      OBVIOUS
    <3> QED BY <3>1, Zenon DEF HeldQuantity, SumFunction, held
  <2>2. \A h \in held : f[h] = (IF h.row.product = p THEN h.row.qty ELSE 0)
    OBVIOUS
  <2> HIDE DEF f
  <2>3. ASSUME NEW h \in held, h.row.product = p PROVE HeldQuantity(r, p) = QuantityIn(cart, p, items)
    <3>1. ASSUME NEW g \in held, g.row.product = p PROVE g = h
      <4>1. g.id = h.id
        BY <1>5, <1>7, <2>3, <3>1 DEF OneIn
      <4> QED BY <1>8, <4>1
    <3>2. f[h] = h.row.qty /\ f[h] \in Int /\ \A g \in held \ {h} : f[g] = 0
      BY <1>7, <2>2, <2>3, <3>1
    <3>3. SumFunctionOnSet(f, held) = h.row.qty
      BY <1>6, <3>2, SumOne
    <3>4. QuantityIn(cart, p, items) = items[h.id].qty
      BY <1>5, <1>7, <2>3, QuantityOf
    <3> QED BY <1>7, <2>1, <3>3, <3>4
  <2>4. ASSUME \A h \in held : h.row.product # p PROVE HeldQuantity(r, p) = QuantityIn(cart, p, items)
    <3>1. SumFunctionOnSet(f, held) = 0
      BY <1>6, <2>2, <2>4, SumZero
    <3>2. \A i \in ItemsOf(cart, items) : items[i].product # p
      BY <1>6, <1>7, <2>4 DEF HeldIds, held
    <3>3. QuantityIn(cart, p, items) = 0
      BY <1>5, <3>2, QuantityOf
    <3> QED BY <2>1, <3>1, <3>3
  <2> QED BY <2>3, <2>4
<1>10. BasketOf(own) # Nothing
  <2>1. PICK h \in held : TRUE
    BY <1>6
  <2>2. QuantityIn(cart, h.row.product, items) = h.row.qty
    BY <1>5, <1>7, QuantityOf
  <2>3. Contents(cart, items)[h.row.product] # 0 /\ Nothing[h.row.product] = 0
    BY <1>7, <2>2 DEF Contents, Nothing
  <2> QED BY <1>4, <2>3
<1>11. [p \in Products |-> HeldQuantity(r, p)] = BasketOf(own)
  BY <1>4, <1>9 DEF Contents
<1> QED BY <1>3, <1>10, <1>11
-----------------------------------------------------------------------------
(* Carts implements Baskets.                                               *)

LEMMA AskedKept == ASSUME IInv, Asked, [Next]_vars PROVE Asked'
<1>1. CASE UNCHANGED <<req, call>>
  BY <1>1 DEF Asked, Op
<1>2. ASSUME NEW r \in Requests, Receive(r) \/ Proceed(r) \/ Fail(r) PROVE Asked'
  <2>1. OthersWait(r) /\ call' = call /\ (req[r].at \in Busy \/ Receive(r))
    BY <1>2, OneMoves
  <2>2. ASSUME Op(r) = "add", req'[r].at \notin {"expected", "refused"}
        PROVE  call[r].qty >= Moq[call[r].product]
    <3>1. CASE req[r].at \in Busy
      BY <2>2, <3>1 DEF Asked, Busy, WithCart
    <3>2. CASE Receive(r)
      <4>1. call[r] \in Call /\ Moq[call[r].product] \in Nat
        BY CartAssumption DEF IInv, RowsTypeOK, Call
      <4>2. CASE call[r].qty < Moq[call[r].product]
        <5>1. Finish(r, "refused", FALSE)
          BY <2>2, <3>2, <4>2 DEF Receive
        <5>2. Is(r, "refused", 0, {}, 0, FALSE)
          BY <5>1, Finished DEF IInv, Ats
        <5> QED BY <2>2, <5>2 DEF Is
      <4> QED BY <4>1, <4>2 DEF Call
    <3> QED BY <2>1, <3>1, <3>2
  <2>3. ASSUME NEW s \in Requests, Op(s) = "add", req'[s].at \notin {"expected", "refused"}
        PROVE  call[s].qty >= Moq[call[s].product]
    <3>1. CASE s = r
      BY <2>2, <2>3, <3>1
    <3>2. CASE s # r
      BY <2>1, <2>3, <3>2 DEF Asked, OthersWait
    <3> QED BY <3>1, <3>2
  <2>4. \A s \in Requests : Op(s)' = Op(s)
    BY <2>1 DEF Op
  <2> QED BY <2>1, <2>3, <2>4 DEF Asked
<1>3. ASSUME NEW p \in Products, Reprice(p) PROVE Asked'
  BY <1>1, <1>3 DEF Reprice
<1>4. CASE UNCHANGED vars
  BY <1>1, <1>4 DEF vars
<1> QED BY <1>2, <1>3, <1>4 DEF Next

LEMMA AskedInit == Init => Asked
BY DEF Init, Asked, Idle

\* Only these steps write.
LEMMA WroteSame ==
    ASSUME IInv, NEW r \in Requests,
           Receive(r) \/ Look(r) \/ Create(r) \/ Read(r) \/ Show(r) \/ RowIsGone(r) \/ Fail(r)
    PROVE  req'[r].wrote = req[r].wrote
<1>1. req \in [Requests -> Request] /\ req[r] \in Request /\ req[r].wrote \in BOOLEAN
  BY DEF IInv, RowsTypeOK, Request
<1>2. ASSUME NEW at, NEW wrote, Finish(r, at, wrote) PROVE req'[r].wrote = wrote
  BY <1>1, <1>2 DEF Finish, Idle
<1>3. ASSUME NEW at, NEW x, \/ req' = [req EXCEPT ![r].at = at]
                            \/ req' = [req EXCEPT ![r].at = at, ![r].cart = x]
                            \/ req' = [req EXCEPT ![r].at = at, ![r].held = x]
                            \/ req' = [req EXCEPT ![r].at = at, ![r].quoted = x]
      PROVE  req'[r].wrote = req[r].wrote
  BY <1>1, <1>3 DEF Request
<1>4. req[r].at \in {"expected", "reading", "writing"} => req[r].wrote = FALSE
  BY <1>1 DEF IInv, RequestInv, Course
<1>5. CASE Receive(r)
  BY <1>2, <1>3, <1>4, <1>5 DEF Receive
<1>6. CASE Look(r)
  BY <1>3, <1>6 DEF Look
<1>7. CASE Create(r)
  BY <1>3, <1>7 DEF Create
<1>8. CASE Read(r)
  <2>1. req[r].at = "reading"
    BY <1>8 DEF Read
  <2>2. CASE Refuse(r)
    BY <1>2, <1>4, <2>1, <2>2 DEF Refuse
  <2>3. Refuse(r) \/ \E x : req' = [req EXCEPT ![r].at = "writing", ![r].held = x]
    BY <1>8 DEF Read, ReadForAdd, ReadItem, ReadForClear, ReadForCheckout, Hold
  <2> QED BY <1>3, <2>2, <2>3
<1>9. CASE Show(r)
  <2>1. req[r].at = "showing" /\ Finish(r, "answered", Op(r) # "view")
    BY <1>9 DEF Show, Answer
  <2>2. (Op(r) = "view" \/ req[r].wrote) /\ (Op(r) = "view" => ~req[r].wrote)
    BY <2>1 DEF IInv, RequestInv, Course
  <2>3. req'[r].wrote = (Op(r) # "view")
    BY <1>2, <2>1
  <2> QED BY <1>1, <2>2, <2>3
<1>10. CASE RowIsGone(r)
  BY <1>2, <1>4, <1>10 DEF RowIsGone, Refuse
<1>11. CASE Fail(r)
  BY <1>2, <1>11 DEF Fail
<1> QED BY <1>5, <1>6, <1>7, <1>8, <1>9, <1>10, <1>11

LEMMA RowsSame ==
    ASSUME NEW r \in Requests,
           Receive(r) \/ Look(r) \/ Read(r) \/ Show(r) \/ RowIsGone(r) \/ Fail(r)
    PROVE  UNCHANGED <<carts, items>> /\ placed' = placed
BY DEF Receive, Look, Read, ReadForAdd, ReadItem, ReadForClear, ReadForCheckout, Hold, Refuse, Show, Answer,
       RowIsGone, Fail, rows, seen

Kinds == Ops \ {"view"}

\* The requests that count.
Doers(u, k) == {r \in Requests : UserOf(r) = u /\ Op(r) = k /\ req[r].wrote}

LEMMA Effects ==
    /\ \A u : EffectsOf(u) = [k \in Kinds |-> Cardinality(Doers(u, k))]
    /\ \A u : EffectsOf(u)' = [k \in Kinds |-> Cardinality(Doers(u, k)')]
    /\ \A u, k : IsFiniteSet(Doers(u, k)) /\ Cardinality(Doers(u, k)) \in Nat
<1>1. ASSUME NEW u, NEW k PROVE IsFiniteSet(Doers(u, k)) /\ Cardinality(Doers(u, k)) \in Nat
  <2>1. IsFiniteSet(Doers(u, k))
    BY CartAssumption, FS_Subset DEF Doers
  <2> QED BY <2>1, FS_CardinalityType
<1> QED BY <1>1 DEF EffectsOf, Doers, Kinds

LEMMA SeenSame ==
    ASSUME UNCHANGED <<call, overlap>>, \A r \in Requests : req'[r].wrote = req[r].wrote
    PROVE  SeenChanges' = SeenChanges
<1>1. ASSUME NEW u, NEW k PROVE Doers(u, k)' = Doers(u, k)
  BY SameCalls DEF Doers
<1>2. \A u : EffectsOf(u)' = EffectsOf(u)
  BY <1>1, Effects
<1> QED BY <1>2 DEF SeenChanges

LEMMA SeenWrite ==
    ASSUME IInv, overlap = 1, UNCHANGED <<call, overlap>>, NEW r \in Requests, OthersWait(r),
           ~req[r].wrote, req'[r].wrote, NEW own, own = UserOf(r), NEW kind, kind = Op(r), kind # "view"
    PROVE  /\ own \in Users /\ kind \in Kinds /\ SeenChanges' # SeenChanges
           /\ SeenChanges' = [SeenChanges EXCEPT ![own][kind] = @ + 1]
<1>1. call[r] \in Call
  BY DEF IInv, RowsTypeOK
<1>2. own \in Users /\ kind \in Kinds
  BY <1>1 DEF UserOf, Op, Call, Kinds, Ops
<1>3. \A s \in Requests : UserOf(s)' = UserOf(s) /\ Op(s)' = Op(s)
  BY SameCalls
<1>4. ASSUME NEW u, NEW k, u # own \/ k # kind PROVE Doers(u, k)' = Doers(u, k)
  BY <1>3, <1>4 DEF Doers, OthersWait
<1>5. /\ Cardinality(Doers(own, kind)') = Cardinality(Doers(own, kind)) + 1
      /\ Cardinality(Doers(own, kind)) \in Nat
  <2>1. Doers(own, kind)' = Doers(own, kind) \cup {r} /\ r \notin Doers(own, kind)
    BY <1>3 DEF Doers, OthersWait
  <2>2. IsFiniteSet(Doers(own, kind)) /\ Cardinality(Doers(own, kind)) \in Nat
    BY Effects
  <2> QED BY <2>1, <2>2, FS_AddElement, ZenonT(30)
<1> DEFINE before == [u \in Users |-> [k \in Kinds |-> Cardinality(Doers(u, k))]]
           after == [u \in Users |-> [k \in Kinds |-> Cardinality(Doers(u, k)')]]
<1>6. SeenChanges = before /\ SeenChanges' = after
  BY Effects DEF SeenChanges
<1>7. ASSUME NEW u \in Users, u # own PROVE after[u] = before[u]
  BY <1>4, <1>7
<1>8. /\ \A k \in Kinds : k # kind => after[own][k] = before[own][k]
      /\ after[own][kind] = before[own][kind] + 1 /\ before[own][kind] \in Nat
  BY <1>2, <1>4, <1>5
<1>9. /\ DOMAIN after = Users /\ DOMAIN before = Users /\ DOMAIN after[own] = Kinds
      /\ DOMAIN before[own] = Kinds /\ after[own] = [k \in Kinds |-> after[own][k]]
      /\ before[own] = [k \in Kinds |-> before[own][k]] /\ before = [u \in Users |-> before[u]]
      /\ after = [u \in Users |-> after[u]]
  BY <1>2
<1> HIDE DEF before, after
<1>10. after[own] = [before[own] EXCEPT ![kind] = @ + 1]
  BY <1>8, <1>9
<1>11. after = [before EXCEPT ![own][kind] = @ + 1]
  BY <1>2, <1>7, <1>9, <1>10
<1>12. after # before
  BY <1>8
<1> QED BY <1>2, <1>6, <1>11, <1>12

\* A step of Baskets.
LEMMA BasketStep ==
    ASSUME IInv, Asked, NEW r \in Requests, NEW own \in Users, NEW k \in Kinds, k = Op(r),
           SeenChanges' # SeenChanges, SeenChanges' = [SeenChanges EXCEPT ![own][k] = @ + 1],
           \/ \E p \in Products : \E b :
                /\ Effect(k, p, call[r].qty, SeenBasket[own], b)
                /\ SeenBasket' = [SeenBasket EXCEPT ![own] = b] /\ SeenPlaced' = SeenPlaced
           \/ /\ k = "checkout" /\ SeenBasket[own] # Nothing
              /\ SeenBasket' = [SeenBasket EXCEPT ![own] = Nothing]
              /\ SeenPlaced' = [SeenPlaced EXCEPT ![own] = Append(@, SeenBasket[own])]
    PROVE  Promise!Next
<1> DEFINE n == call[r].qty
<1>1. n \in QuantitiesAsked /\ call[r].product \in Products
  BY DEF Asked, IInv, RowsTypeOK, Call, QuantitiesAsked
<1>2. k \in Promise!Kinds
  BY DEF Kinds, Ops, Promise!Kinds
<1>3. \E p \in Products : Promise!One(k, own, p, n)
  <2>1. ASSUME NEW p \in Products, NEW b, Effect(k, p, n, SeenBasket[own], b),
               SeenBasket' = [SeenBasket EXCEPT ![own] = b], SeenPlaced' = SeenPlaced
        PROVE  Promise!One(k, own, p, n)
    <3>1. CASE k = "add" /\ n >= Moq[p] /\ b = [SeenBasket[own] EXCEPT ![p] = SeenBasket[own][p] + n]
      BY <2>1, <3>1 DEF Promise!One, Promise!Add, Promise!Becomes
    <3>2. CASE k = "update" /\ SeenBasket[own][p] > 0 /\ b = [SeenBasket[own] EXCEPT ![p] = n]
      BY <2>1, <3>2 DEF Promise!One, Promise!SetQuantity, Promise!Becomes
    <3>3. CASE k = "remove" /\ SeenBasket[own][p] > 0 /\ b = [SeenBasket[own] EXCEPT ![p] = 0]
      BY <2>1, <3>3 DEF Promise!One, Promise!Remove, Promise!Becomes
    <3>4. CASE k = "clear" /\ b = Nothing
      BY <2>1, <3>4 DEF Promise!One, Promise!Clear, Promise!Becomes, Promise!Empty, Nothing
    <3> QED BY <2>1, <3>1, <3>2, <3>3, <3>4 DEF Effect
  <2>2. ASSUME k = "checkout", SeenBasket[own] # Nothing, SeenBasket' = [SeenBasket EXCEPT ![own] = Nothing],
               SeenPlaced' = [SeenPlaced EXCEPT ![own] = Append(@, SeenBasket[own])]
        PROVE  Promise!One(k, own, call[r].product, n)
    BY <2>2 DEF Promise!One, Promise!PlaceOrder, Promise!Becomes, Promise!Empty, Nothing
  <2> QED BY <1>1, <2>1, <2>2
<1> HIDE DEF n
<1> QED BY <1>1, <1>2, <1>3 DEF Promise!Next

LEMMA PromiseInit == ASSUME Init, IInv, PatientInv PROVE Promise!Init
<1>1. /\ items \in [Ids -> ItemRows \cup {NoItem}]
      /\ \A u \in Users : placed[u] = <<>>
      /\ \A r \in Requests : ~req[r].wrote
  BY DEF Init, IInv, RowsTypeOK, Idle
<1>2. ASSUME NEW u \in Users, overlap = 1 PROVE BasketOf(u) \in [Products -> Nat]
  <2> DEFINE c == Max(ActiveCarts(u, carts))
  <2>1. CASE ActiveCarts(u, carts) = {}
    <3>1. BasketOf(u) = Nothing
      BY <2>1, BasketIsIn, BasketOfOne
    <3> QED BY <3>1 DEF Nothing
  <2>2. CASE ActiveCarts(u, carts) # {}
    <3>1. BasketOf(u) = Contents(c, items)
      BY <2>2 DEF BasketOf, Contents, Quantity, QuantityIn
    <3>2. OneIn(c, items)
      BY <1>2 DEF PatientInv, OneItem, OneIn, ItemsOf
    <3> QED BY <1>1, <3>1, <3>2, ContentsType
  <2> QED BY <2>1, <2>2
<1>3. SeenBasket \in [Users -> [Products -> Nat]]
  BY <1>2 DEF SeenBasket
<1>4. SeenPlaced = [u \in Users |-> <<>>]
  BY <1>1 DEF SeenPlaced
<1>5. SeenChanges = [u \in Users |-> [k \in Promise!Kinds |-> 0]]
  <2>1. \A u, k : Cardinality(Doers(u, k)) = 0
    BY <1>1, FS_EmptySet DEF Doers
  <2>2. \A u : EffectsOf(u) = [k \in Kinds |-> 0]
    BY <2>1, Effects
  <2>3. Promise!Kinds = Kinds
    BY DEF Promise!Kinds, Kinds, Ops
  <2> QED BY <2>2, <2>3 DEF SeenChanges, Kinds
<1> QED BY <1>3, <1>4, <1>5 DEF Promise!Init

\* A step that writes: the user's own basket is what changes.
LEMMA OneBasket ==
    ASSUME IInv, overlap = 1, overlap' = overlap, NEW r \in Requests, Grows(r), OnlyOwn(r),
           NEW own \in Users, own = UserOf(r)
    PROVE  SeenBasket' = [SeenBasket EXCEPT ![own] = BasketOf(own)'] /\ SeenBasket[own] = BasketOf(own)
<1>1. SeenBasket = [u \in Users |-> BasketOf(u)]
  BY DEF SeenBasket
<1>2. SeenBasket' = [u \in Users |-> BasketOf(u)']
  BY DEF SeenBasket
<1>3. \A u \in Users : u # own => BasketOf(u)' = BasketOf(u)
  BY OthersBaskets
<1> QED BY <1>1, <1>2, <1>3

LEMMA PlacedSame == ASSUME UNCHANGED <<overlap, placed>> PROVE SeenPlaced' = SeenPlaced
BY DEF SeenPlaced

\* The steps a shopper sees nothing of.
LEMMA QuietStep ==
    ASSUME UNCHANGED <<call, overlap, placed>>, \A r \in Requests : req'[r].wrote = req[r].wrote,
           overlap = 1 => \A u \in Users : BasketOf(u)' = BasketOf(u)
    PROVE  UNCHANGED <<SeenBasket, SeenPlaced, SeenChanges>>
<1>1. SeenBasket' = SeenBasket
  BY DEF SeenBasket
<1> QED BY <1>1, PlacedSame, SeenSame

\* The steps that write a cart's items, ...
LEMMA WritingStep ==
    ASSUME IInv, Asked, overlap = 1, UNCHANGED <<call, overlap, placed>>, NEW r \in Requests, OthersWait(r),
           Grows(r), OnlyOwn(r), ~req[r].wrote, req'[r].wrote, Op(r) # "view", NEW own, own = UserOf(r),
           \E p \in Products : Effect(Op(r), p, call[r].qty, BasketOf(own), BasketOf(own)')
    PROVE  Promise!Next
<1>1. PICK k : k = Op(r)
  OBVIOUS
<1>2. /\ own \in Users /\ k \in Kinds /\ SeenChanges' # SeenChanges
      /\ SeenChanges' = [SeenChanges EXCEPT ![own][k] = @ + 1]
  BY <1>1, SeenWrite
<1>3. SeenBasket' = [SeenBasket EXCEPT ![own] = BasketOf(own)'] /\ SeenBasket[own] = BasketOf(own)
  BY <1>2, OneBasket
<1>4. PICK p \in Products : Effect(k, p, call[r].qty, SeenBasket[own], BasketOf(own)')
  BY <1>1, <1>3
<1> QED BY <1>1, <1>2, <1>3, <1>4, PlacedSame, BasketStep

\* ... and the one that orders them.
LEMMA OrderingStep ==
    ASSUME IInv, PatientInv, SessionInv, Asked, overlap = 1, NEW r \in Requests, PlaceOrder(r), OthersWait(r),
           Grows(r), OnlyOwn(r), ~req[r].wrote, req'[r].wrote
    PROVE  Promise!Next
<1>1. PICK own, k : own = UserOf(r) /\ k = Op(r)
  OBVIOUS
<1>2. /\ UNCHANGED <<call, overlap>> /\ k = "checkout"
      /\ placed' = [placed EXCEPT ![own] = Append(@, [p \in Products |-> HeldQuantity(r, p)])]
  BY <1>1 DEF PlaceOrder
<1>3. /\ own \in Users /\ k \in Kinds /\ SeenChanges' # SeenChanges
      /\ SeenChanges' = [SeenChanges EXCEPT ![own][k] = @ + 1]
  <2>1. UNCHANGED <<call, overlap>> /\ k # "view"
    BY <1>2
  <2> QED BY <1>1, <2>1, SeenWrite
<1>4. SeenBasket' = [SeenBasket EXCEPT ![own] = BasketOf(own)'] /\ SeenBasket[own] = BasketOf(own)
  BY <1>1, <1>2, <1>3, OneBasket
<1>5. /\ BasketOf(own)' = Nothing /\ BasketOf(own) # Nothing
      /\ [p \in Products |-> HeldQuantity(r, p)] = BasketOf(own)
  BY <1>1, OrderBasket
<1>6. SeenPlaced' = [SeenPlaced EXCEPT ![own] = Append(@, SeenBasket[own])]
  <2>1. placed' = [placed EXCEPT ![own] = Append(@, SeenBasket[own])]
    BY <1>2, <1>4, <1>5
  <2>2. placed = [u \in Users |-> placed[u]]
    BY DEF IInv, RowsTypeOK
  <2>3. SeenPlaced = [u \in Users |-> placed[u]] /\ SeenPlaced' = [u \in Users |-> placed'[u]]
    BY <1>2 DEF SeenPlaced
  <2> QED BY <1>3, <2>1, <2>2, <2>3
<1> QED BY <1>1, <1>2, <1>3, <1>4, <1>5, <1>6, BasketStep

LEMMA PromiseKept ==
    ASSUME IInv, PatientInv, SessionInv, Asked, [Next]_vars
    PROVE  Promise!Next \/ UNCHANGED <<SeenBasket, SeenPlaced, SeenChanges>>
<1> DEFINE Still == UNCHANGED <<SeenBasket, SeenPlaced, SeenChanges>>
<1>1. IInv'
  BY NextKept
<1>2. ASSUME UNCHANGED <<carts, items>> PROVE \A u : BasketOf(u)' = BasketOf(u)
  <2>1. \A u : BasketIn(u, carts', items') = BasketIn(u, carts, items)
    BY <1>2
  <2> QED BY <2>1, BasketIsIn
<1>3. ASSUME UNCHANGED <<carts, items, req, call, overlap, placed>> PROVE Still
  BY <1>2, <1>3, QuietStep
<1>4. CASE UNCHANGED vars
  BY <1>3, <1>4 DEF vars, rows, seen
<1>5. ASSUME NEW p \in Products, Reprice(p) PROVE Still
  BY <1>3, <1>5 DEF Reprice, rows, seen
<1>6. ASSUME NEW r \in Requests, Receive(r) \/ Proceed(r) \/ Fail(r) PROVE Promise!Next \/ Still
  <2>1. OthersWait(r) /\ UNCHANGED <<call, overlap>> /\ RowsTypeOK
    BY <1>6, OneMoves DEF IInv
  <2>2. PICK own : own = UserOf(r)
    OBVIOUS
  <2>3. req[r].at = "writing" => ~req[r].wrote
    BY DEF IInv, RequestInv, Course
  <2>4. ASSUME req'[r].wrote = req[r].wrote PROVE \A s \in Requests : req'[s].wrote = req[s].wrote
    BY <2>1, <2>4 DEF OthersWait
  <2>5. CASE Receive(r) \/ Look(r) \/ Read(r) \/ Show(r) \/ RowIsGone(r) \/ Fail(r)
    BY <1>2, <2>1, <2>4, <2>5, RowsSame, WroteSame, QuietStep
  <2>11. CASE Load(r)
    <3>1. UNCHANGED <<carts, items, req, call, overlap, placed>>
      BY <2>11 DEF Load, rows, seen
    <3> QED BY <1>3, <3>1
  <2>6. ASSUME overlap = 1, Create(r) PROVE \A u \in Users : BasketOf(u)' = BasketOf(u)
    <3>1. Grows(r) /\ OnlyOwn(r)
      BY <1>1, <2>6, CreateKept, PatientCreate
    <3>2. BasketOf(own)' = BasketOf(own)
      BY <2>2, <2>6, CreateBasket
    <3> QED BY <2>2, <3>1, <3>2, OthersBaskets
  <2>7. CASE Create(r)
    <3>1. placed' = placed
      BY <2>7 DEF Create, seen
    <3> QED BY <2>1, <2>4, <2>6, <2>7, <3>1, WroteSame, QuietStep
  <2>8. CASE Write(r)
    <3>1. req[r].at = "writing" /\ Finish(r, "looking", TRUE) /\ placed' = placed /\ "looking" \in Ats
      BY <2>8 DEF Write, Finish, seen, Ats, Busy
    <3>2. ~req[r].wrote /\ req'[r].wrote
      BY <2>1, <2>3, <3>1, Finished DEF Is
    <3>3. Op(r) # "view"
      BY <3>1 DEF IInv, RequestInv, Course
    <3>4. CASE overlap = 1
      <4>1. Grows(r) /\ OnlyOwn(r)
        BY <1>1, <2>8, <3>4, WriteKept, PatientWrite
      <4>2. \E p \in Products : Effect(Op(r), p, call[r].qty, BasketOf(own), BasketOf(own)')
        BY <2>2, <2>8, <3>4, WriteBasket
      <4> QED BY <2>1, <2>2, <3>1, <3>2, <3>3, <3>4, <4>1, <4>2, WritingStep
    <3>5. CASE overlap # 1
      BY <2>1, <3>5 DEF SeenBasket, SeenPlaced, SeenChanges
    <3> QED BY <3>4, <3>5
  <2>9. CASE Commit(r)
    <3>1. /\ placed' = placed /\ "answered" \in Ats /\ (Op(r) # "view") \in BOOLEAN
          /\ Finish(r, "answered", Op(r) # "view") /\ req[r].at \in {"writing", "showing"} /\ InTx(r)
      BY <2>9 DEF Commit, Answer, Ats, InTx
    <3>2. req'[r].wrote = (Op(r) # "view")
      BY <2>1, <3>1, Finished DEF Is
    <3>3. ~req[r].wrote
      BY <2>3, <3>1 DEF IInv, RequestInv, Course, Busy, WithCart
    <3>4. CASE overlap = 1
      <4>1. Grows(r) /\ OnlyOwn(r)
        BY <1>1, <2>9, <3>4, CommitKept, PatientCommit
      <4>2. CASE Op(r) # "view"
        <5>1. \E p \in Products : Effect(Op(r), p, call[r].qty, BasketOf(own), BasketOf(own)')
          BY <2>2, <2>9, <3>4, <4>2, CommitBasket
        <5> QED BY <2>1, <2>2, <3>1, <3>2, <3>3, <3>4, <4>1, <4>2, <5>1, WritingStep
      <4>3. CASE Op(r) = "view"
        <5>1. BasketOf(own)' = BasketOf(own)
          BY <2>2, <2>9, <3>4, <4>3, CommitBasket
        <5>2. \A u \in Users : BasketOf(u)' = BasketOf(u)
          BY <2>2, <4>1, <5>1, OthersBaskets
        <5>3. req'[r].wrote = req[r].wrote
          <6>1. req[r].wrote \in BOOLEAN
            BY <2>1 DEF RowsTypeOK, Request
          <6> QED BY <3>2, <3>3, <4>3, <6>1
        <5> QED BY <2>1, <2>4, <3>1, <5>2, <5>3, QuietStep
      <4> QED BY <4>2, <4>3
    <3>5. CASE overlap # 1
      BY <2>1, <3>5 DEF SeenBasket, SeenPlaced, SeenChanges
    <3> QED BY <3>4, <3>5
  <2>10. CASE PlaceOrder(r)
    <3>1. req[r].at = "writing" /\ Finish(r, "answered", TRUE) /\ "answered" \in Ats
      BY <2>10 DEF PlaceOrder, Ats
    <3>2. ~req[r].wrote /\ req'[r].wrote
      BY <2>1, <2>3, <3>1, Finished DEF Is
    <3>3. CASE overlap = 1
      <4>1. Grows(r) /\ OnlyOwn(r)
        BY <1>1, <2>10, <3>3, PlaceOrderKept, PatientOrder
      <4> QED BY <2>1, <2>10, <3>2, <3>3, <4>1, OrderingStep
    <3>4. CASE overlap # 1
      BY <2>1, <3>4 DEF SeenBasket, SeenPlaced, SeenChanges
    <3> QED BY <3>3, <3>4
  <2> QED BY <1>6, <2>5, <2>7, <2>8, <2>9, <2>10, <2>11 DEF Proceed
<1> QED BY <1>4, <1>5, <1>6 DEF Next

\* For a user who waits for each answer the cart is the basket that Baskets
\* describes, whichever API is used, however many carts and items it takes and
\* wherever requests die: what is asked is done once, and what is ordered is
\* what was in it.
THEOREM CartsAreBaskets == Spec => CartsKeepTheirPromise
<1>1. Init /\ IInv /\ PatientInv => Promise!Init
  BY PromiseInit
<1>2. IInv /\ PatientInv /\ SessionInv /\ Asked /\ [Next]_vars => [Promise!Next]_(Promise!books)
  BY PromiseKept DEF Promise!books
<1>3. Spec => []Asked
  <2>1. IInv /\ Asked /\ [Next]_vars => Asked'
    BY AskedKept
  <2> QED BY <2>1, AskedInit, CartsInv, PTL DEF Spec
<1> QED BY <1>1, <1>2, <1>3, CartsInv, OneCartAtATime, PTL DEF Spec, CartsKeepTheirPromise, Promise!Spec
=============================================================================
