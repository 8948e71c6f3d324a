--------------------------------- MODULE Carts ---------------------------------
(***************************************************************************)
(* Shopping carts.  Two programs work on the same tables carts and         *)
(* cart_items: the storefront Lambdas (storefront/handlers/cart_handler.py *)
(* on CartRepository), where every statement of a cart request commits by  *)
(* itself, and the FastAPI service (app/api/cart.py), where a request is   *)
(* one transaction.  A cart is found by SELECT and created when there is   *)
(* none; nothing locks it and nothing makes it unique.                     *)
(*                                                                         *)
(* A checkout appears as far as the cart is concerned: it reads the rows,  *)
(* writes an order with them and closes the cart in one transaction.       *)
(***************************************************************************)
EXTENDS Integers, Sequences, FiniteSets, FiniteSetsExt

CONSTANTS
    Users,
    Starts,         \* users who have a cart with one item at the start
    StartsWith,     \* the product of that item
    MaxOverlap,     \* bound: requests of one user at work at the same time
    Products,       \* gift boxes (storefront) and variants (app)
    Moq,            \* product |-> its minimum quantity, 0 when it has none
    FirstPrice,     \* product |-> selling price at the start, 0 when it has none
    MaxRepricing,   \* bound: how often staff change a price
    Requests,
    Workloads,      \* what they ask: request |-> [user, api, op, product, qty]
    MaxRows,        \* bound: ids of carts and of items are 1 .. MaxRows, and
                    \* nothing is inserted beyond
    MaxFailures,    \* bound: requests that die
    None

Ops == {"view", "add", "update", "remove", "clear", "checkout"}
Ids == 1 .. MaxRows

Call == [user : Users, api : {"storefront", "app"}, op : Ops, product : Products, qty : Nat \ {0}]
LineRow == [id : Ids, product : Products, qty : Nat \ {0}, price : Nat]
LoadedRow == [lines : SUBSET LineRow]
AnswerRow == [lines : SUBSET LineRow, behind : SUBSET Ids]

ASSUME CartAssumption ==
    /\ Starts \subseteq Users /\ IsFiniteSet(Users) /\ StartsWith \in Products
    /\ IsFiniteSet(Requests) /\ MaxOverlap \in Nat /\ MaxRows \in Nat
    /\ Cardinality(Starts) <= MaxRows
    /\ Moq \in [Products -> Nat] /\ FirstPrice \in [Products -> Nat]
    /\ Workloads \subseteq [Requests -> Call]
    /\ None \notin Users /\ None \notin LoadedRow /\ None \notin AnswerRow

VARIABLES
    carts,      \* id |-> its committed row
    items,      \* id |-> its committed row
    lastCart, lastItem,     \* the sequences the ids come from
    price,      \* product |-> selling price now
    req,        \* request |-> where it is and what it has read
    failures,
    call,       \* the workload of this run
    overlap,    \* how many requests a user has at work at most: 1 for a user
                \* who waits for an answer before asking again
    orders,     \* checkout |-> the lines of the order it placed
    loaded,     \* request of the app |-> the lines of cart.items as its session
                \* has loaded them, None before
    shown,      \* user |-> the last answer: its lines, and the items whose
                \* adding or deletion it does not show; None when unknown
    placed      \* user |-> what was ordered, in order

rows == <<carts, items, lastCart, lastItem>>
seen == <<orders, shown, placed>>
vars == <<rows, price, req, failures, call, overlap, seen, loaded>>

NoCart == [user |-> None, status |-> "none"]
NoItem == [cart |-> 0]

CartRow(u, s) == [user |-> u, status |-> s]
ItemRow(c, p, q, amount) == [cart |-> c, product |-> p, qty |-> q, price |-> amount]
CartRows == [user : Users, status : {"active", "checked_out"}]
ItemRows == [cart : Ids, product : Products, qty : Nat \ {0}, price : Nat]

StartItem(c) == ItemRow(c, StartsWith, Moq[StartsWith] + 1, FirstPrice[StartsWith])

\* A request that is not at work: no cart at hand, no row read, no price looked
\* up.
Idle(at, wrote) == [at |-> at, cart |-> 0, held |-> {}, quoted |-> 0, wrote |-> wrote]

WithCart == {"reading", "writing", "showing"}
Busy == {"looking", "creating"} \cup WithCart

Request ==
    [at : Busy \cup {"expected", "answered", "refused", "failed"}, cart : 0 .. MaxRows,
     held : SUBSET [id : Ids, row : ItemRows], quoted : Nat, wrote : BOOLEAN]

RowsTypeOK ==
    /\ carts \in [Ids -> CartRows \cup {NoCart}] /\ lastCart \in 0 .. MaxRows
    /\ items \in [Ids -> ItemRows \cup {NoItem}] /\ lastItem \in 0 .. MaxRows
    /\ \A c \in Ids : carts[c] # NoCart => c <= lastCart
    /\ \A i \in Ids : items[i] # NoItem => i <= lastItem /\ carts[items[i].cart] # NoCart
    /\ price \in [Products -> Nat]
    /\ req \in [Requests -> Request]
    /\ \A r \in Requests :
         /\ req[r].at \in WithCart => req[r].cart \in Ids
         /\ \A h \in req[r].held : h.row.cart = req[r].cart
    /\ failures \in Nat
    /\ call \in [Requests -> Call] /\ overlap \in 1 .. MaxOverlap
    /\ orders \in [Requests -> SUBSET LineRow]
    /\ placed \in [Users -> Seq([Products -> Nat])]

TypeOK ==
    /\ RowsTypeOK
    /\ loaded \in [Requests -> LoadedRow \cup {None}]
    /\ shown \in [Users -> AnswerRow \cup {None}]

Init ==
    /\ lastCart = Cardinality(Starts) /\ lastItem = lastCart
    /\ \E owner \in Bijection(1 .. lastCart, Starts) :
         /\ carts = [c \in Ids |-> IF c <= lastCart THEN CartRow(owner[c], "active") ELSE NoCart]
         /\ items = [i \in Ids |-> IF i <= lastItem THEN StartItem(i) ELSE NoItem]
    /\ call \in Workloads /\ overlap \in 1 .. MaxOverlap
    /\ price = FirstPrice
    /\ req = [r \in Requests |-> Idle("expected", FALSE)]
    /\ failures = 0
    /\ orders = [r \in Requests |-> {}]
    /\ loaded = [r \in Requests |-> None]
    /\ shown = [u \in Users |-> None]
    /\ placed = [u \in Users |-> <<>>]
-----------------------------------------------------------------------------
UserOf(r)   == call[r].user
Op(r)       == call[r].op
InApp(r)    == call[r].api = "app"
InTx(r)     == InApp(r) \/ Op(r) = "checkout"

ActiveCarts(u, table) == {c \in Ids : table[c] = CartRow(u, "active")}
ItemsOf(c, table) == {i \in Ids : table[i] # NoItem /\ table[i].cart = c}
Line(i, row) == [id |-> i, product |-> row.product, qty |-> row.qty, price |-> row.price]
Lines(c, table) == {Line(i, table[i]) : i \in ItemsOf(c, table)}
Quantity(c, p) ==
    SumFunction([i \in ItemsOf(c, items) |-> IF items[i].product = p THEN items[i].qty ELSE 0])

\* The session of a request ends with it.
Finish(r, at, wrote) ==
    /\ req' = [req EXCEPT ![r] = Idle(at, wrote)]
    /\ loaded' = [loaded EXCEPT ![r] = None]

\* An error answer: a transaction is rolled back, statements that committed stay.
Refuse(r) == Finish(r, "refused", FALSE) /\ UNCHANGED <<rows, price, failures, call, overlap, seen>>

\* The request comes in; an addition looks its product up and checks the
\* minimum before it touches the cart.
Receive(r) ==
    /\ req[r].at = "expected"
    /\ Cardinality({s \in Requests : UserOf(s) = UserOf(r) /\ req[s].at \in Busy}) < overlap
    /\ IF Op(r) = "add" /\ call[r].qty < Moq[call[r].product]
       THEN Finish(r, "refused", FALSE)
       ELSE /\ req' = [req EXCEPT ![r].at = "looking",
                                  ![r].quoted = IF Op(r) = "add" THEN price[call[r].product] ELSE 0]
            /\ UNCHANGED loaded
    /\ UNCHANGED <<rows, price, failures, call, overlap, seen>>

Opened(r) == IF req[r].wrote \/ Op(r) = "view" THEN "showing" ELSE "reading"

\* Mutant of Look: a closed cart is used again.
LookAtAnyCart(r) ==
    /\ req[r].at = "looking"
    /\ LET own == {c \in Ids : carts[c].user = UserOf(r)} IN
         req' = IF own = {} THEN [req EXCEPT ![r].at = "creating"]
                ELSE [req EXCEPT ![r].at = Opened(r), ![r].cart = Max(own)]
    /\ UNCHANGED loaded
    /\ UNCHANGED <<rows, price, failures, call, overlap, seen>>

\* get_or_create_active: _get_active takes the newest active cart ...
Look(r) ==
    /\ req[r].at = "looking"
    /\ LET active == ActiveCarts(UserOf(r), carts) IN
         req' = IF active = {} THEN [req EXCEPT ![r].at = "creating"]
                ELSE [req EXCEPT ![r].at = Opened(r), ![r].cart = Max(active)]
    /\ UNCHANGED loaded
    /\ UNCHANGED <<rows, price, failures, call, overlap, seen>>

\* ... and a new one is inserted when there was none.  Inside a transaction
\* nobody else sees it before the commit.
Create(r) ==
    /\ req[r].at = "creating" /\ lastCart < MaxRows
    /\ lastCart' = lastCart + 1
    /\ carts' = IF InTx(r) THEN carts
                ELSE [carts EXCEPT ![lastCart'] = CartRow(UserOf(r), "active")]
    /\ req' = [req EXCEPT ![r].at = Opened(r), ![r].cart = lastCart']
    /\ UNCHANGED loaded
    /\ UNCHANGED <<items, lastItem, price, failures, call, overlap, seen>>
-----------------------------------------------------------------------------
\* App: the SELECT of the cart is followed by one of its items, which stay in
\* the session as they are loaded.  (A request that reads cart.items next finds
\* what it loads: see Hold.)
Load(r) ==
    /\ req[r].at = "reading" /\ InApp(r) /\ Op(r) \in {"update", "remove"}
    /\ loaded[r] = None
    /\ loaded' = [loaded EXCEPT ![r] = [lines |-> Lines(req[r].cart, items)]]
    /\ UNCHANGED <<rows, price, req, failures, call, overlap, seen>>

Hold(r, ids, amount(_)) ==
    /\ req' = [req EXCEPT ![r].at = "writing",
                          ![r].held = {[id |-> i, row |-> [items[i] EXCEPT !.price = amount(i)]] : i \in ids}]
    /\ loaded' = [loaded EXCEPT ![r] = IF InApp(r) /\ @ = None THEN [lines |-> Lines(req[r].cart, items)] ELSE @]
    /\ UNCHANGED <<rows, price, failures, call, overlap, seen>>

Snapshot(i) == items[i].price

\* Mutant of Charged: every line is priced anew.
ChargedNow(i) == price[items[i].product]

\* The price a checkout charges: the snapshot, or the price now if there is none.
Charged(i) == IF items[i].price = 0 THEN price[items[i].product] ELSE items[i].price

\* Mutant of ReadForAdd: any row of the cart is taken for the product's.
ReadForAddAnyRow(r) ==
    /\ Op(r) = "add"
    /\ LET same == ItemsOf(req[r].cart, items) IN
         IF same = {} THEN Hold(r, {}, Snapshot) ELSE \E i \in same : Hold(r, {i}, Snapshot)

\* add_item: the row of the cart that already has the product, if one does.
ReadForAdd(r) ==
    /\ Op(r) = "add"
    /\ LET same == {i \in ItemsOf(req[r].cart, items) : items[i].product = call[r].product} IN
         IF same = {} THEN Hold(r, {}, Snapshot) ELSE \E i \in same : Hold(r, {i}, Snapshot)

\* Mutant of ReadItem: get_item is not given the cart.
ReadAnyItem(r) ==
    /\ Op(r) \in {"update", "remove"}
    /\ InApp(r) => loaded[r] # None
    /\ \E i \in Ids : IF items[i] # NoItem THEN Hold(r, {i}, Snapshot) ELSE Refuse(r)

\* update_item, remove_item: get_item finds the row only in the user's cart.
\* The id comes with the request and may be from any earlier answer.
ReadItem(r) ==
    /\ Op(r) \in {"update", "remove"}
    /\ InApp(r) => loaded[r] # None
    /\ \E i \in Ids : IF i \in ItemsOf(req[r].cart, items) THEN Hold(r, {i}, Snapshot) ELSE Refuse(r)

ReadForClear(r) == Op(r) = "clear" /\ Hold(r, ItemsOf(req[r].cart, items), Snapshot)

\* checkout refuses an empty cart, a wrong address and, in the app, a shortage.
ReadForCheckout(r) ==
    /\ Op(r) = "checkout"
    /\ \/ Refuse(r)
       \/ ItemsOf(req[r].cart, items) # {} /\ Hold(r, ItemsOf(req[r].cart, items), Charged)

Read(r) ==
    /\ req[r].at = "reading"
    /\ ReadForAdd(r) \/ ReadItem(r) \/ ReadForClear(r) \/ ReadForCheckout(r)
-----------------------------------------------------------------------------
HeldIds(r) == {h.id : h \in req[r].held}
RowHeld(r, i) == (CHOOSE h \in req[r].held : h.id = i).row
Gone(r) == \E i \in HeldIds(r) : items[i] = NoItem

\* The quantity that was read plus the one asked for; a row that is gone stays
\* gone.  With no row read, a new one at the price looked up.
Added(r) ==
    IF HeldIds(r) = {}
    THEN [items EXCEPT ![lastItem + 1] =
            ItemRow(req[r].cart, call[r].product, call[r].qty, req[r].quoted)]
    ELSE [i \in Ids |-> IF i \in HeldIds(r) /\ items[i] # NoItem
                        THEN [RowHeld(r, i) EXCEPT !.qty = @ + call[r].qty] ELSE items[i]]

\* App: a row the session has loaded is not read again, and no UPDATE is sent
\* for a quantity that is the one in the session.
NothingToWrite(r) ==
    /\ InApp(r) /\ Op(r) = "update"
    /\ \A h \in req[r].held :
         LET known == {l \in loaded[r].lines : l.id = h.id} IN
         IF known = {} THEN h.row.qty = call[r].qty ELSE \A l \in known : l.qty = call[r].qty

Updated(r) ==
    [i \in Ids |-> IF i \in HeldIds(r) /\ items[i] # NoItem /\ ~NothingToWrite(r)
                   THEN [RowHeld(r, i) EXCEPT !.qty = call[r].qty] ELSE items[i]]

\* remove deletes the row it read; clear the rows the cart has now (storefront,
\* one DELETE) or had when it was read (app).
Deleted(r) ==
    LET cleared == IF Op(r) = "clear" /\ ~InApp(r) THEN ItemsOf(req[r].cart, items) ELSE HeldIds(r)
    IN [i \in Ids |-> IF i \in cleared THEN NoItem ELSE items[i]]

WriteItems(r) ==
    /\ Op(r) = "add" /\ HeldIds(r) = {} => lastItem < MaxRows
    /\ items' = CASE Op(r) = "add"    -> Added(r)
                  [] Op(r) = "update" -> Updated(r)
                  [] OTHER            -> Deleted(r)
    /\ lastItem' = lastItem + (IF Op(r) = "add" /\ HeldIds(r) = {} THEN 1 ELSE 0)

\* Storefront: the write is one statement; the cart is then looked up again.
Write(r) ==
    /\ req[r].at = "writing" /\ ~InTx(r)
    /\ WriteItems(r)
    /\ Finish(r, "looking", TRUE)
    /\ UNCHANGED <<carts, lastCart, price, failures, call, overlap, seen>>

Answer(r, answer) ==
    /\ Finish(r, "answered", Op(r) # "view")
    /\ shown' = [shown EXCEPT ![UserOf(r)] = answer]
    /\ UNCHANGED <<price, failures, call, overlap, orders, placed>>

Shows(lines, behind) == [lines |-> lines, behind |-> behind]

\* Storefront: _serialize reads the items of the cart found last.
Show(r) ==
    /\ req[r].at = "showing" /\ ~InTx(r)
    /\ Answer(r, Shows(Lines(req[r].cart, items), {}))
    /\ UNCHANGED rows

\* App: what the session holds in cart.items after the write.  The request sets
\* quantities there, but the rows it adds or deletes it adds and deletes in the
\* session only, and the reload finds the same cart in the session and leaves a
\* collection that is loaded as it is.
Remembered(r) ==
    {[l EXCEPT !.qty = IF l.id \notin HeldIds(r) THEN @
                       ELSE CASE Op(r) = "add"    -> @ + call[r].qty
                              [] Op(r) = "update" -> call[r].qty
                              [] OTHER            -> @] : l \in loaded[r].lines}

\* The items that answer still lacks, or still lists.
Outdated(r) ==
    CASE Op(r) = "add"    -> IF HeldIds(r) = {} THEN {lastItem + 1} ELSE {}
      [] Op(r) = "update" -> {}
      [] OTHER            -> HeldIds(r)

\* The UPDATE of a row that is gone.
Misses(r) == Op(r) \in {"add", "update"} /\ Gone(r) /\ ~NothingToWrite(r)

\* App: the reload flushes the write, and the commit publishes it with the cart
\* the request may have created; a reload that finds the cart closed meanwhile
\* takes another active one, or creates the next.  (What is listed of that one
\* is left open.)  A view does not reload.
Commit(r) ==
    /\ InApp(r) /\ Op(r) # "checkout"
    /\ \/ req[r].at = "writing" /\ ~Misses(r) /\ WriteItems(r)
       \/ req[r].at = "showing" /\ UNCHANGED <<items, lastItem>>
    /\ LET own == IF carts[req[r].cart] = NoCart
                  THEN [carts EXCEPT ![req[r].cart] = CartRow(UserOf(r), "active")] ELSE carts
           active == IF Op(r) = "view" THEN {req[r].cart} ELSE ActiveCarts(UserOf(r), own)
       IN IF active = {}
          THEN /\ lastCart < MaxRows
               /\ lastCart' = lastCart + 1
               /\ carts' = [own EXCEPT ![lastCart'] = CartRow(UserOf(r), "active")]
               /\ Answer(r, None)
          ELSE /\ carts' = own /\ UNCHANGED lastCart
               /\ Answer(r, CASE Max(active) # req[r].cart -> None
                              [] req[r].at = "writing"     -> Shows(Remembered(r), Outdated(r))
                              [] OTHER                     -> Shows(Lines(req[r].cart, items), {}))

\* App: an UPDATE that matches no row raises.
RowIsGone(r) ==
    /\ req[r].at = "writing" /\ InApp(r) /\ Misses(r)
    /\ Refuse(r)

HeldQuantity(r, p) ==
    SumFunction([h \in req[r].held |-> IF h.row.product = p THEN h.row.qty ELSE 0])

\* checkout commits: the order with the lines that were read, and the cart.
PlaceOrder(r) ==
    /\ req[r].at = "writing" /\ Op(r) = "checkout"
    /\ orders' = [orders EXCEPT ![r] = {Line(h.id, h.row) : h \in req[r].held}]
    /\ carts' = [carts EXCEPT ![req[r].cart] = CartRow(UserOf(r), "checked_out")]
    /\ placed' = [placed EXCEPT ![UserOf(r)] = Append(@, [p \in Products |-> HeldQuantity(r, p)])]
    /\ shown' = [shown EXCEPT ![UserOf(r)] = None]
    /\ Finish(r, "answered", TRUE)
    /\ UNCHANGED <<items, lastCart, lastItem, price, failures, call, overlap>>

\* The Lambda or the server dies, or a statement fails; the user does not know
\* how far it got.
Fail(r) ==
    /\ req[r].at \in Busy /\ failures < MaxFailures
    /\ failures' = failures + 1
    /\ Finish(r, "failed", req[r].wrote)
    /\ shown' = [shown EXCEPT ![UserOf(r)] = None]
    /\ UNCHANGED <<rows, price, call, overlap, orders, placed>>

\* Staff change the selling price.
Reprice(p) ==
    /\ SumFunction(price) < SumFunction(FirstPrice) + MaxRepricing
    /\ price' = [price EXCEPT ![p] = @ + 1]
    /\ UNCHANGED loaded
    /\ UNCHANGED <<rows, req, failures, call, overlap, seen>>

Proceed(r) ==
    \/ Look(r) \/ Create(r) \/ Load(r) \/ Read(r) \/ Write(r) \/ Show(r)
    \/ Commit(r) \/ RowIsGone(r) \/ PlaceOrder(r)

Next ==
    \/ \E r \in Requests : Receive(r) \/ Proceed(r) \/ Fail(r)
    \/ \E p \in Products : Reprice(p)

Spec == Init /\ [][Next]_vars
-----------------------------------------------------------------------------
\* The basket of a user: the quantities in the newest active cart.
BasketOf(u) ==
    LET active == ActiveCarts(u, carts) IN
    [p \in Products |-> IF active = {} THEN 0 ELSE Quantity(Max(active), p)]

\* The requests of a user that have had their effect.
EffectsOf(u) ==
    [k \in Ops \ {"view"} |->
       Cardinality({r \in Requests : UserOf(r) = u /\ Op(r) = k /\ req[r].wrote})]

\* What Baskets sees: nothing of users who do not wait.
QuantitiesAsked == {w[r].qty : w \in Workloads, r \in Requests}
SeenBasket == [u \in Users |-> IF overlap = 1 THEN BasketOf(u) ELSE [p \in Products |-> 0]]
SeenPlaced == [u \in Users |-> IF overlap = 1 THEN placed[u] ELSE <<>>]
SeenChanges == [u \in Users |-> IF overlap = 1 THEN EffectsOf(u) ELSE [k \in Ops \ {"view"} |-> 0]]

Promise == INSTANCE Baskets WITH
    Quantities <- QuantitiesAsked, basket <- SeenBasket, placed <- SeenPlaced, changes <- SeenChanges

\* For a user who waits for each answer the cart is the basket Baskets
\* describes, through carts created on the way, item ids of closed carts,
\* requests that die half-way and whichever API is used.
CartsKeepTheirPromise == Promise!Spec

\* Same items and quantities, and the price that was shown unless none was.
SameLines(order, lines) ==
    /\ {[l EXCEPT !.price = 0] : l \in order} = {[l EXCEPT !.price = 0] : l \in lines}
    /\ \A l \in lines : l.price > 0 => l \in order

But(lines, ids) == {l \in lines : l.id \notin ids}
IdsOf(lines) == {l.id : l \in lines}

\* An answer of the app is one write behind: the item its own request added is
\* not listed but ordered, the items it deleted are listed but not ordered.
AsAnswered(order, answer) ==
    /\ SameLines(But(order, answer.behind), But(answer.lines, answer.behind))
    /\ \A i \in answer.behind : i \in IdsOf(order) <=> i \notin IdsOf(answer.lines)

\* A user who waits for each answer is charged for the lines the last answer
\* showed, whatever staff do to the prices in between.  After an answer of the
\* storefront, or of a view, these are exactly the lines of the order; after a
\* write in the app (app/api/cart.py:76, :89, :102, :111) that holds but for
\* the items this write added or deleted, which the answer has wrong: the
\* comment at :75 and tests/integration/test_order_flow.py:45 expect it right.
OrderedAsShown ==
    [][\A r \in Requests :
         orders'[r] # orders[r] /\ overlap = 1 /\ shown[UserOf(r)] # None
         => AsAnswered(orders'[r], shown[UserOf(r)])]_vars

StartQuantity(c, p) ==
    IF c <= Cardinality(Starts) /\ p = StartsWith THEN StartItem(c).qty ELSE 0

\* Who has asked for more of a product, or for another quantity of some item.
Asking(c, p) ==
    {r \in Requests : /\ UserOf(r) = carts[c].user /\ req[r].at \notin {"expected", "refused"}
                      /\ \/ Op(r) = "update"
                         \/ Op(r) = "add" /\ call[r].product = p}

\* Whatever overlaps, no cart holds more of a product than it had at the start
\* and its owner has asked for since.
NeverMoreThanAsked ==
    \A c \in Ids : \A p \in Products :
        carts[c] # NoCart =>
        Quantity(c, p) <= StartQuantity(c, p) + SumFunction([r \in Asking(c, p) |-> call[r].qty])
=============================================================================
