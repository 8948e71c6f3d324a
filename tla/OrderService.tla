----------------------------- MODULE OrderService -----------------------------
(***************************************************************************)
(* app/services/order_service.py: checkout, cancel_order, record_shipment, *)
(* record_payment and confirm_payment as they run against Postgres.        *)
(*                                                                         *)
(* A request is one call of one of the five operations and runs in one     *)
(* get_session() transaction under READ COMMITTED: each SELECT sees what   *)
(* is committed when it runs, the inventory rows are locked one at a time  *)
(* by SELECT ... FOR UPDATE, and what the transaction has written is seen  *)
(* by the others when it commits, never if it rolls back.                  *)
(*                                                                         *)
(* An order is named by the checkout request that places it, a payment row *)
(* by the record_payment request that inserts it.                          *)
(***************************************************************************)
EXTENDS InventoryRows, Sequences, FiniteSets, FiniteSetsExt

CONSTANTS
    Variants,           \* product variants
    Warehouses,         \* warehouse ids, positive numbers
    Rows,               \* the (variant, warehouse) pairs with an inventory row
    InitialStock,       \* the inventory table at the start
    DefaultWarehouse,   \* settings.default_warehouse_id, NoWarehouse for None
    Carts,              \* carts, each active at the start
    Lines,              \* cart |-> sequence of [variant, units]
    Requests,           \* the calls the environment may make, each at most once
    Op,                 \* request |-> which operation it calls
    OrderOf,            \* request |-> the order it is about (a checkout's: itself)
    CartOf,             \* order |-> the cart it is placed from
    References,         \* transaction references
    RefOf,              \* request |-> the reference a pay or confirm carries
    MayCrash,           \* the requests whose process or connection may die
    OrderlyCallers,     \* TRUE: callers never overlap requests on one cart or order,
                        \* and ship only orders that are neither cancelled nor shipped
    NoOne               \* no request, no lock holder

NoWarehouse == 0

Orders   == {r \in Requests : Op[r] = "checkout"}
Payments == {r \in Requests : Op[r] = "pay"}

ASSUME StockAssumption ==
    /\ Warehouses \subseteq Nat \ {NoWarehouse}
    /\ IsFiniteSet(Warehouses)
    /\ Rows \subseteq Variants \X Warehouses
    /\ InitialStock \in [Rows -> StockRow]
    /\ \A row \in Rows : InitialStock[row].reserved <= InitialStock[row].quantity
    /\ DefaultWarehouse \in Warehouses \cup {NoWarehouse}

ASSUME RequestAssumption ==
    /\ IsFiniteSet(Requests)
    /\ NoOne \notin Requests
    /\ Op \in [Requests -> {"checkout", "cancel", "ship", "pay", "confirm"}]
    /\ OrderOf \in [Requests -> Orders]
    /\ \A o \in Orders : OrderOf[o] = o
    /\ CartOf \in [Orders -> Carts]
    /\ Lines \in [Carts -> Seq([variant : Variants, units : Nat])]
    /\ RefOf \in [Requests -> References]
    /\ MayCrash \subseteq Requests
    /\ OrderlyCallers \in BOOLEAN

VARIABLES
    stock,      \* committed inventory rows
    carts,      \* committed cart status
    orders,     \* committed order rows, status "absent" before the insert commits
    payments,   \* committed payment rows, "absent" before the insert commits
    rowLock,    \* inventory row |-> the request whose transaction holds its lock
    payLock,    \* payment row |-> the request whose transaction has updated it
    phase,      \* request |-> where its transaction is
    tx,         \* request |-> what the handler holds in memory
    draft       \* request |-> the inventory rows as its session sees them

tables == <<stock, carts, orders, payments>>
locks  == <<rowLock, payLock>>
vars   == <<stock, carts, orders, payments, rowLock, payLock, phase, tx, draft>>

\* _RESERVED_STATUSES: the order still holds a live reservation.
ReservedStatuses == {"pending", "paid", "confirmed"}
OrderStatuses    == ReservedStatuses \cup {"cancelled", "shipped", "absent"}

OrderRow   == [status : OrderStatuses, payment : {"pending", "paid"}]
NoOrderRow == [status |-> "absent", payment |-> "pending"]

Running == {"locking", "inserting", "paying", "confirming"}
Ended   == {"done", "noop", "rejected", "aborted"}

\* left: order lines not yet done; line: the one at hand, 0 for none;
\* scanned: the warehouse last locked for it; seen: the order status read;
\* target: the payment row read.
Handler == [left : SUBSET Nat, line : Nat, scanned : Nat,
            seen : OrderStatuses, target : Payments \cup {NoOne}]
NoHandler == [left |-> {}, line |-> 0, scanned |-> 0,
              seen |-> "absent", target |-> NoOne]

TypeOK ==
    /\ stock \in [Rows -> StockRow]
    /\ carts \in [Carts -> {"active", "checked_out"}]
    /\ orders \in [Orders -> OrderRow]
    /\ payments \in [Payments -> {"absent", "pending", "paid"}]
    /\ rowLock \in [Rows -> Requests \cup {NoOne}]
    /\ payLock \in [Payments -> Requests \cup {NoOne}]
    /\ phase \in [Requests -> {"idle"} \cup Running \cup Ended]
    /\ tx \in [Requests -> Handler]
    /\ draft \in [Requests -> [Rows -> StockRow]]

Init ==
    /\ stock = InitialStock
    /\ carts = [c \in Carts |-> "active"]
    /\ orders = [o \in Orders |-> NoOrderRow]
    /\ payments = [p \in Payments |-> "absent"]
    /\ rowLock = [row \in Rows |-> NoOne]
    /\ payLock = [p \in Payments |-> NoOne]
    /\ phase = [r \in Requests |-> "idle"]
    /\ tx = [r \in Requests |-> NoHandler]
    /\ draft = [r \in Requests |-> InitialStock]
-----------------------------------------------------------------------------
(* Which requests concern the same cart or the same order.                 *)

Matching(r) == {p \in Payments : RefOf[p] = RefOf[r]}

Touches(r) ==
    CASE Op[r] = "checkout" -> {CartOf[r]}
      [] Op[r] = "confirm"  -> {OrderOf[p] : p \in Matching(r)}
      [] OTHER              -> {OrderOf[r]}

MayStart(r) ==
    /\ phase[r] = "idle"
    /\ OrderlyCallers =>
         \A s \in Requests :
             phase[s] \in Running => Touches(s) \cap Touches(r) = {}

(* The lines of a cart, and of the order placed from it.  Neither          *)
(* cart.items nor get_items has an ORDER BY: any line may come next.       *)
LinesOf(r) == Lines[CartOf[OrderOf[r]]]
LineOf(r)  == LinesOf(r)[tx[r].line]

\* Mutant of End: the session is not closed and its locks stay.
EndKeepingLocks(r, outcome) ==
    /\ phase' = [phase EXCEPT ![r] = outcome]
    /\ tx' = [tx EXCEPT ![r] = NoHandler]
    /\ draft' = [draft EXCEPT ![r] = InitialStock]
    /\ UNCHANGED locks

(* Leaving the transaction: COMMIT or ROLLBACK, every lock is released.    *)
End(r, outcome) ==
    /\ phase' = [phase EXCEPT ![r] = outcome]
    /\ tx' = [tx EXCEPT ![r] = NoHandler]
    /\ draft' = [draft EXCEPT ![r] = InitialStock]
    /\ rowLock' = [row \in Rows |-> IF rowLock[row] = r THEN NoOne ELSE rowLock[row]]
    /\ payLock' = [p \in Payments |-> IF payLock[p] = r THEN NoOne ELSE payLock[p]]

Rollback(r, outcome) == End(r, outcome) /\ UNCHANGED tables

(* Entering the loop over the lines with order status `status` in memory.  *)
StartLines(r, status) ==
    /\ phase' = [phase EXCEPT ![r] = "locking"]
    /\ \E i \in DOMAIN LinesOf(r) :
         tx' = [tx EXCEPT ![r] = [left |-> DOMAIN LinesOf(r), line |-> i,
                                  scanned |-> 0, seen |-> status, target |-> NoOne]]
    /\ UNCHANGED <<tables, locks, draft>>
-----------------------------------------------------------------------------
(* The first reads of each operation and what they decide.                 *)

CheckoutStarts(r) ==
    /\ Op[r] = "checkout" /\ MayStart(r)
    /\ carts[CartOf[r]] = "active"
    /\ LinesOf(r) # <<>>
    /\ StartLines(r, "absent")

\* EmptyCartError (also when the cart is checked out: the new cart
\* get_or_create_active adds is rolled back with the rest), or
\* InvalidAddressError, which the address of any request may meet.
CheckoutRejected(r) ==
    /\ Op[r] = "checkout" /\ MayStart(r)
    /\ Rollback(r, "rejected")

\* Mutant of CancelStarts: an order is cancelled whatever its status.
CancelStartsAgain(r) ==
    /\ Op[r] = "cancel" /\ MayStart(r)
    /\ orders[OrderOf[r]].status # "absent"
    /\ StartLines(r, orders[OrderOf[r]].status)

CancelStarts(r) ==
    /\ Op[r] = "cancel" /\ MayStart(r)
    /\ orders[OrderOf[r]].status \in ReservedStatuses
    /\ StartLines(r, orders[OrderOf[r]].status)

CancelNoop(r) ==
    /\ Op[r] = "cancel" /\ MayStart(r)
    /\ orders[OrderOf[r]].status = "cancelled"
    /\ Rollback(r, "noop")

CancelRejected(r) ==
    /\ Op[r] = "cancel" /\ MayStart(r)
    /\ orders[OrderOf[r]].status \notin ReservedStatuses \cup {"cancelled"}
    /\ Rollback(r, "rejected")

\* record_shipment looks at no status: it is for its callers to ship an order
\* that still holds its reservation.
ShipStarts(r) ==
    /\ Op[r] = "ship" /\ MayStart(r)
    /\ orders[OrderOf[r]].status # "absent"
    /\ OrderlyCallers => orders[OrderOf[r]].status \in ReservedStatuses
    /\ StartLines(r, orders[OrderOf[r]].status)

ShipRejected(r) ==
    /\ Op[r] = "ship" /\ MayStart(r)
    /\ orders[OrderOf[r]].status = "absent"
    /\ Rollback(r, "rejected")

\* get_by_reference looks the reference up over all payments.
PayReads(r) ==
    /\ Op[r] = "pay" /\ MayStart(r)
    /\ orders[OrderOf[r]].status # "absent"
    /\ \A p \in Matching(r) : payments[p] = "absent"
    /\ phase' = [phase EXCEPT ![r] = "inserting"]
    /\ UNCHANGED <<tables, locks, tx, draft>>

PayNoop(r) ==
    /\ Op[r] = "pay" /\ MayStart(r)
    /\ orders[OrderOf[r]].status # "absent"
    /\ \E p \in Matching(r) : payments[p] # "absent"
    /\ Rollback(r, "noop")

PayRejected(r) ==
    /\ Op[r] = "pay" /\ MayStart(r)
    /\ orders[OrderOf[r]].status = "absent"
    /\ Rollback(r, "rejected")

\* get_by_reference is .first() without ORDER BY: any matching row.
ConfirmReads(r) ==
    /\ Op[r] = "confirm" /\ MayStart(r)
    /\ \E p \in Matching(r) :
         /\ payments[p] = "pending"
         /\ tx' = [tx EXCEPT ![r].target = p]
    /\ phase' = [phase EXCEPT ![r] = "paying"]
    /\ UNCHANGED <<tables, locks, draft>>

\* Unknown reference, or already paid: False, nothing written.
ConfirmNoop(r) ==
    /\ Op[r] = "confirm" /\ MayStart(r)
    /\ \/ \A p \in Matching(r) : payments[p] = "absent"
       \/ \E p \in Matching(r) : payments[p] = "paid"
    /\ Rollback(r, "noop")
-----------------------------------------------------------------------------
(* lock_for_variant and the arithmetic on the row it returns.              *)

Pinned(r) == IF Op[r] = "checkout" THEN DefaultWarehouse ELSE NoWarehouse

\* The warehouses whose rows the SELECT ... FOR UPDATE of this line matches.
Matched(r) ==
    {w \in Warehouses : /\ <<LineOf(r).variant, w>> \in Rows
                        /\ Pinned(r) \in {NoWarehouse, w}}

\* ORDER BY warehouse_id: the rows are locked in that order.
ToLock(r) == {w \in Matched(r) : w > tx[r].scanned}
NextRow(r) ==
    <<LineOf(r).variant, CHOOSE w \in ToLock(r) : \A x \in ToLock(r) : w <= x>>

AtLine(r) == phase[r] = "locking" /\ tx[r].line # 0

\* Mutant of LockRow: the session keeps the row as it read it before the lock.
LockRowReadBefore(r) ==
    /\ AtLine(r) /\ ToLock(r) # {}
    /\ LET row == NextRow(r) IN
         /\ rowLock[row] \in {NoOne, r}
         /\ rowLock' = [rowLock EXCEPT ![row] = r]
         /\ tx' = [tx EXCEPT ![r].scanned = row[2]]
    /\ UNCHANGED <<tables, payLock, phase, draft>>

\* One row is locked, waiting until no other transaction holds it, and read
\* in its committed state; a row this transaction has locked for an earlier
\* line is already in the session with that line's change.
LockRow(r) ==
    /\ AtLine(r) /\ ToLock(r) # {}
    /\ LET row == NextRow(r) IN
         /\ rowLock[row] \in {NoOne, r}
         /\ rowLock' = [rowLock EXCEPT ![row] = r]
         /\ draft' = IF rowLock[row] = r THEN draft
                     ELSE [draft EXCEPT ![r][row] = stock[row]]
         /\ tx' = [tx EXCEPT ![r].scanned = row[2]]
    /\ UNCHANGED <<tables, payLock, phase>>

\* rows[0] of the pinned warehouse, else the row with the most available.
ChosenRow(r) ==
    LET avail == [w \in Matched(r) |-> Available(draft[r][<<LineOf(r).variant, w>>])]
    IN  <<LineOf(r).variant, MostAvailable(avail, Matched(r))>>

LinePossible(r) ==
    Op[r] = "checkout" =>
        /\ Matched(r) # {}
        /\ CanReserve(draft[r][ChosenRow(r)], LineOf(r).units)

Changed(r) ==
    LET row == draft[r][ChosenRow(r)] IN
    CASE Op[r] = "checkout" -> Reserve(row, LineOf(r).units)
      [] Op[r] = "cancel"   -> Release(row, LineOf(r).units)
      [] Op[r] = "ship"     -> Fulfill(row, LineOf(r).units)

\* A cancelled or shipped line whose variant has no row is skipped.
ApplyLine(r) ==
    /\ AtLine(r) /\ ToLock(r) = {} /\ LinePossible(r)
    /\ draft' = IF Matched(r) = {} THEN draft
                ELSE [draft EXCEPT ![r][ChosenRow(r)] = Changed(r)]
    /\ LET left == tx[r].left \ {tx[r].line} IN
         \E next \in IF left = {} THEN {0} ELSE left :
             tx' = [tx EXCEPT ![r] = [left |-> left, line |-> next, scanned |-> 0,
                                      seen |-> tx[r].seen, target |-> tx[r].target]]
    /\ UNCHANGED <<tables, locks, phase>>

\* Mutant of LineShort: the lines reserved so far are committed.
LineShortKeepingLines(r) ==
    /\ AtLine(r) /\ ToLock(r) = {} /\ ~LinePossible(r)
    /\ stock' = [row \in Rows |-> IF rowLock[row] = r THEN draft[r][row] ELSE stock[row]]
    /\ End(r, "rejected")
    /\ UNCHANGED <<carts, orders, payments>>

\* InsufficientStockError or ValueError: the whole transaction rolls back.
LineShort(r) ==
    /\ AtLine(r) /\ ToLock(r) = {} /\ ~LinePossible(r)
    /\ Rollback(r, "rejected")
-----------------------------------------------------------------------------
(* The last writes and the COMMIT.                                         *)

LinesDone(r) == phase[r] = "locking" /\ tx[r].line = 0

Publish(r) ==
    stock' = [row \in Rows |-> IF rowLock[row] = r THEN draft[r][row] ELSE stock[row]]

\* Mutant of CheckoutCommits: mark_checked_out is forgotten.
CheckoutCommitsLeavingCart(r) ==
    /\ Op[r] = "checkout" /\ LinesDone(r)
    /\ Publish(r)
    /\ orders' = [orders EXCEPT ![r] = [status |-> "pending", payment |-> "pending"]]
    /\ End(r, "done")
    /\ UNCHANGED <<carts, payments>>

CheckoutCommits(r) ==
    /\ Op[r] = "checkout" /\ LinesDone(r)
    /\ Publish(r)
    /\ orders' = [orders EXCEPT ![r] = [status |-> "pending", payment |-> "pending"]]
    /\ carts' = [carts EXCEPT ![CartOf[r]] = "checked_out"]
    /\ End(r, "done")
    /\ UNCHANGED payments

CancelCommits(r) ==
    /\ Op[r] = "cancel" /\ LinesDone(r)
    /\ Publish(r)
    /\ orders' = [orders EXCEPT ![OrderOf[r]].status = "cancelled"]
    /\ End(r, "done")
    /\ UNCHANGED <<carts, payments>>

\* The ORM writes a column only if its value differs from the one it read.
ShipCommits(r) ==
    /\ Op[r] = "ship" /\ LinesDone(r)
    /\ Publish(r)
    /\ orders' = IF tx[r].seen = "shipped" THEN orders
                 ELSE [orders EXCEPT ![OrderOf[r]].status = "shipped"]
    /\ End(r, "done")
    /\ UNCHANGED <<carts, payments>>

PayCommits(r) ==
    /\ phase[r] = "inserting"
    /\ payments' = [payments EXCEPT ![r] = "pending"]
    /\ End(r, "done")
    /\ UNCHANGED <<stock, carts, orders>>

\* The session flushes the payment's UPDATE, which waits for the row, before
\* it sends the SELECT that reads the order.
ConfirmReadsOrder(r) ==
    /\ phase[r] = "paying"
    /\ payLock[tx[r].target] = NoOne
    /\ payLock' = [payLock EXCEPT ![tx[r].target] = r]
    /\ tx' = [tx EXCEPT ![r].seen = orders[OrderOf[tx[r].target]].status]
    /\ phase' = [phase EXCEPT ![r] = "confirming"]
    /\ UNCHANGED <<tables, rowLock, draft>>

\* Mutant of ConfirmCommits: the order's payment status follows only a
\* pending order.
ConfirmCommitsPendingOnly(r) ==
    /\ phase[r] = "confirming"
    /\ payments' = [payments EXCEPT ![tx[r].target] = "paid"]
    /\ orders' = IF tx[r].seen # "pending" THEN orders
                 ELSE [orders EXCEPT ![OrderOf[tx[r].target]] =
                         [status |-> "confirmed", payment |-> "paid"]]
    /\ End(r, "done")
    /\ UNCHANGED <<stock, carts>>

ConfirmCommits(r) ==
    /\ phase[r] = "confirming"
    /\ payments' = [payments EXCEPT ![tx[r].target] = "paid"]
    /\ orders' = [orders EXCEPT ![OrderOf[tx[r].target]] =
                    [status |-> IF tx[r].seen = "pending" THEN "confirmed" ELSE @.status,
                     payment |-> "paid"]]
    /\ End(r, "done")
    /\ UNCHANGED <<stock, carts>>
-----------------------------------------------------------------------------
(* A transaction that does not reach its end.                              *)

\* The process or its connection dies: Postgres rolls the transaction back.
Crash(r) ==
    /\ r \in MayCrash
    /\ phase[r] \in Running
    /\ Rollback(r, "aborted")

\* Who holds the row this request waits for.
BlockedBy(r) ==
    IF AtLine(r) /\ ToLock(r) # {} /\ rowLock[NextRow(r)] # r
    THEN rowLock[NextRow(r)] ELSE NoOne

Waiting == {r \in Requests : BlockedBy(r) # NoOne}

\* On a cycle of waiting requests: the requests of S wait for one another.
Deadlocked(r) ==
    \E S \in SUBSET Waiting : r \in S /\ {BlockedBy(s) : s \in S} = S

\* deadlock_timeout: Postgres aborts one transaction of the cycle.
DeadlockAbort(r) == Deadlocked(r) /\ Rollback(r, "aborted")

Begin(r) ==
    \/ CheckoutStarts(r) \/ CheckoutRejected(r)
    \/ CancelStarts(r) \/ CancelNoop(r) \/ CancelRejected(r)
    \/ ShipStarts(r) \/ ShipRejected(r)
    \/ PayReads(r) \/ PayNoop(r) \/ PayRejected(r)
    \/ ConfirmReads(r) \/ ConfirmNoop(r)

Proceed(r) ==
    \/ LockRow(r) \/ ApplyLine(r) \/ LineShort(r)
    \/ CheckoutCommits(r) \/ CancelCommits(r) \/ ShipCommits(r)
    \/ PayCommits(r) \/ ConfirmReadsOrder(r) \/ ConfirmCommits(r)
    \/ DeadlockAbort(r)

\* Every request made has been answered.
AllEnded == (\A r \in Requests : phase[r] \notin Running) /\ UNCHANGED vars

Next == (\E r \in Requests : Begin(r) \/ Proceed(r) \/ Crash(r)) \/ AllEnded

Spec == Init /\ [][Next]_vars

\* Handlers run on and Postgres grants a free lock and breaks a deadlock; no
\* caller has to make a request and nothing has to crash.
FairSpec == Spec /\ \A r \in Requests : WF_vars(Proceed(r))
-----------------------------------------------------------------------------
(* What the operations promise about each other.                           *)

\* Units of variant v on the lines of order o.
UnitsOrdered(o, v) ==
    LET lines == LinesOf(o) IN
    SumFunction([i \in DOMAIN lines |-> IF lines[i].variant = v THEN lines[i].units ELSE 0])

OrderedBy(os, v) == SumFunction([o \in os |-> UnitsOrdered(o, v)])

RowsOf(v) == {row \in Rows : row[1] = v}
OnHand(table, v)   == SumFunction([row \in RowsOf(v) |-> table[row].quantity])
Reserved(table, v) == SumFunction([row \in RowsOf(v) |-> table[row].reserved])

WithStatus(statuses) == {o \in Orders : orders[o].status \in statuses}

\* The inventory rows never promise more than is on the shelf, whatever the
\* interleaving of checkouts, cancellations and shipments: no oversell.
StockWithinBounds ==
    \A row \in Rows : stock[row].reserved <= stock[row].quantity

\* What is reserved of a variant is what its live orders ordered, nothing
\* leaked and nothing released twice; what has left the shelf is what was
\* shipped (checkout, cancel_order and record_shipment against the order rows).
StockMatchesOrders ==
    \A v \in Variants :
        /\ Reserved(stock, v) = Reserved(InitialStock, v)
                                + OrderedBy(WithStatus(ReservedStatuses), v)
        /\ OnHand(stock, v) = OnHand(InitialStock, v)
                              - OrderedBy(WithStatus({"shipped"}), v)

\* A row a transaction has locked stays as it read it: what it will write
\* back differs from the committed row by its own lines alone, so it never
\* undoes what another transaction committed (the FOR UPDATE lock).
DraftsStayFresh ==
    \A r \in Requests : \A row \in Rows :
        rowLock[row] = r =>
            LET mine == draft[r][row]
                committed == stock[row]
            IN  /\ Op[r] \in {"checkout", "cancel"} =>
                      mine.quantity = committed.quantity
                /\ Op[r] = "checkout" => mine.reserved >= committed.reserved
                /\ Op[r] \in {"cancel", "ship"} =>
                      /\ mine.quantity <= committed.quantity
                      /\ mine.reserved <= committed.reserved

\* confirm_payment writes the payment and its order in one transaction: an
\* order is marked paid exactly when one of its payments is.
PaidTogether ==
    \A o \in Orders :
        orders[o].payment = "paid" <=>
            \E p \in Payments : OrderOf[p] = o /\ payments[p] = "paid"

\* checkout places the order and closes the cart in one transaction: a cart is
\* checked out exactly when an order was placed from it.
CartClosedByOrder ==
    \A c \in Carts :
        carts[c] = "checked_out" <=>
            \E o \in Orders : CartOf[o] = c /\ orders[o].status # "absent"

\* cancel_order's docstring: cancelling an already-cancelled order is a no-op
\* (no double-release).  At most one cancellation of an order releases stock.
NoDoubleRelease ==
    \A r, s \in Requests :
        /\ Op[r] = "cancel" /\ Op[s] = "cancel" /\ OrderOf[r] = OrderOf[s]
        /\ phase[r] = "done" /\ phase[s] = "done"
        => r = s

\* Every transaction that has begun ends, also when the lines of two orders
\* are locked in opposite orders: nobody waits for a row lock for ever.
EveryRequestEnds ==
    \A r \in Requests : phase[r] \in Running ~> phase[r] \in Ended
-----------------------------------------------------------------------------
(* The service as its callers see it: one step per operation.              *)

Ledger ==
    INSTANCE OrderLedger WITH
        PaymentOrder <- [p \in Payments |-> OrderOf[p]],
        PaymentRef   <- [p \in Payments |-> RefOf[p]]

\* Seen from the tables alone, each operation happens at its commit and in
\* one step: all of its lines or none, and on the tables as they then are.
AtomicOperations == Ledger!Spec
=============================================================================
