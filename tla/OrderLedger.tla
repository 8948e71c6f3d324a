------------------------------ MODULE OrderLedger ------------------------------
(***************************************************************************)
(* What the order service promises, with no transactions and no locks: an  *)
(* order is placed, cancelled, shipped, or paid in one step, over the      *)
(* tables as they are at that step.  OrderService implements it as long as *)
(* callers do not overlap requests on one cart or order.                   *)
(***************************************************************************)
EXTENDS InventoryRows, Sequences

CONSTANTS Rows, InitialStock, DefaultWarehouse, Carts, Lines, Orders, CartOf,
          Payments, PaymentOrder, PaymentRef

VARIABLES stock, carts, orders, payments

ledger == <<stock, carts, orders, payments>>

Live == {"pending", "paid", "confirmed"}

Init ==
    /\ stock = InitialStock
    /\ carts = [c \in Carts |-> "active"]
    /\ orders = [o \in Orders |-> [status |-> "absent", payment |-> "pending"]]
    /\ payments = [p \in Payments |-> "absent"]

\* The warehouses of a variant an operation may use: the pinned one or all.
Sites(v, pin) == {row[2] : row \in {x \in Rows : x[1] = v /\ pin \in {0, x[2]}}}

\* The row an operation on variant v uses when the rows are as in `table`.
Site(table, v, pin) ==
    <<v, MostAvailable([w \in Sites(v, pin) |-> Available(table[<<v, w>>])], Sites(v, pin))>>

\* The inventory after the lines have been handled one after the other in the
\* order `seq` gives; Op changes one row for one line.
After(lines, seq, pin, Change(_, _)) ==
    LET step[k \in 0 .. Len(seq)] ==
          IF k = 0 THEN stock
          ELSE LET table == step[k - 1]
                   v == lines[seq[k]].variant
               IN  IF Sites(v, pin) = {} THEN table
                   ELSE [table EXCEPT ![Site(table, v, pin)] =
                           Change(@, lines[seq[k]].units)]
    IN  step[Len(seq)]

\* The orders in which the lines may be handled: neither table is sorted.
Sequences(lines) ==
    {seq \in [DOMAIN lines -> DOMAIN lines] :
        \A i, j \in DOMAIN lines : seq[i] = seq[j] => i = j}

LinesOf(o) == Lines[CartOf[o]]

Place(o) ==
    /\ carts[CartOf[o]] = "active"
    /\ orders[o].status = "absent"
    /\ LinesOf(o) # <<>>
    /\ \A i \in DOMAIN LinesOf(o) :
         LinesOf(o)[i].units > 0 /\ Sites(LinesOf(o)[i].variant, DefaultWarehouse) # {}
    /\ \E seq \in Sequences(LinesOf(o)) :
         stock' = After(LinesOf(o), seq, DefaultWarehouse, Reserve)
    /\ \A row \in Rows : stock'[row].reserved <= stock'[row].quantity
    /\ orders' = [orders EXCEPT ![o].status = "pending"]
    /\ carts' = [carts EXCEPT ![CartOf[o]] = "checked_out"]
    /\ UNCHANGED payments

Cancel(o) ==
    /\ orders[o].status \in Live
    /\ \E seq \in Sequences(LinesOf(o)) : stock' = After(LinesOf(o), seq, 0, Release)
    /\ orders' = [orders EXCEPT ![o].status = "cancelled"]
    /\ UNCHANGED <<carts, payments>>

Ship(o) ==
    /\ orders[o].status \in Live
    /\ \E seq \in Sequences(LinesOf(o)) : stock' = After(LinesOf(o), seq, 0, Fulfill)
    /\ orders' = [orders EXCEPT ![o].status = "shipped"]
    /\ UNCHANGED <<carts, payments>>

RecordPayment(p) ==
    /\ orders[PaymentOrder[p]].status # "absent"
    /\ \A q \in Payments : PaymentRef[q] = PaymentRef[p] => payments[q] = "absent"
    /\ payments' = [payments EXCEPT ![p] = "pending"]
    /\ UNCHANGED <<stock, carts, orders>>

\* A payment moves its order from pending to confirmed and changes no other
\* status: what is cancelled stays cancelled, what is shipped stays shipped.
ConfirmPayment(p) ==
    /\ payments[p] = "pending"
    /\ payments' = [payments EXCEPT ![p] = "paid"]
    /\ orders' = [orders EXCEPT ![PaymentOrder[p]] =
                    [status |-> IF @.status = "pending" THEN "confirmed" ELSE @.status,
                     payment |-> "paid"]]
    /\ UNCHANGED <<stock, carts>>

Next ==
    \/ \E o \in Orders : Place(o) \/ Cancel(o) \/ Ship(o)
    \/ \E p \in Payments : RecordPayment(p) \/ ConfirmPayment(p)

Spec == Init /\ [][Next]_ledger
=============================================================================
