---------------------------- MODULE InventoryRows ----------------------------
(***************************************************************************)
(* The arithmetic of one inventory row, as app/services/inventory_service  *)
(* computes it, and the row lock_for_variant hands back out of the rows it *)
(* has locked.  A row is its on-hand quantity and the part of it reserved  *)
(* for orders; SQL NULL counts as zero, as in the code.                    *)
(***************************************************************************)
EXTENDS Integers

StockRow == [quantity : Nat, reserved : Nat]

\* Sellable units: on hand minus reserved.
Available(row) == row.quantity - row.reserved

\* Mutant of CanReserve: what other orders have reserved is forgotten.
CanReserveOnHand(row, units) == units > 0 /\ units <= row.quantity

\* reserve() raises ValueError on a non-positive quantity and
\* InsufficientStockError when too little is available.
CanReserve(row, units) == units > 0 /\ units <= Available(row)

Reserve(row, units) == [row EXCEPT !.reserved = @ + units]

\* max(0, a - b): both release and fulfill clamp at zero.
Clamped(a, b) == IF b <= a THEN a - b ELSE 0

\* Mutant of Release: no clamp at zero.
ReleaseUnclamped(row, units) == [row EXCEPT !.reserved = @ - units]

Release(row, units) == [row EXCEPT !.reserved = Clamped(@, units)]

Fulfill(row, units) ==
    [row EXCEPT !.quantity = Clamped(@, units), !.reserved = Clamped(@, units)]

\* max(rows, key=_available) over rows sorted by warehouse id: the lowest
\* warehouse among those with the most available units.
MostAvailable(avail, warehouses) ==
    CHOOSE w \in warehouses :
        \A x \in warehouses :
            avail[x] < avail[w] \/ (avail[x] = avail[w] /\ w <= x)
=============================================================================
