-------------------------------- MODULE Baskets --------------------------------
(***************************************************************************)
(* What a cart promises a shopper: a basket of quantities that changes by  *)
(* exactly what was asked, is emptied by placing the order and is ordered  *)
(* once.  Carts implements it for the shoppers who wait for each answer.   *)
(***************************************************************************)
EXTENDS Integers, Sequences

CONSTANTS Users, Products, Moq, Quantities

VARIABLES
    basket,     \* user |-> product |-> quantity
    placed,     \* user |-> the baskets ordered
    changes     \* user |-> kind of request |-> how many have had their effect

books == <<basket, placed, changes>>

Kinds == {"add", "update", "remove", "clear", "checkout"}

Empty == [p \in Products |-> 0]

Init ==
    /\ basket \in [Users -> [Products -> Nat]]
    /\ placed = [u \in Users |-> <<>>]
    /\ changes = [u \in Users |-> [k \in Kinds |-> 0]]

Becomes(u, b) == basket' = [basket EXCEPT ![u] = b]

Add(u, p, n) ==
    n >= Moq[p] /\ Becomes(u, [basket[u] EXCEPT ![p] = @ + n]) /\ UNCHANGED placed

SetQuantity(u, p, n) ==
    basket[u][p] > 0 /\ Becomes(u, [basket[u] EXCEPT ![p] = n]) /\ UNCHANGED placed

Remove(u, p) ==
    basket[u][p] > 0 /\ Becomes(u, [basket[u] EXCEPT ![p] = 0]) /\ UNCHANGED placed

Clear(u) == Becomes(u, Empty) /\ UNCHANGED placed

PlaceOrder(u) ==
    /\ basket[u] # Empty
    /\ Becomes(u, Empty)
    /\ placed' = [placed EXCEPT ![u] = Append(@, basket[u])]

One(k, u, p, n) ==
    \/ k = "add" /\ Add(u, p, n)
    \/ k = "update" /\ SetQuantity(u, p, n)
    \/ k = "remove" /\ Remove(u, p)
    \/ k = "clear" /\ Clear(u)
    \/ k = "checkout" /\ PlaceOrder(u)

\* Each request that has its effect has one of these.
Next ==
    /\ changes' # changes
    /\ \E u \in Users, k \in Kinds :
         /\ changes' = [changes EXCEPT ![u][k] = @ + 1]
         /\ \E p \in Products, n \in Quantities : One(k, u, p, n)

Spec == Init /\ [][Next]_books
=============================================================================
