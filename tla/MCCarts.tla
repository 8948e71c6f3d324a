-------------------------------- MODULE MCCarts --------------------------------
(* Small instances of Carts.                                               *)
EXTENDS Carts

Asks(u, api, op, p, q) == [user |-> u, api |-> api, op |-> op, product |-> p, qty |-> q]

\* What ann asks, in any order; bob's cart stands by.
OneShopper ==
    {[r1 |-> Asks("ann", "storefront", "add", "box", 2),
      r2 |-> Asks("ann", "app", "update", "box", 2),
      r3 |-> Asks("ann", "storefront", "clear", "box", 1),
      r4 |-> Asks("ann", "storefront", "checkout", "box", 1)],
     [r1 |-> Asks("ann", "storefront", "add", "box", 2),
      r2 |-> Asks("ann", "app", "add", "variant", 1),
      r3 |-> Asks("ann", "app", "remove", "box", 1),
      r4 |-> Asks("ann", "app", "checkout", "box", 1)],
     [r1 |-> Asks("ann", "storefront", "add", "box", 3),
      r2 |-> Asks("ann", "storefront", "add", "box", 1),
      r3 |-> Asks("ann", "app", "view", "box", 1),
      r4 |-> Asks("ann", "storefront", "update", "box", 1)],
     [r1 |-> Asks("ann", "app", "add", "variant", 1),
      r2 |-> Asks("ann", "app", "add", "variant", 2),
      r3 |-> Asks("ann", "app", "clear", "box", 1),
      r4 |-> Asks("ann", "storefront", "remove", "box", 1)]}

BoxMinimum == [box |-> 2, variant |-> 0]
NoVariantPrice == [box |-> 1, variant |-> 0]
=============================================================================
