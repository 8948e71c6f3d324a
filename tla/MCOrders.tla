------------------------------- MODULE MCOrders -------------------------------
(***************************************************************************)
(* Small instances of OrderService.  Requests are strings, so that Op,     *)
(* OrderOf and the rest can be written as literal functions.               *)
(***************************************************************************)
EXTENDS OrderService, TLC

\* Concurrent: two carts over the same two variants, one of them with too
\* little stock for both, v1 in two warehouses; the first order is cancelled
\* while it is shipped and paid.
ConcurrentStock ==
    (<<"v1", 1>> :> [quantity |-> 1, reserved |-> 0]) @@
    (<<"v1", 2>> :> [quantity |-> 2, reserved |-> 0]) @@
    (<<"v2", 1>> :> [quantity |-> 2, reserved |-> 0])
ConcurrentRows == DOMAIN ConcurrentStock
ConcurrentLines ==
    [c1 |-> <<[variant |-> "v1", units |-> 1], [variant |-> "v2", units |-> 1]>>,
     c2 |-> <<[variant |-> "v1", units |-> 2], [variant |-> "v2", units |-> 2]>>]
ConcurrentOp ==
    [o1 |-> "checkout", o2 |-> "checkout", x1 |-> "cancel", s1 |-> "ship",
     p1 |-> "pay", w1 |-> "confirm"]
ConcurrentOrderOf ==
    [o1 |-> "o1", o2 |-> "o2", x1 |-> "o1", s1 |-> "o1", p1 |-> "o1", w1 |-> "o1"]
ConcurrentCartOf == [o1 |-> "c1", o2 |-> "c2"]
ConcurrentRefOf == [r \in DOMAIN ConcurrentOp |-> "ref"]

\* Orderly callers: requests overlap only on different carts and orders.  Cart
\* c1 is checked out twice and competes with c2 for the last unit of v2; its
\* order o1 is cancelled twice, shipped, and its payment is recorded and
\* notified twice.
\* Every variant has one warehouse, the one default_warehouse_id pins checkout
\* to.
SerialStock ==
    (<<"v1", 1>> :> [quantity |-> 3, reserved |-> 0]) @@
    (<<"v2", 1>> :> [quantity |-> 2, reserved |-> 1])
SerialRows == DOMAIN SerialStock
SerialLines ==
    [c1 |-> <<[variant |-> "v1", units |-> 2], [variant |-> "v2", units |-> 1]>>,
     c2 |-> <<[variant |-> "v2", units |-> 1]>>]
SerialOp ==
    [o1 |-> "checkout", o2 |-> "checkout", o3 |-> "checkout",
     x1 |-> "cancel", x2 |-> "cancel", s1 |-> "ship",
     p1 |-> "pay", p2 |-> "pay", w1 |-> "confirm", w2 |-> "confirm"]
SerialOrderOf ==
    [r \in DOMAIN SerialOp |-> IF SerialOp[r] = "checkout" THEN r ELSE "o1"]
SerialCartOf == [o1 |-> "c1", o2 |-> "c2", o3 |-> "c1"]
SerialRefOf == [r \in DOMAIN SerialOp |-> "ref"]

\* Double cancellation: two cancellations of one order at the same time.
DoubleCancelOp == [o1 |-> "checkout", x1 |-> "cancel", x2 |-> "cancel"]
DoubleCancelOrderOf == [r \in DOMAIN DoubleCancelOp |-> "o1"]
DoubleCancelCartOf == [o1 |-> "c1"]
DoubleCancelLines == [c1 |-> <<[variant |-> "v1", units |-> 1]>>]
DoubleCancelRefOf == [r \in DOMAIN DoubleCancelOp |-> "ref"]
DoubleCancelStock == <<"v1", 1>> :> [quantity |-> 3, reserved |-> 0]
DoubleCancelRows == DOMAIN DoubleCancelStock

=============================================================================
