-------------------------------- MODULE MCDesk --------------------------------
(* Small instances of OrderDesk.                                           *)
EXTENDS OrderDesk

\* Overlapping requests about one order, and conversions of one quote.
Encounters ==
    {[r1 |-> "pay", r2 |-> "webhook", r3 |-> "cancel", r4 |-> "move"],
     [r1 |-> "pay", r2 |-> "webhook", r3 |-> "webhook", r4 |-> "ship"],
     [r1 |-> "pay", r2 |-> "webhook", r3 |-> "move", r4 |-> "move"],
     [r1 |-> "pay", r2 |-> "pay", r3 |-> "webhook", r4 |-> "webhook"],
     [r1 |-> "move", r2 |-> "move", r3 |-> "move", r4 |-> "cancel"],
     [r1 |-> "convert", r2 |-> "convert", r3 |-> "move", r4 |-> "checkout"],
     [r1 |-> "convert", r2 |-> "checkout", r3 |-> "pay", r4 |-> "cancel"],
     [r1 |-> "checkout", r2 |-> "pay", r3 |-> "pay", r4 |-> "list"],
     [r1 |-> "move", r2 |-> "move", r3 |-> "move", r4 |-> "view"],
     [r1 |-> "ship", r2 |-> "convert", r3 |-> "view", r4 |-> "summary"],
     [r1 |-> "ship", r2 |-> "convert", r3 |-> "invoice", r4 |-> "shipments"],
     [r1 |-> "edit order", r2 |-> "move", r3 |-> "view", r4 |-> "list"],
     [r1 |-> "edit order", r2 |-> "edit quote", r3 |-> "convert", r4 |-> "list"],
     [r1 |-> "edit order", r2 |-> "edit payment", r3 |-> "pay", r4 |-> "webhook"]}

\* A payment is confirmed while the customer cancels.
PaidWhileCancelled == {[r1 |-> "pay", r2 |-> "webhook", r3 |-> "cancel"]}

Sent == [quote |-> "sent"]
=============================================================================
