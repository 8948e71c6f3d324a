\* A payment is confirmed while the customer cancels the order.
CONSTANTS
    Requests = {"r1", "r2", "r3"}
    Tasks <- PaidWhileCancelled
    Orders = {"order"}
    Quotes = {"quote"}
    QuoteStatus <- Sent
    References = {"ref"}
    MaxFailures = 0
    None = None
SPECIFICATION Spec
PROPERTIES PaidStaysPaid
CHECK_DEADLOCK FALSE
