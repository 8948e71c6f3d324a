\* Four requests of customers, staff and the payment gateway at once.
CONSTANTS
    Requests = {"r1", "r2", "r3", "r4"}
    Tasks <- Encounters
    Orders = {"order"}
    Quotes = {"quote"}
    QuoteStatus <- Sent
    References = {"ref"}
    MaxFailures = 1
    None = None
SPECIFICATION Spec
INVARIANTS TypeOK PaidOrdersShowPaid StaffStatusesAreOnTheTimeline OneOrderPerQuote ToldWhatHappened
CHECK_DEADLOCK FALSE
