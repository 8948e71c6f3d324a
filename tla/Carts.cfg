\* A shopper on both cart APIs, who waits for answers or does not.
CONSTANTS
    Users = {"ann", "bob"}
    Starts = {"bob"}
    StartsWith = "box"
    MaxOverlap = 3
    Products = {"box", "variant"}
    Moq <- BoxMinimum
    FirstPrice <- NoVariantPrice
    MaxRepricing = 1
    Requests = {"r1", "r2", "r3", "r4"}
    Workloads <- OneShopper
    MaxRows = 6
    MaxFailures = 1
    None = None
SPECIFICATION Spec
INVARIANTS TypeOK NeverMoreThanAsked
PROPERTIES CartsKeepTheirPromise OrderedAsShown
CHECK_DEADLOCK FALSE
