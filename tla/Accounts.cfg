\* Customers, staff and Cognito at once, on the rows of a new, a known and an
\* older user.
CONSTANTS
    People = {"sue", "ann", "bob", "eve"}
    Emails <- EmailsUsed
    Roles = {"admin", "customer"}
    Email <- EmailOf
    FirstUsers <- StaffAnnEve
    Requests = {"r1", "r2", "r3", "r4", "r5"}
    Workloads <- Occasions
    MaxRows = 6
    MaxFailures = 2
    None = None
SPECIFICATION Spec
INVARIANTS TypeOK DeactivatedStaysOut AddressesAreFound
CHECK_DEADLOCK FALSE
