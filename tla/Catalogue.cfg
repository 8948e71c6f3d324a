SPECIFICATION Spec
CONSTANTS
    p1 = p1
    p2 = p2
    p3 = p3
    b1 = b1
    b2 = b2
    i1 = i1
    i2 = i2
    r1 = r1
    r2 = r2
    None = None
    Products = {p1, p2, p3}
    Boxes = {b1, b2}
    Items = {i1, i2}
    Requests = {r1, r2}
    Tasks <- TheTasks
    FirstRows <- TheRows
    Needs <- TheNeeds
    Categories <- TheCategories
    Statuses = {"ACTIVE", "active", "draft"}
    ParentOf <- TheParents
    KeywordIndex <- TheIndex
    MinOrder <- TheMinOrder
    Customizable = {p1}
    TopK = 2
    SqlLimit = 1
    BoxLimit = 1
    MinResults = 1
    Imported = {p1}
    Prices = {100, 300}
    MaxClock = 2
    MaxFailures = 1
INVARIANTS TypeOK AuditReplays SearchKeepsToTheShelf
PROPERTIES CustomWordingKept EveryActiveProductIsEmbedded
CHECK_DEADLOCK FALSE
