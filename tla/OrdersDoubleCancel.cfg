CONSTANTS
    Variants = {"v1"}
    Warehouses = {1}
    Rows <- DoubleCancelRows
    InitialStock <- DoubleCancelStock
    DefaultWarehouse = 0
    Carts = {"c1"}
    Lines <- DoubleCancelLines
    Requests = {"o1", "x1", "x2"}
    Op <- DoubleCancelOp
    OrderOf <- DoubleCancelOrderOf
    CartOf <- DoubleCancelCartOf
    References = {"ref"}
    RefOf <- DoubleCancelRefOf
    MayCrash = {}
    OrderlyCallers = FALSE
    NoOne = "none"
SPECIFICATION Spec
INVARIANTS NoDoubleRelease
