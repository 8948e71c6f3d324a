CONSTANTS
    Changes = {"placed", "confirmed"}
    Invocations = {"i1", "i2"}
    BatchSize = 2
    MaxReceives = 3
    Timeout = 15
    SendTimes = {1, 10}
SPECIFICATION FairQueueSpec
INVARIANTS QueueTypeOK DeletedWasSent CopiesAreBounded
PROPERTIES EveryMessageSettles
