SPECIFICATION FairSpec
CONSTANTS
    f1 = f1
    f2 = f2
    Files = {f1}
    FileLen <- LenThree
    Sessions = {s1, s2}
    Main = Main
    None = None
    Modulus = 8
    MaxRetry = 1
    MaxRepeat = 0
    MaxTransfers = 1
    MaxDups = 0
INVARIANTS TypeOK StopAndWait OverMeansDelivered
PROPERTIES ImplementsTransfer TransferReturns SessionsEnd
CHECK_DEADLOCK FALSE
