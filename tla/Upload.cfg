SPECIFICATION FairSpec
CONSTANTS
    f1 = f1
    f2 = f2
    Files = {f1, f2}
    Multiples = {f2}
    FileLen <- LenTwo
    Sessions = {s1, s2}
    Main = Main
    None = None
    Modulus = 8
    MaxRetry = 1
    MaxRepeat = 0
    MaxTransfers = 1
    MaxDups = 0
CHECK_DEADLOCK FALSE
INVARIANTS TypeOK SessionIntact OkMeansReceived StoredUnlessShared
PROPERTIES ImplementsTransfer UploadReturns SessionsEnd
