SPECIFICATION FairSpec
CONSTANTS
    f1 = f1
    f2 = f2
    Files = {f1}
    FileLen <- LenWrap
    Sessions = {s1}
    Main = Main
    None = None
    Modulus = 3
    MaxRetry = 1
    MaxRepeat = 0
    MaxTransfers = 1
    MaxDups = 1
CHECK_DEADLOCK FALSE
PROPERTY AckedBlockAdvances
