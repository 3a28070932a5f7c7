SPECIFICATION Spec
CONSTANTS
    f1 = f1
    f2 = f2
    Files = {f1, f2}
    FileLen <- LenTwoFiles
    Sessions = {s1, s2}
    Main = Main
    None = None
    Modulus = 8
    MaxRetry = 1
    MaxRepeat = 0
    MaxTransfers = 2
    MaxDups = 0
CHECK_DEADLOCK FALSE
INVARIANTS FileIntact
