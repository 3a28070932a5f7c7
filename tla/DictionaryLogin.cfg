SPECIFICATION Spec
CONSTANTS
    Names = {n1, n2}
    Passwords = {"7", "07", "8"}
    AsStored <- Stored
    w1 = w1
    w2 = w2
    Words = {w1, w2}
    File <- ThreeLines
    Callers = {c1, c2}
    None = None
    MaxCrashes = 2
    MaxHistory = 1
INVARIANT OneLogin
