CONSTANTS
    Goroutines = {g1, g2}
    Threads = {t1, t2}
    None = None
    MaxStrings = 3
SPECIFICATION Spec
INVARIANT StringsFreedOnce
CHECK_DEADLOCK FALSE
