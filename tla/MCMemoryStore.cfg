CONSTANTS
    Urls = {u1, u2, u3}
    Tokens = {t1, t2}
    None = None
    Capacity = 2
    MaxPuts = 5
SYMMETRY UrlsAndTokens
SPECIFICATION Spec
INVARIANTS TypeOK OrderListsKeys WithinCapacity
PROPERTIES OldestOut ServesLastToken
CHECK_DEADLOCK FALSE
