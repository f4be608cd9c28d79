CONSTANTS
    Processes = {p1, p2}
    Callers = {c1, c2}
    Urls = {u1, u2}
    Tokens = {t1, t2}
    None = None
    Ttls = {None, 1, 2}
    MaxI64 = 2
    MaxTime = 1
SYMMETRY Symmetric
VIEW Unobserved
SPECIFICATION Spec
INVARIANTS TypeOK SchemaInPlace
PROPERTIES FreshRowsKept ServesLastToken
CHECK_DEADLOCK FALSE
