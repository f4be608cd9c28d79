CONSTANTS
    a = a
    b = b
    example = example
    None = None
    MaxU64 = 6
    MaxId = 3
    SecondsPerHour = 1
    SecondsPerDay = 2
    KeepHours = 1
    KeepDays = 0
    Domains = {example}
    Callers = {a, b}
    Threaded = TRUE
    GlobalBudget <- TotalOnly
    DomainBudgets <- DomainTotal
    Amounts = {1, 2}
    MaxFees = {2}
    Reports = {1, 6}
    MaxTime = 0
SYMMETRY CallerSymmetry
SPECIFICATION Spec
INVARIANTS TypeOK LiveReservations LedgersExact TotalCap
PROPERTY WithinLimit
