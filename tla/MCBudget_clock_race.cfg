CONSTANTS
    a = a
    b = b
    example = example
    None = None
    MaxU64 = 6
    MaxId = 3
    SecondsPerHour = 1
    SecondsPerDay = 2
    KeepHours = 1
    KeepDays = 0
    Domains = {example}
    Callers = {a, b}
    Threaded = TRUE
    GlobalBudget <- HourlyOnly
    DomainBudgets <- NoDomains
    Amounts = {2}
    MaxFees = {0}
    Reports = {}
    MaxTime = 1
SYMMETRY CallerSymmetry
SPECIFICATION Spec
INVARIANT HourlyCap
