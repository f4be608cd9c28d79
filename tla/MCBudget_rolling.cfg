CONSTANTS
    a = a
    b = b
    example = example
    None = None
    MaxU64 = 6
    MaxId = 3
    SecondsPerHour = 2
    SecondsPerDay = 4
    KeepHours = 1
    KeepDays = 0
    Domains = {example}
    Callers = {a}
    Threaded = FALSE
    GlobalBudget <- HourlyOnly
    DomainBudgets <- NoDomains
    Amounts = {2}
    MaxFees = {0}
    Reports = {}
    MaxTime = 3
SPECIFICATION Spec
INVARIANT RollingHourlyCap
