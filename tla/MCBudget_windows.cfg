CONSTANTS
    a = a
    b = b
    example = example
    None = None
    MaxU64 = 6
    MaxId = 3
    SecondsPerHour = 1
    SecondsPerDay = 2
    KeepHours = 1
    KeepDays = 0
    Domains = {example}
    Callers = {a, b}
    Threaded = FALSE
    GlobalBudget <- WindowLimits
    DomainBudgets <- DomainWindows
    Amounts = {1, 2}
    MaxFees = {1}
    Reports = {1}
    MaxTime = 2
SYMMETRY CallerSymmetry
SPECIFICATION Spec
INVARIANTS LedgersExact NoOverflow HourlyCap DailyCap
