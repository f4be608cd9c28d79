CONSTANTS
    r1 = r1
    r2 = r2
    r3 = r3
    page = page
    other = other
    example = example
    i1 = i1
    i2 = i2
    Saved = saved
    None = None
    MaxU64 = 6
    MaxId = 4
    SecondsPerHour = 1
    SecondsPerDay = 1
    KeepHours = 0
    KeepDays = 0
    Domains = {example}
    Requests = {r1, r2, r3}
    Urls = {page}
    UrlOf <- ToPage
    HostOf <- OnExample
    Invoices = {i1, i2}
    Offers <- AnyInvoice
    Price <- OneAndTwo
    MaxFeeSats = 1
    FeeLimit = TRUE
    GlobalBudget <- TotalOfThree
    DomainBudgets <- DomainOfThree
    Honest = TRUE
    Reports = {}
    Overlap = TRUE
    Detached = TRUE
SYMMETRY RequestSymmetry
SPECIFICATION Spec
INVARIANTS PaidOnce FrameIsLive
PROPERTY OutflowWithinLimit
CHECK_DEADLOCK FALSE
