CONSTANTS
    r1 = r1
    r2 = r2
    r3 = r3
    page = page
    other = other
    example = example
    i1 = i1
    i2 = i2
    Saved = saved
    None = None
    MaxU64 = 6
    MaxId = 4
    SecondsPerHour = 1
    SecondsPerDay = 1
    KeepHours = 0
    KeepDays = 0
    Domains = {example}
    Requests = {r1, r2, r3}
    Urls = {page, other}
    UrlOf <- ToBoth
    HostOf <- OnExample
    Invoices = {i1, i2}
    Offers <- AnyInvoice
    Price <- OneAndTwo
    MaxFeeSats = 0
    FeeLimit = TRUE
    GlobalBudget <- NoLimits
    DomainBudgets <- NoDomains
    Honest = TRUE
    Reports = {}
    Overlap = FALSE
    Detached = TRUE
SPECIFICATION Spec
INVARIANT TokenKept
CHECK_DEADLOCK FALSE
