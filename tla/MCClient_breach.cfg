CONSTANTS
    r1 = r1
    r2 = r2
    r3 = r3
    page = page
    other = other
    example = example
    i1 = i1
    i2 = i2
    Saved = saved
    None = None
    MaxU64 = 6
    MaxId = 4
    SecondsPerHour = 1
    SecondsPerDay = 1
    KeepHours = 0
    KeepDays = 0
    Domains = {example}
    Requests = {r1, r2}
    Urls = {page}
    UrlOf <- ToPage
    HostOf <- OnExample
    Invoices = {i1, i2}
    Offers <- AnyInvoice
    Price <- OneAndTwo
    MaxFeeSats = 1
    FeeLimit = TRUE
    GlobalBudget <- NoLimits
    DomainBudgets <- NoDomains
    Honest = FALSE
    Reports = {0, 6}
    Overlap = TRUE
    Detached = TRUE
SPECIFICATION FairSpec
INVARIANTS TypeOK ReceiptsMatchLedger
PROPERTIES NoPaymentAfterBreach Ends ClaimResolves
CHECK_DEADLOCK FALSE
