CONSTANTS
    a = a
    b = b
    Payers = {a, b}
    AdaptersOf <- AnyAndMock
    ServersOf <- AnyAndMockServer
    None = None
    Invalid = Invalid
    NotAHeader = NotAHeader
    Thousand = 20
    MaxU64 = 20000
    MaxI64 = 10000
    Fees = {5, 21}
    MaxLines = 2
    Invoices <- ReadablesAndNot
    Templates <- AllTemplates
    Prices = {1, 2}
    MaxFeeSats = 1
    InitialBalance = 3
SPECIFICATION Spec
INVARIANTS TypeOK DecodeExact ChallengeRead HonestIsNoBreach SettledCoversOutflow PaidIsServed BalanceExact
PROPERTIES ContractKept
CHECK_DEADLOCK FALSE
