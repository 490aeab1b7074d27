CONSTANTS
    UnitPrices <- Price
    BillingCalls = {c1, c2, c3}
    MaxUsage = 1
SPECIFICATION InvoiceSpec
PROPERTY
    FinalizedIsFinal
CHECK_DEADLOCK FALSE
