\* Attempts: twelve ticks of budget, two ticks to a second, a first backoff of two
\* ticks; Retry-After within the range of a duration, inside and beyond the budget.
\* Downloads: two transfers to one destination, bodies around a limit of two bytes.
SPECIFICATION RequestSpec
CONSTANTS
    Budget = 12
    Slack = 2
    Second = 2
    FirstRetryDelay = 2
    DurationLimit = 32
    DelaySeconds = {0, 1, 6, 9}
    Dates = {3, 12, 13}
    Transfers = {t1, t2}
    MaxBytes = 2
    Previous = Previous
    NoFile = NoFile
INVARIANTS
    RetryAfterHonoured
    BudgetDecides
    NoPartialFileLeft
PROPERTIES
    Returns
    AtomicFileSpec
CHECK_DEADLOCK FALSE
