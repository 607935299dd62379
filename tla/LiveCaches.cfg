\* Two callers over and over, two ticks, a period of two ticks and a fallback
\* of one.
SPECIFICATION FairSpec
CONSTANTS
    Callers = {c1, c2}
    Nobody = Nobody
    RegistryTtl = 2
    FallbackTtl = 1
    MaxTime = 2
PROPERTIES
    AnswersAreRecent
    OneRefreshPerPeriod
    EveryCallReturns
