CONSTANTS
    none = none
    alpha = alpha
    a = a
    b = b
    vm = vm
    Callers = {a, b}
    Clusters = {alpha}
    Guests = {vm}
    Begins <- OneCluster
    Ttl <- ShortLives
    MaxEntries = 1
    MaxNow = 2
    MaxChanges = 2
    MaxCalls = 3
SPECIFICATION LiveSpec
INVARIANTS
    TypeOK
    SingleFlight
    SleepersHaveFetcher
    ChangesShow
PROPERTIES
    HitsAreFresh
    EvictsTheOldest
    EveryCallReturns
CHECK_DEADLOCK FALSE
