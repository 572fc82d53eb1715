SPECIFICATION Spec
CONSTANTS
    d1 = d1
    Hap = hap
    Threads = {hap, worker}
    Nobody = Nobody
    Records <- MCRecords
    Values = {v1, v2}
    NoValue = NoValue
    MaxRepoSize = 1
    MaxElements = 1
    HeapSize = 2
    MaxWork = 3
INVARIANT PendingDataPersisted
