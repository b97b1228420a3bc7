\* Stop against the documented drain.
SPECIFICATION Spec
CONSTANTS
    p1 = p1
    p2 = p2
    w1 = w1
    w2 = w2
    j1 = j1
    j2 = j2
    j3 = j3
    Main = Main
    Nobody = Nobody
    Producers <- MCProducers
    Workers <- MCWorkers
    Jobs <- MCJobs
    Capacity = 1
INVARIANT StopDrains
CHECK_DEADLOCK FALSE
