\* Two installations, one with two pages, a queue with room for a cycle's jobs and
\* no more, one worker and one delivery.
SPECIFICATION CalmSpec
CONSTANTS
    r1 = r1
    r2 = r2
    r3 = r3
    i1 = i1
    i2 = i2
    w1 = w1
    d1 = d1
    None = None
    Repos = {r1, r2, r3}
    Installs = {i1, i2}
    Home <- MCHome
    Initially <- MCInitially
    Skipped = {r3}
    PageSize = 1
    Capacity = 2
    Workers = {w1}
    Deliveries = {d1}
INVARIANTS TypeOK CycleReachesAll DeliveriesBeforeStop
PROPERTIES FifoSpec EveryRepositoryIsChecked ShutdownEnds
CHECK_DEADLOCK FALSE
