\* Two producers, two workers, three jobs, a buffer of two: the buffer fills, both
\* workers hold a job, jobs wait behind each other, and Stop runs into every one
\* of their steps.
SPECIFICATION FairSpec
CONSTANTS
    p1 = p1
    p2 = p2
    w1 = w1
    w2 = w2
    j1 = j1
    j2 = j2
    j3 = j3
    Main = Main
    Nobody = Nobody
    Producers <- MCProducers
    Workers <- MCWorkers
    Jobs <- MCJobs
    Capacity = 2
INVARIANTS
    TypeOK
    NoSendOnClosed
    JobsConserved
    WorkersStayOn
    StopWaitsForWorkers
    NobodyWaitsInVain
PROPERTIES
    EnqueueReturns
    LedgerSpec
    FifoSpec
\* The program ends: when Stop has returned nothing is left to do.
CHECK_DEADLOCK FALSE
