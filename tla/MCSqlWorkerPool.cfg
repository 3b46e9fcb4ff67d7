SPECIFICATION FairSpec
CONSTANTS
    t1 = t1
    t2 = t2
    empty = empty
    query = query
    NoOp = NoOp
    Op = {t1, t2, empty, query}
    Transaction = {t1, t2, empty}
    Direct = {t2}
    Statements <- Sizes
    Async = {w1}
    Synch = {d1}
    QueueCapacity = 2
    MaxLosses = 1
INVARIANTS
    NoOpenTransaction
    OrderKept
    AsyncInOrder
PROPERTIES
    ImplementsAtomicCommit
    EveryOperationEnds
