\* A pool of two connections shared by two request handlers, the health
\* check and the idle cleanup.
SPECIFICATION FairSpec
CONSTANTS
    Clients = {c1, c2}
    MaxSize = 2
INVARIANTS TypeOK SlotsAccounted NeverStuck
PROPERTIES PutReturns ImplementsBoundedPool
