\* One connection, two request handlers, the health check and the cleanup.
SPECIFICATION FairSpec
CONSTANTS
    Clients = {c1, c2}
    MaxSize = 1
PROPERTIES GetReturns
