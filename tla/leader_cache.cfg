\* One bootstrap address (the keys of the cache do not interact) that two
\* reloads may remove and add, one handler in Route and two leadership changes;
\* in version 1 the response is refused, in version 2 the partition asked for
\* has an error.
SPECIFICATION FairSpec
CONSTANTS
    Cluster = {"b1"}
    Routes = {r1}
    MaxVersion = 2
    Leaderless = {2}
    Garbled = {1}
    Secured = {"b1"}
    Configs <- AllConfigs
    MaxReloads = 2
INVARIANTS TypeOK NoLeakedLoop RefreshersMatchConfig
PROPERTIES CacheConverges
