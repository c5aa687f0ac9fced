\* One connection of a BU in any mode, with up to two SASL round trips, against
\* small Metadata responses of both clusters.
SPECIFICATION FairSpec
CONSTANTS
    Modes = {"active_passive", "load_balance", "single"}
    Responses <- AllResponses
    MaxRounds = 2
INVARIANTS TypeOK MergeFaithful
PROPERTIES HandlerEnds AnsweredOrClosed
CHECK_DEADLOCK FALSE
