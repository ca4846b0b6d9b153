CONSTANTS
    StartTimes <- MCStartTimes
    Clients = {"none", "tag", "both", "any", "IMF-fixdate", "RFC850", "asctime"}
    MaxSize = 2
    zeroCopyThreshold_ = 2
    MaxTicks = 1
    MaxChanges = 3
    Replies <- MCReplies
    RequestPieces = 2
SPECIFICATION FairSpec
INVARIANTS
    DescriptorsReturned
    Delimited
    RevalidationIsRight
PROPERTIES
    RequestsEnd
CHECK_DEADLOCK FALSE
