CONSTANTS
    Batches <- AllBatches
    RequestMax = 3
SPECIFICATION FairSpec
CHECK_DEADLOCK FALSE
INVARIANTS OnePending FetchesAnswered CountIsOfItsCommand
PROPERTY RequestEnds
