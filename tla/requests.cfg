SPECIFICATION RequestsSpec
CONSTANTS
    ConfigNames <- TwoConfigNames
    Values <- SomeValues
    KindOf <- KindOfValue
    AsPairs <- PairsOf
    Null <- NullValue
    ImportTypes <- SomeTypes
    MaxConfigs = 2
    MaxWrites = 2
    NoDocument = NoDocument
    Ids <- ThreeIds
    Names <- TwoNames
    Generated <- LastGenerated
    InitialNames <- SomeNames
    Limits <- OneAll
    MaxChanges = 2
    NoId <- Zero
INVARIANTS ConfigComplete NothingSkipped NothingTwice ListedReadable TotalAgrees  MissesShow
PROPERTIES RestoredAsAccepted PutBackKeeps
CHECK_DEADLOCK FALSE
