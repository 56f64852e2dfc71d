SPECIFICATION ProcessSpec
CONSTANTS
    Parts <- ThreeParts
    Clients <- MongoAndDocker
    Database <- Mongo
    Restores = TRUE
    MaxSignals = 2
    Ids = {i1, i2}
    Users = {u1, u2}
    Types = {t1}
    Confs = {k1}
    NoOwner = NoOwner
    NoSid = NoSid
    NoRecord = NoRecord
    NoPerms = NoPerms
    MaxMigrationFaults = 1
    GivenRights <- ReadRight
INVARIANTS LastErrorReported ErrorNeedsCause ClosedAtExit StampedBeforeRead NoEarlyExit Reconciled OwnersHaveRights
PROPERTIES KeepsContract RemovalReturns SignalEnds FailedStartEnds NothingTaken MigrationEnds
CHECK_DEADLOCK FALSE
