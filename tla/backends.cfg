SPECIFICATION HistorySpec
CONSTANTS
    i1 = i1
    i2 = i2
    i3 = i3
    Ids = {i1, i2}
    Users = {u1}
    Types = {t1}
    Confs = {k1, k2}
    NoOwner = NoOwner
    NoSid = NoSid
    NoRecord = NoRecord
    NoPerms = NoPerms
    Reqs = {r1, r2, r3}
    DeployModes = {"docker", "kubernetes", "rancher1", "rancher2"}
    SkipKafkaAdmin = FALSE
    MaxFaults = 1
    StartupEnsureDeployed = TRUE
    BatchSize = 1
    NameOf <- TwoDistinct
    MaxCrashes = 1
    ShareLevels = {}
SYMMETRY ReqSymmetry
INVARIANTS TypeOK TopicPresent AllOrNothing OverlapsSerialized HistoryInv
PROPERTIES TopicGoesLast StartupRestores RestorationNeedsNoRestart
CHECK_DEADLOCK FALSE
