SPECIFICATION Spec
CONSTANTS
    i1 = i1
    i2 = i2
    i3 = i3
    Ids = {i1}
    Users = {u1}
    Types = {t1}
    Confs = {k1}
    NoOwner = NoOwner
    NoSid = NoSid
    NoRecord = NoRecord
    NoPerms = NoPerms
    Reqs = {r1, r2, r3}
    DeployModes = {"kubernetes"}
    SkipKafkaAdmin = FALSE
    MaxFaults = 0
    StartupEnsureDeployed = TRUE
    BatchSize = 1
    NameOf <- OneId
    MaxCrashes = 0
    ShareLevels = {}
SYMMETRY ReqSymmetry
PROPERTIES UpdateNeedsDocument
CHECK_DEADLOCK FALSE
