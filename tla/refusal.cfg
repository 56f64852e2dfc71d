SPECIFICATION Spec
CONSTANTS
    i1 = i1
    i2 = i2
    i3 = i3
    Ids = {i1}
    Users = {u1, u2}
    Types = {t1}
    Confs = {k1}
    NoOwner = NoOwner
    NoSid = NoSid
    NoRecord = NoRecord
    NoPerms = NoPerms
    Reqs = {r1, r2}
    DeployModes = {"docker"}
    SkipKafkaAdmin = FALSE
    MaxFaults = 0
    StartupEnsureDeployed = TRUE
    BatchSize = 1
    NameOf <- OneId
    MaxCrashes = 0
    ShareLevels <- ReadOnly
SYMMETRY ReqSymmetry
PROPERTIES RefusalChangesNothing
CHECK_DEADLOCK FALSE
