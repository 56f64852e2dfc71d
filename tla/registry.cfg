SPECIFICATION Spec
CONSTANTS
    i1 = i1
    i2 = i2
    i3 = i3
    Ids = {i1}
    Users = {u1, u2}
    Types = {t1, t2}
    Confs = {k1}
    NoOwner = NoOwner
    NoSid = NoSid
    NoRecord = NoRecord
    NoPerms = NoPerms
    Reqs = {r1, r2, r3}
    DeployModes = {"kubernetes"}
    SkipKafkaAdmin = TRUE
    MaxFaults = 1
    StartupEnsureDeployed = FALSE
    BatchSize = 1
    NameOf <- OneId
    MaxCrashes = 1
    ShareLevels <- ReadOrAll
SYMMETRY ReqSymmetry
INVARIANTS PermImpliesRecord AnswersHold Inv
PROPERTIES RegistrySpec
CHECK_DEADLOCK FALSE
