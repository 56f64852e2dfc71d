SPECIFICATION LiveSpec
CONSTANTS
    i1 = i1
    i2 = i2
    i3 = i3
    Ids = {i1, i2}
    Users = {u1}
    Types = {t1}
    Confs = {k1}
    NoOwner = NoOwner
    NoSid = NoSid
    NoRecord = NoRecord
    NoPerms = NoPerms
    Reqs = {r1, r2}
    DeployModes = {"kubernetes"}
    SkipKafkaAdmin = FALSE
    MaxFaults = 1
    StartupEnsureDeployed = TRUE
    BatchSize = 1
    NameOf <- TwoDistinct
    MaxCrashes = 1
    ShareLevels = {}
PROPERTIES EventuallyServing MissingIsRestored
CHECK_DEADLOCK FALSE
