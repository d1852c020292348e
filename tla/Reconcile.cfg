SPECIFICATION FairSpec
CONSTANTS
    Plugins = {"foo"}
    Versions <- UpgradeVersions
    Numbers <- McNumbers
    NumberOf <- McNumberOf
    Reported <- McReported
    Mounts = {"m"}
    Pods = {p1, p2}
    Contents = {b1, b2}
    Options <- McOptions
    Descriptions <- McDescriptions
    OptionKeys <- McOptionKeys
    OptionValues <- McOptionValues
    ManagedBy = "managed-by"
    Manager = "manager"
    Blank = ""
    Specs <- UpgradeSpecs
    Undeclared = Undeclared
    NoSpec = NoSpec
    NoEntry = NoEntry
    NoFile = NoFile
    NoMount = NoMount
    Unregistered = Unregistered
    Torn = Torn
    MaxChanges = 2
    MaxFaults = 1
INVARIANTS
    TypeOK
    StaleIsPending
    TuneIsFaithful
PROPERTIES
    BinariesFirst
    CleanPassConverges
    ConvergedIsLeftAlone
    Settles
