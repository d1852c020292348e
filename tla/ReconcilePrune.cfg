SPECIFICATION Spec
CONSTANTS
    Plugins = {"foo"}
    Versions <- McVersions
    Numbers <- McNumbers
    NumberOf <- McNumberOf
    Reported <- McReported
    Mounts = {"m", "n"}
    Pods = {p1, p2}
    Contents = {b1}
    Options <- McOptions
    Descriptions <- McDescriptions
    OptionKeys <- McOptionKeys
    OptionValues <- McOptionValues
    ManagedBy = "managed-by"
    Manager = "manager"
    Blank = ""
    Specs <- TwoMountSpecs
    Undeclared = Undeclared
    NoSpec = NoSpec
    NoEntry = NoEntry
    NoFile = NoFile
    NoMount = NoMount
    Unregistered = Unregistered
    Torn = Torn
    MaxChanges = 3
    MaxFaults = 1
PROPERTIES
    NeverPrunesDesired
    ForeignMountsStay
