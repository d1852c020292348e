SPECIFICATION FairSpec
CONSTANTS
    p1 = p1
    p2 = p2
    d1 = d1
    d2 = d2
    n1 = n1
    n2 = n2
    a = a
    b = b
    Paths = {p1, p2}
    Dirs = {d1, d2}
    Names = {n1, n2}
    PathOf <- McPathOf
    AuthManaged = {p2}
    Merging = {p2}
    Keys = {a, b}
    Spelled <- McSpelled
    Values <- McValues
    ValueOf <- McValueOf
    Omitted = Omitted
    Default = Default
    NoRole = NoRole
    Undeclared = Undeclared
    NoAmount = NoAmount
    FieldValues <- McFieldValues
    Depth <- McDepth
    Unwritten = {Unwritten}
    Specs <- McSpecs
    Found <- McFound
    MaxChanges = 2
    MaxFaults = 1
INVARIANTS
    TypeOK
    MemoryBoundsKeys
    ComparisonIsFair
PROPERTIES
    CleanStepConverges
    ResyncIsQuiet
    OnlyItsOwnRoles
    Settles
