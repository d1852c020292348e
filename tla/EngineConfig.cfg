SPECIFICATION FairSpec
CONSTANTS
    e1 = e1
    e2 = e2
    m1 = m1
    m2 = m2
    s1 = s1
    Entries = {e1, e2}
    Mounts = {m1}
    Secrets = {s1}
    MountOf <- OneMount
    SecretOf <- OneSecret
    NoRef = NoRef
    Data = {d1}
    Values = {v1, v2}
    Missing = Missing
    Unread = Unread
    Undeclared = Undeclared
    NoRecord = NoRecord
    NoConfig = NoConfig
    NoSecret = NoSecret
    Corrupt = Corrupt
    MaxUUID = 2
    MaxChanges = 3
    MaxFaults = 1
INVARIANTS
    TypeOK
    RecordIsTrue
    RewriteStaysOwed
    OneSnapshot
PROPERTIES
    RewritesAreExcused
    WritesAreCheckpointed
    DeliversButForUnsaved
    Settles
