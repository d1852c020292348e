SPECIFICATION Spec
CONSTANTS
    e1 = e1
    e2 = e2
    m1 = m1
    m2 = m2
    s1 = s1
    Entries = {e1}
    Mounts = {m1}
    Secrets = {s1}
    MountOf <- OneEntryMount
    SecretOf <- OneEntryNoSecret
    NoRef = NoRef
    Data = {d1, d2}
    Values = {v1, v2}
    Missing = Missing
    Unread = Unread
    Undeclared = Undeclared
    NoRecord = NoRecord
    NoConfig = NoConfig
    NoSecret = NoSecret
    Corrupt = Corrupt
    MaxUUID = 1
    MaxChanges = 3
    MaxFaults = 2
PROPERTIES
    CleanPassDelivers
