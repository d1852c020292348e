SPECIFICATION FairSpec
CONSTANTS
    Entries = {e1}
    Values = {v1, v2}
    NoEntry = NoEntry
    Empty = Empty
    Invalid = Invalid
    Absent = Absent
    Nil = Nil
    MaxEdits = 2
    MaxCrashes = 1
    Segments <- McSegments
    RuleSamples <- McRuleSamples
    DefaultSettings <- McDefaultSettings
    PlainSpec <- McPlainSpec
    LogSamples <- McLogSamples
    ManagedBy = "managed-by"
    Meaning <- McMeaning
    Encoded <- McEncoded
INVARIANTS
    TypeOK
    RestIsConverged
    NeverReconcilesAccident
    BaselinesMatch
    PlacesApart
    LogTellsTheWork
PROPERTIES
    ImplementsMailbox
    LastContentIsReread
    LastSpecApplied
\* The loop ends when its context is cancelled.
CHECK_DEADLOCK FALSE
