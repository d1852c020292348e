SPECIFICATION Spec
CONSTANTS
    Documents <- ShortDocuments
    Settings <- ShortSettings
    ShippedSettings <- McShipped
    Defaults <- McDefaults
    StartupGrace = 2
    LoginBudget = 1
    RetryCycle = 4
    Backoff = 2
    MaxTime = 6
INVARIANTS
    ShortGraceDecides
\* The clock ends at its bound.
CHECK_DEADLOCK FALSE
