SPECIFICATION Spec
CONSTANTS
    Documents <- McDocuments
    Settings <- McSettings
    ShippedSettings <- McShipped
    Defaults <- McDefaults
    StartupGrace = 2
    LoginBudget = 1
    RetryCycle = 2
    Backoff = 1
    MaxTime = 6
INVARIANTS
    TypeOK
    WatchdogIsExact
    TokenOutageDecides
    UnreadyBeforeRestarted
    WatchOutageIsReported
    WatchAlarmIsReal
    GraceMovesFreely
\* The clock ends at its bound.
CHECK_DEADLOCK FALSE
