CONSTANTS
    Configs <- MCConfigsAll
    InboxJobBurst = 0
    MaxJobs = 1
    ObserveProbe = FALSE
SPECIFICATION Spec
INVARIANT TypeOK
PROPERTY NoLostWakeup
PROPERTY StopTerminates
