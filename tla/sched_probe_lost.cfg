CONSTANTS
    Configs <- MCConfigsJobLoops
    InboxJobBurst = 0
    MaxJobs = 1
    ObserveProbe = TRUE
SPECIFICATION Spec
INVARIANT ProbeNotDropped
