\* The run command's starts: every environment alone, and two on one directory.
CONSTANTS
    Unset = Unset
    Malformed = Malformed
    MaxInt32 = 8388607
    p1 = p1
    p2 = p2
    Proc <- MCProc
    Deployments <- MCDeployments
    MaxStarts = 2
SPECIFICATION Spec
INVARIANTS
    EveryFaultReported
    RunsOnSoundSettings
    RunsOwnOrNewer
    ExitTellsTheRun
    SettingsAppliedOnce
CHECK_DEADLOCK FALSE
