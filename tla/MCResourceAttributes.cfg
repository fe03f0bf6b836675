\* One process, and a resource attribute the run command sets itself.
CONSTANTS
    Unset = Unset
    Malformed = Malformed
    MaxInt32 = 8388607
    p1 = p1
    p2 = p2
    Proc <- MCProc
    Deployments <- MCDeployments
    MaxStarts = 2
SPECIFICATION Spec
INVARIANT
    ResourceAttributesApplied
CHECK_DEADLOCK FALSE
