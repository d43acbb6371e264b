\* Two jobs, one restart, cancellations and a lost library at every point; the library's
\* database opens or does not, handlers end or do not.
CONSTANTS
    Job = {1, 2}
    MaxCrashes = 1
SPECIFICATION ServingSpec
INVARIANTS RunningHasWorker
PROPERTIES EveryJobEnds CancelEndsRun
CHECK_DEADLOCK FALSE
