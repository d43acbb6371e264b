\* Two jobs on one unit, one remote event and two restarts under a fair worker.
SPECIFICATION FairJobSpec
CONSTANTS
    Job = {1, 2}
    Unit = {title}
    Value = {a, b}
    Seed = a
    MaxRemote = 1
    MaxCrashes = 2
INVARIANTS OutcomeIsTrue CommittedAsReviewed
PROPERTIES EveryJobEnds
CHECK_DEADLOCK FALSE
