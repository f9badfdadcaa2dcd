SPECIFICATION Spec
CONSTANTS Bases = {"1b", "2", "3"} Repeats = 1 Names <- SomeNames CEILING = 2 Limit = 5 Replays = 2 MaxJobs = 3 MaxCrashes = 1
CHECK_DEADLOCK FALSE
INVARIANTS FailedIsTakenIn
