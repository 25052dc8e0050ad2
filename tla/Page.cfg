SPECIFICATION FairSpec
CONSTANTS
 Fields <- MCFields
 Meta <- MCMeta
 Profiles <- MCProfiles
 Rendered <- MCRendered
 Shown <- MCShown
 MaxWait = 2
 Fresh = 1
 MaxQueues = 2
 MaxRuns = 2
 HasSame = TRUE
 MaxAttempts = 3
 MaxChanges = 2
INVARIANTS ReleaseMeansAdmitted WindowSpansRuns OwnValuesOnly FailureHasCause
PROPERTIES WaitEnds SatisfiedMeansFilled
CHECK_DEADLOCK FALSE
