SPECIFICATION FairSpec
CONSTANTS
 Products = {"box", "pack"}
 Words = {"wide", "narrow"}
 Ranked <- MCRanked
 MaxAsks = 2
 MaxRuns = 2
 MaxPieces = 1
 None = None
INVARIANTS KeywordsAgree ReadyMeansPrepared
PROPERTIES PreparationEnds
CHECK_DEADLOCK FALSE
