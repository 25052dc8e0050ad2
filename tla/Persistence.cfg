SPECIFICATION FairSpec
CONSTANTS
  Tasks = {t1}
  Monitors = {}
  Slots = 1
  MaxRetries = 1
  WritesMayFail = TRUE
  MayCrash = TRUE
  MayQuit = TRUE
INVARIANTS SettledRowIsCurrent RunsOnlyWhenAsked PauseSurvivesRestart
PROPERTIES LogFollowsTable QuitEnds
