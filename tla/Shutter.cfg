CONSTANTS
  SAMPLES = 3
  LOW_MIN = 2
  MaxBounces = 2
SPECIFICATION FairSpec
INVARIANTS DriveIsWatched FreedIsQuiet
PROPERTIES StopsAtEnd
