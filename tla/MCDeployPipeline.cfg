SPECIFICATION PipeSpec
CONSTANTS
  Runs = {1, 2}
  Operators = {o1}
  First = first
  NoSidecar = none
  Nothing = nothing
  Boot = boot
INVARIANTS LatestIsTheRuns OneCommandAtATime ServedWasFinished
PROPERTIES ReleasesAreAtomic RunsEnd
CHECK_DEADLOCK FALSE
