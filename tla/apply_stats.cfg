SPECIFICATION Spec
CONSTANTS
  Others = {t1}
  MaxCalls = 1
  MaxRuns = 2
  MaxForeign = 2
CHECK_DEADLOCK FALSE
INVARIANTS
  SampleIsTheRun
