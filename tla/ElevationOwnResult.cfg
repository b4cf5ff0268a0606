\* Two runs ask for the one dialog, or a retry outlives its dialog.
CONSTANTS
  Runs = {r1, r2}
  Retries = {a1, a2}
  NoRun = NoRun
SPECIFICATION FairSpec
CHECK_DEADLOCK FALSE
INVARIANT OwnResult
