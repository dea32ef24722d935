CONSTANTS
  Works = {"dd", "copy", "ask"}
  Crashes = TRUE
  Kills = TRUE
SPECIFICATION Spec
INVARIANTS TypeOK PickedModeRuns
PROPERTIES CancelStops EndIsReported ImplementsContract
\* The job ends; a prompt or a copy may also take for ever.
CHECK_DEADLOCK FALSE
