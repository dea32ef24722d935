CONSTANTS
  Works = {"copy"}
  Crashes = TRUE
  Kills = FALSE
SPECIFICATION Spec
PROPERTY NeverOutlivesGui
\* The job ends.
CHECK_DEADLOCK FALSE
