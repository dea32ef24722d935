\* Two decoders that overtake each other; more frames than the six slots.
CONSTANTS
  NJobs = 7
  Threads = {t1, t2}
SPECIFICATION Spec
INVARIANT SlotsAddUp
PROPERTIES Terminates ImplementsOrderedCopy
\* The system stops once restore_smart_v2 has returned.
CHECK_DEADLOCK FALSE
