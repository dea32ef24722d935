\* Two compressors that overtake each other; more data than their six permits.
CONSTANTS
  Layout <- FreeAndData
  Threads = {t1, t2}
SPECIFICATION Spec
INVARIANT Accounting
PROPERTIES Terminates ImplementsOrderedCopy
\* The system stops once to_image has returned; Terminates says that it does.
CHECK_DEADLOCK FALSE
