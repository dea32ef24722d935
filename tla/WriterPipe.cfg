CONSTANTS
  NPieces = 5
  Buffers = {b1, b2, b3}
  NoBuffer = NoBuffer
SPECIFICATION Spec
INVARIANTS SuccessIsComplete TooSmallFails
PROPERTIES Terminates ImplementsOrderedCopy
\* The system stops once with_writer has returned; Terminates says that it does.
CHECK_DEADLOCK FALSE
