CONSTANTS
  Sticks = {A, B}
  None = None
  MaxChanges = 3
SPECIFICATION Spec
INVARIANT ChosenIsListed
PROPERTY CheckEnds
