\* Three applications, so that a third window goes between two; every window opened and
\* focused a few times, each pointer movement of one step.
CONSTANTS
  Apps = {editor, terminal, files}
  MinSize = 1
  DefaultSize = 2
  Pointer = {0, 1}
  MaxOpened = 4
  MaxZ = 6
  MaxExtent = 2
SPECIFICATION Spec
CHECK_DEADLOCK FALSE
INVARIANTS
  StackIsRecency
  OneWindowPerApp
