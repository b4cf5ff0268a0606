\* The code editor: two files, two loads and two saves outstanding.
CONSTANTS
  Apps = {"stallman"}
  Files = {A, B}
  Images = {A}
  Loads = {l1, l2}
  Saves = {s1, s2}
  MaxVersion = 2
  None = None
SPECIFICATION Spec
CHECK_DEADLOCK FALSE
INVARIANT UnsavedIsMarked
