\* One name in two directories, two listings, one operation and one request outstanding.
CONSTANTS
  Plans = {{"paste"}, {"rename"}}
  Dirs = {A, B}
  Home = A
  Bases = {x}
  Lists = {l1, l2}
  Ops = {o1}
  Requests = {q1}
  MaxWindow = 1
  None = None
SPECIFICATION Spec
CHECK_DEADLOCK FALSE
INVARIANT ReplaceSparesSource
