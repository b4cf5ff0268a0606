\* One name in two directories; two listings, two operations and two requests outstanding; a
\* window opened twice.
CONSTANTS
  Plans = {{"paste", "keepBoth"}, {"newFile", "delete", "elevate"}, {"newFile", "delete", "lose"},
           {"newFile", "rename", "delete", "keepBoth"}, {"upload", "rename", "keepBoth"},
           {"upload", "lose"}, {"upload", "reopen"}, {"delete", "elevate", "reopen"}}
  Dirs = {A, B}
  Home = A
  Bases = {x}
  Lists = {l1, l2}
  Ops = {o1, o2}
  Requests = {q1, q2}
  MaxWindow = 2
  None = None
  MaxName = 3
SPECIFICATION Spec
SYMMETRY Symmetry
CHECK_DEADLOCK FALSE
INVARIANTS
  TypeOK
  QuietScreenIsTrue
PROPERTIES
  CommandsReachFiles
  NamesCompose
  ListingsAreExact
  NothingLostUnasked
