\* Two files, one of them an image, so that one overtakes the other; two loads and two saves
\* outstanding.
CONSTANTS
  Apps = {"stallman", "documents", "image", "pdf"}
  Files = {A, B}
  Images = {A}
  Loads = {l1, l2}
  Saves = {s1, s2}
  MaxVersion = 2
  None = None
SPECIFICATION Spec
SYMMETRY Symmetry
INVARIANTS
  TypeOK
  NoCrossWrites
  StatusIsTrue
  DocumentsFreed
PROPERTIES
  TurnsToTarget
