CONSTANTS
  Terminals = {t1}
  Sizes = {small, large}
  Size80x24 = Size80x24
  Dirs = {etc, var}
  Home = Home
  MaxSent = 2
SPECIFICATION FairSpec
CHECK_DEADLOCK FALSE
PROPERTY SizeReachesShell
