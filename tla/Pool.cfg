SPECIFICATION FairSpec
CONSTANTS
  Groups = {g1, g2, g3}
  Callers = {c1, c2}
  NoGroup = NoGroup
  RestInterval = 2
  Capacity = 3
INVARIANTS TypeOK OnePlace ReleaseNeverBlocks
PROPERTIES TwoUsesApart ImplementsPool Rotates
