SPECIFICATION AFairSpec
CONSTANTS
  a = a
  b = b
  g1 = g1
  t1 = t1
  t2 = t2
  t3 = t3
  Clients = {a, b}
  Groups = {g1}
  MembersOf <- TwoInOneGroup
  MaxID = 3
  Titles = {t1, t2, t3}
  TitleOf <- DistinctTitles
  DefaultTitle = DefaultTitle
  NewsChanSize = 1
  Failures = {}
INVARIANTS NothingSkipped FetcherInStep NoStaleRequest GroupsComeBackWhole
PROPERTIES SettlesOnNewest
CHECK_DEADLOCK FALSE
