SPECIFICATION AFairSpec
CONSTANTS
  a = a
  b = b
  g1 = g1
  t1 = t1
  t2 = t2
  t3 = t3
  Clients = {a}
  Groups = {g1}
  MembersOf <- OneClient
  MaxID = 3
  Titles = {t1, t2, t3}
  TitleOf <- DistinctTitles
  DefaultTitle = DefaultTitle
  NewsChanSize = 1
  Failures = {"empty", "tooMany"}
PROPERTIES ImplementsFeed EveryNoticeDelivered EndedComesToRest
CHECK_DEADLOCK FALSE
