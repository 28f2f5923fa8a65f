SPECIFICATION FairSpec
CONSTANTS
  a = a
  b = b
  d = d
  g1 = g1
  g2 = g2
  Clients = {a, b}
  Groups = {g1, g2}
  MembersOf <- TwoClients
  URLs = {u1}
  Replies = {}
  Empty = Empty
  MaxFaults = 0
PROPERTIES CancelStops
