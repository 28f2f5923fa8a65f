SPECIFICATION FairSpec
CONSTANTS
  one = one
  two = two
  other = other
  A = A
  B = B
  Tickers = {A, B}
  Contracts <- MCContracts
  Lasts <- MCLasts
  UsdtAmount = 5
  MaxInt64 = 15
  Titles = {one, two, other}
  Listings = {one, two}
  TickersOf <- MCTickersOf
  NoticeChanSize = 1
  NewsChanSize = 1
  NoTitle = NoTitle
  MaxNews = 3
INVARIANTS NothingLostOnTheWay NoOrderWithoutItsNews OrderIsBounded
PROPERTIES EveryListingOrdered
CHECK_DEADLOCK FALSE
