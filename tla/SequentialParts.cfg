SPECIFICATION PartsSpec
CONSTANTS
  MaxProxies = 5
  Locations = {"seoul", "tokyo"}
  MaxRate = 4
  Interval = 3
  Waits <- MCWaits
  Overslept = {0, 1}
  StartDelays <- MCStartDelays
  MaxPolls = 5
  NumDays = 3
  DayLength = 6
  Entries <- MCEntries
  NoWork = NoWork
  MaxWait = 2
INVARIANTS EachClientOnce SpreadOverLocations AcceptedKeepsTarget AheadOnlyByStartDelay LagIsDebt SleepsWell NeverPollsEarly
CHECK_DEADLOCK FALSE
