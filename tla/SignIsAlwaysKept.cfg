SPECIFICATION Spec
CONSTANTS
  A1 = A1
  A2 = A2
  All = All
  Pool <- ThePool
  Booked <- TheBooked
  Currencies <- TheCurrencies
  LastDay = 2
  TypedLevels <- TheLevels
  TypedPrices = {110, 120}
  Saved <- TheSaved
  MaxClicks = 1
  AnyValue = AnyValue
  Unset = Unset
  Facets = {"Account", "Side"}
  SortColumns = {1, 2, 3}
  Words = {"ABC"}
  PageSize = 2
  Sent <- TheSent
  Late <- TheLate
  LastTime = 5
  MaxUses = 2
  DeskAccounts = {A1, A2}
  Feeds <- OneFeed
  Holds <- TheHoldings
  Earned <- TheEarnings
  EarnedOn <- TheLegs
  DayTicks = 2
  ZoneLag = 1
  WeekDays = 0
  LastTick = 4
  MaxNews = 2
  MaxPnlUses = 2
  MaxTogether = 2
  FullHolidays = {3}
  EarlyCloses = {8}
  ClockChange = 13
  TickLength = 5
  LastMinute = 28800
INVARIANTS SignIsAlwaysKept
CHECK_DEADLOCK FALSE
