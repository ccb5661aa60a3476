\* Two verdicts and an asset that may await its exchange rate; the rows of the transactions
\* and the instances of the other parts are in MCTransactionStore.
SPECIFICATION MCSpec
CONSTANTS
  Writes = {v1, v2, a1}
  Assets = {a1}
  Parts = {"operations", "store", "ledger", "calendar", "exclusion", "charges", "plan", "forecast"}
  Nothing = Nothing
  Boot = Boot
  Cash = Cash
  grocer = grocer
  Connections <- MCConnections
  Keys <- MCKeys
  CashKeys <- MCCashKeys
  Categories <- MCCategories
  Patterns <- MCPatterns
  Sectors <- MCSectors
  Feed <- MCFeed
  Matches <- MCMatches
  Length <- MCLength
  Sector <- MCSector
  SectorMap <- MCSectorMap
  Words <- MCWords
  Merchant <- MCMerchant
  Credit <- MCCredit
  Age <- MCAge
  Ids <- MCIds
  Foreign <- MCForeign
  Quotes <- MCQuotes
  NewAssets <- MCNewAssets
  Patches <- MCPatches
  Pastes <- MCPastes
  Handlers <- MCHandlers
  MaxDay = 2
  MaxPoints = 2
  FlowMonths = 7
  FirstDay <- MCFirstDay
  Anchors <- MCAnchors
  Shifts <- MCShifts
  Salary = 8
  Gifts <- MCGifts
  MaxRows = 5
  N = 6
  Fact <- MCFact
  CardConnections <- MCConnected
  CompanyOf <- MCCompanyOf
  Nobody = "none"
  Amounts <- MCAmounts
  PerMonth = 1
  Window = 2
  LastMonth = 4
  Payees <- MCPayees
  DueOn <- MCDueOn
  Owes <- MCOwes
  MonthEnd = 5
  Shopping = 1
  MaxShopping = 2
  CashMonths = 7
  CashFirst <- MCCashFirst
  Bills <- MCBills
  DueDay <- MCDueDay
  Late <- MCLate
  Slow <- MCSlow
  New <- MCNew
  CardOf <- MCCardOf
  NoCard = "none"
  Past <- MCPast
  LastDay = 92
  Horizon = 40
INVARIANTS
  NoVerdictLost
  StoreIsSound
  LedgerIsSound
  MonthsAreSound
  NothingCountsTwice
  DismissedStaysQuiet
  ForecastIsExact
PROPERTIES
  UserVerdictStands
  PasteIsTheFact
  ExpectedIsHeldBack
\* The days and months of a part may be over.
CHECK_DEADLOCK FALSE
