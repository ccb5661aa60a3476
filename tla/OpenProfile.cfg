\* An opening that fails twice, as many copies as tries; two profiles, two tasks in flight. The
\* values named MC... are in MCOpenProfile.
CONSTANTS
  Version = 2
  Keep = 3
  MaxTries = 3
  Absent = absent
  Profiles = {a, b}
  Slots = {s1, s2}
  BankConnections <- MCBankConnections
  Account <- MCAccount
  CardConnections <- MCCardConnections
  Opening <- MCOpening
  Movements <- MCMovements
  TicksPerDay = 2
  LastTick = 4
  MaxConnections = 3
  Steady <- MCSteady
  Bursty <- MCBursty
  Suggested <- MCSuggested
  Known <- MCKnown
  RowIds <- MCRowIds
  Names <- MCNames
  FromMonth = 6
  ToMonth = 8
  CommitWindow = 3
  MaxWords = 3
  Services <- MCServices
  Vouched <- MCVouched
  Prices <- MCPrices
  Charged <- MCCharged
  Spending <- MCSpending
  Basket <- MCBasket
  Miscategorised <- MCMiscategorised
  Balances <- MCBalances
  Typed <- MCTyped
  GoalIds <- MCGoalIds
  FirstMonth = 7
  LastMonth = 8
  AdviceWindow = 7
  Limit = 2
  MaxBaskets = 1
  MaxSaid = 2
  Entries <- MCEntries
  EntryMonth <- MCMonthOf
  Merchant <- MCWho
  Category <- MCWhat
  Amount <- MCHowMuch
  Flagged <- MCDebits
  Slow <- MCSlowRows
  Pasts <- MCPasts
  Coming <- MCComing
  Histories <- MCHistories
  Essential <- MCEssential
  Unsteerable <- MCUnsteerable
  Other = "other"
  Uncategorized = "uncategorized"
  Monthly <- MCStream
  Liquid = 20000
  Frames <- MCFrames
  Rates <- MCRates
  YearLength = 3
  StatementWindow = 2
  StartMonth = 4
  EndMonth = 5
  None = None
SPECIFICATION MCSpec
INVARIANTS
  OpeningIsSound
  StatementsAreSound
  
  BalanceIsTrue
PROPERTIES
  AdviceStands
  FailuresAreTheirs
  LocksAreReleased
\* The window may rest, and the last month may be over.
CHECK_DEADLOCK FALSE
