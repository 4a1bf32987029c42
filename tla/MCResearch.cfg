SPECIFICATION MCSpec
CONSTANTS
  Collectors = {c1}
  Backfills = {b1}
  b1 = b1
  c1 = c1
  MaxBar = 3
  Limit = 2
  Credentials = {TRUE}
  MinRows = 2
  WantedRows = 1
  RowCap = 2
  ResearchRows = 1
  MaxAge = 1
  MaxHourAge = 2
  Ratio = 2
  TakeProfit = 4
  StopLoss = 2
  Hold = 4
  Required = 1
  Trailing = 1
  Arm = 1
  Levels = {97, 98, 99, 100, 102, 104, 107}
  Rates = {0, 10}
  MaxEntries = 2
  EntryCandles = 2
  HoldCandles = 3
  Outcomes <- MCOutcomes
  FoundSources <- AllSources
  MinTrades = 4
  MinTradesPerFold = 1
  StrictDrawdown = 0
  PaperDrawdown = 1
  ResearchDrawdown = 2
  FocusedTrades = {3, 4}
  MaxResults = 2
  FrameRequests <- MCFrames
  GridLimits = {1, 2, 3, 4, 5, 6, 7, 8, 9, 10, 11, 12, 13, 14, 15, 16, 17, 18, 24}
  Shape <- MCShape
  TwinAt <- MCTwin
  CountV9 = 6
  MinV7 = 8
  BaseV7 = 3
  MinV8 = 15
  Sizes <- MCSizes
  LabelParameters = {1, 2}
  Bases <- MCBases
  SweepLimits = {1, 3}
  StrategyCount = 2
  SplitCounts = {0, 1, 2}
  Results <- MCResults
  MinSweepTrades = 4
  MaxSweepDrawdown = 3
  MaxShare = 60
  MaxAmbiguous = 10
  MaxRows = 16
  TrainRows = {3, 5}
  FoldCounts = {1, 2, 3, 4}
  MinFold = 3
  MinTail = 1
  Quantities = {1, 2}
  FillPrices = {0, 10, 20}
  Basis = 10
  FlatFee = 2
  MaxFilled = 4
INVARIANTS BackfilledAreFinal TrainsOnCountedRows LabelsAgree WinnersSurvive NetIsEquity ScenariosAgree TerminalExplained VerdictsAgree  RecommendedHoldsUp FoldsLookForward BooksBalance
CHECK_DEADLOCK FALSE
