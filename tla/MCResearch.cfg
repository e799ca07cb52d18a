\* Downloads and loads of nine days of two candles, and every short file.
CONSTANTS
  SlotsPerDay = 2
  SessionSlots = {1, 2}
  MinSlPoints = 0
  SmaLength = 2
  HaltAfter = 2
  MinSplitBars = 2
  Variants <- MCVariants
  Families <- MCFamilies
  LegacyDesign <- Rolling
  ProtocolDesigns <- MCDesigns
  MinTrades = 1
  MinSplitTrades = 1
  MaxCandidates = 2
  Preregistered <- MCPreregistered
  NonStandardDays = {2, 7}
  ExcludedDays = {3, 4}
  ChunkDays = 5
  MaxGapDays = 2
  Market <- MCMarket
  l1 = l1
  l2 = l2
  dhan = dhan
  copy = copy
  Loaders = {l1, l2}
  Sources = {dhan, copy}
  Files <- MCFiles
  Studies <- MCStudies
  Stored <- MCStored
  Requests <- MCRequests
  LoadOptions <- MCLoads
  DbRuns <- MCDbRuns
  HoldoutStart = 9
  MaxRetries = 1
  Budgets <- MCBudgets
SPECIFICATION Spec
CONSTRAINT Explored
CHECK_DEADLOCK FALSE
INVARIANTS TypeOK ParityWithCanonical SeededRunContinues PickIgnoresTest SummaryReference SelectedAreBest ResearchSeesItsData CsvIsMarket StoredAsPlanned
PROPERTIES LoadTellsTheTruth
