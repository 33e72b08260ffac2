\* The study: two test years after one training year, three bars in a window;
\* five bars of the strategies with a state; four trades.
\* The evidence: two download runs of all months, one run per month at a
\* time, that both build the combined dataset, a study beside them, a kill, a
\* rerun; two calls of each
\* kind of writer, two failed calls, one kill, one interrupt; three experiments
\* that compare with bundles replaced up to twice.
CONSTANTS
  Returns <- SmallReturns
  Cost = 1
  Scale = 4
  Calendars <- SmallCalendars
  Slots = 3
  Days = 2
  FirstTest = 1
  LastTest = 2
  Plans <- SmallPlans
  MaxHold = 2
  Confirm = 2
  Instants = {0, 1, 2}
  Sizes = {1, 2, 5}
  BucketWidth = 2
  Target = 2
  MaxTrades = 4
  p1 = p1
  p2 = p2
  m1 = m1
  m2 = m2
  None = None
  NoFile = NoFile
  Torn = Torn
  Downloaders = {p1, p2}
  Selected <- MCSelected
  Studies = {s1}
  Months = {m1, m2}
  MaxRetrievals = 3
  MaxKills = 1
  MaxReruns = 1
  Writers = {w1, w2}
  Old = old
  Protocols = {"sweep", "unstage", "restore", "once", "inplace", "filewise"}
  MaxFaults = 2
  MaxCrashes = 1
  MaxInterrupts = 1
  Sources = {"first", "second"}
  Experiments = {"day28", "day29", "day31"}
  Needs <- MCNeeds
  Loads <- MCLoads
  HashesFirst = {"day29"}
  MaxVersions = 3
  NoBundle = 0
SYMMETRY Symmetric
SPECIFICATION ResearchSpec
ACTION_CONSTRAINT OneRunPerMonthNext
INVARIANTS
  OnlyRuinStops
  EveryOrderFillsOnce
  FoldsTileTheTestYears
  NextOpenTradesAddUp
  HeldWithinHorizon
  AccountsAgree
  LongOnlyWhenConfirmed
  BarsPartitionTheTrades
  StudyEvaluatesTheMonths
  SurvivesFailures
  PublishedIsWhole
  ReturnedEvidenceIsTrue
PROPERTIES
  ReplaysTheReference
  WriteOnceStands
CHECK_DEADLOCK FALSE
