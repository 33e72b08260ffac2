\* Two ordinary download runs, each of every month: no kill, no rerun.
CONSTANTS
  p1 = p1
  p2 = p2
  m1 = m1
  m2 = m2
  None = None
  NoFile = NoFile
  Torn = Torn
  Downloaders = {p1, p2}
  Selected <- MCSelected
  Studies = {}
  Months = {m1, m2}
  MaxRetrievals = 2
  MaxKills = 0
  MaxReruns = 0
  Writers = {}
  Old = old
  Protocols = {"sweep"}
  MaxFaults = 0
  MaxCrashes = 0
  MaxInterrupts = 0
  Sources = {}
  Experiments = {}
  Needs <- NoNeeds
  Loads <- NoNeeds
  HashesFirst = {}
  MaxVersions = 1
  NoBundle = 0
SPECIFICATION EvidenceSpec
PROPERTY StoredOnce
CHECK_DEADLOCK FALSE
