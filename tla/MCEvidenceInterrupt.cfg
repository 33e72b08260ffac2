\* One replacement by a writer with a finally clause, and one Ctrl-C.
CONSTANTS
  p1 = p1
  p2 = p2
  m1 = m1
  m2 = m2
  None = None
  NoFile = NoFile
  Torn = Torn
  Downloaders = {}
  Selected <- NoSelection
  Studies = {}
  Months = {m1, m2}
  MaxRetrievals = 1
  MaxKills = 0
  MaxReruns = 0
  Writers = {w1}
  Old = old
  Protocols = {"sweep"}
  MaxFaults = 0
  MaxCrashes = 0
  MaxInterrupts = 1
  Sources = {}
  Experiments = {}
  Needs <- NoNeeds
  Loads <- NoNeeds
  HashesFirst = {}
  MaxVersions = 1
  NoBundle = 0
SPECIFICATION EvidenceSpec
INVARIANT ABundleSurvives
CHECK_DEADLOCK FALSE
