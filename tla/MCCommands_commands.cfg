SPECIFICATION Spec
CONSTANTS
  t1 = t1  t2 = t2
  s1 = s1  s2 = s2  s3 = s3
  pathA = pathA  pathB = pathB
  None = None
  NoAmount = None
  Terminals = {t1, t2}
  Sessions = {s1, s2, s3}
  Saved <- OldAndNew
  Paths = {pathA, pathB}
  Size = 2
  MaxVersion = 2
  DefaultMaxCost = 3
  Programs <- AllScenarios
  Faults = {"disk", "network", "reject", "kill"}
INVARIANTS TypeOK OneWriterPerSession NewestReadableChosen FileInOrder DoneIsWhole FlagsObeyed BudgetKept
PROPERTIES ExitCodesTruthful BackendNeverInTheWay  EveryCommandEnds
