SPECIFICATION FairSpec
CONSTANTS
  Relocators = {p1}
  Listers = {p2}
  Cwds = {c1, c2}
  Nonces = {n1, n2}
  None = None
  Careful = TRUE
  MaxGen = 2
  MaxFaults = 3
INVARIANTS TypeOK SurvivesPowerLoss EndedIsClean
PROPERTIES ImplementsHome RecoveryEnds
