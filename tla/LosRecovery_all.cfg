SPECIFICATION FairSpec
CONSTANTS
  NoSha = NoSha
  Projects = {p1, p2, p3}
  Commits = {base, work}
  MRef = base
  Disciplined = TRUE
  MaxKills = 2
  MaxEdits = 2
INVARIANTS
  Recoverable
  SuccessMeansHome
  IInv
PROPERTIES
  ParkedSpec
  RunBringsTreeHome
