SPECIFICATION Spec
CONSTANTS
  NoSha = NoSha
  Projects = {p1, p2}
  Commits = {base, work}
  MRef = base
  Disciplined = FALSE
  MaxKills = 1
  MaxEdits = 0
INVARIANTS
  Recoverable
