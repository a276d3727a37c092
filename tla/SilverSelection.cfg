SPECIFICATION Spec
CONSTANTS
  p1 = p1
  p2 = p2
  l1 = l1
  root = root
  next = next
  rival = rival
  heir = heir
  other = other
  draft = draft
  s1 = s1
  s2 = s2
  Versions = {l1, root, next, rival, heir, other, draft}
  Mode <- MCMode
  Parent <- MCParent
  Scope <- MCScope
  Fits <- MCFits
  Scopes = {s1, s2}
  Processes = {p1, p2}
  MaxFailures = 1
  None = None
SYMMETRY Interchangeable
INVARIANTS OnePopulation OneScope
PROPERTIES PopulationSpec MovesAreFresh InterruptedIsRepaired
