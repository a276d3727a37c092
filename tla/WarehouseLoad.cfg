SPECIFICATION Spec
CONSTANTS
  l1 = l1
  l2 = l2
  heir = heir
  next = next
  rival = rival
  root = root
  after = after
  twin = twin
  other = other
  draft = draft
  k1 = k1
  k2 = k2
  s1 = s1
  s2 = s2
  Versions = {l1, l2, heir, next, rival, root, after, twin, other, draft}
  Id <- MCId
  Mode <- MCMode
  Parent <- MCParent
  Scope <- MCScope
  Table <- MCTable
  Record <- MCRecord
  Scopes = {s1, s2}
  MaxEvents = 9
  None = None
INVARIANTS SnapshotIsActive HistoryIsChain Recoverable
PROPERTY PopulationSpec
