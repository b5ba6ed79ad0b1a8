SPECIFICATION WorkbenchSpec
CONSTANTS
  p1 = p1
  demote = demote
  invalidate = invalidate
  Processes = {console, host}
  Projects = {p1}
  Theses = {seeded, opened}
  SeedThesis = seeded
  SeedCondition = floor
  Home <- MCHome
  Conditions = {floor, demote, invalidate}
  OnBreach <- MCOnBreach
  UIEvents = {e1}
INVARIANT OneChain
