SPECIFICATION WorkbenchSpec
CONSTANTS
  p1 = p1
  demote = demote
  invalidate = invalidate
  Processes = {p}
  Projects = {p1}
  Theses = {seeded, opened}
  SeedThesis = seeded
  SeedCondition = floor
  Home <- MCHome
  Conditions = {floor, demote, invalidate}
  OnBreach <- MCOnBreach
  UIEvents = {e1}
PROPERTY DemotionsReplay
