SPECIFICATION DecisionsSpec
CONSTANTS
  Requests = {r1}
  People = {ann, bob, eve}
  Kinds = {"SOURCE", "RISK", "RESET"}
  Executable = {"SOURCE", "RISK"}
  Contents <- MCContents
  Floor <- MCFloor
  TierRules <- MCTierRules
  LogMayFail = FALSE
  MaxShown = 2
  MaxNow = 2
  Projects = {p1}
  Seeded = p1
  Orders = {o1, o2}
  FirstOrder = o1
  Actions = {a1}
  MaxEntries = 1
INVARIANT ApprovalsBindToShown
