CONSTANTS
  Surfaces <- AllSurfaces
  RuleLists <- Lists
  FloorLists <- Floors
  u1 = u1
  u2 = u2
  Uses <- TwoUses
  Tools = {"t1", "t2"}
  Denied = {"t1"}
  Destructive = {"t2"}
  MaxPinned = 1
  MaxListed = 1
  MaxSteps = 1
  MaxIterations = 1
  Listeners = {"l1", "l2"}
  Boundaries <- AllBoundaries
  Requests <- AllRequests
SYMMETRY UseSymmetry
SPECIFICATION GovernanceSpec
INVARIANTS
  RefusalStands
  RedactedMeansRedacted
  EnforcementAudited
  StrongestRulePrevails
  StoredCopyGoverned
  RulingsStand
  ToolCallsOnRecord
  DeniedStaysDark
PROPERTIES
  SendStands
  SwappedToolRefused
