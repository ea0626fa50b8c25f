SPECIFICATION RecoverySpec
CONSTANTS
  a1 = a1
  a2 = a2
  Actions <- TwoActions
  Verdicts = {"ALLOW", "STEP_UP"}
  Endings = {"executed", "invocation_uncertain"}
  MaxReceipts = 3
  MaxCrashes = 1
  ActionIds <- TwoActions
  Setups <- MCSetups
  Proposals <- MCProposals
  DeferTtl = 1
  ClockTimes <- MCClock
  MaxSigned <- MCMaxSigned
  MaxLives = 1
  MaxQueue = 1
  MaxBytes = 3
  SendRetries = 1
  MaxEvents = 3
  MaxRestarts = 1
SYMMETRY ActionSymmetry
INVARIANTS
  CommittedIsAdmitted
  RecoveryTruthful
  PersistedKept
PROPERTIES
  AdmittedOnce
  PersistedSettles
CHECK_DEADLOCK FALSE
