SPECIFICATION RSpec
CONSTANTS
  Calls = {c1, c2, c3, c4}
  Approvals = {a1, a2}
  Boundaries = {write}
  SkillInstall = skill
  NoApproval = none
  Boot = boot
  Overlap = {"interrupt"}
  MaxCrashes = 2
SYMMETRY Symmetry
INVARIANTS
  SafeAcrossCrashes
  RecoveryIdempotent
PROPERTIES
  CompletedSurvives
CHECK_DEADLOCK FALSE
