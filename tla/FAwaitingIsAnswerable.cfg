SPECIFICATION RSpec
CONSTANTS
  Calls = {c1, c2}
  Approvals = {a1}
  Boundaries = {write}
  SkillInstall = skill
  NoApproval = none
  Boot = boot
  Overlap = {}
  MaxCrashes = 1
SYMMETRY Symmetry
INVARIANT
  AwaitingIsAnswerable
CHECK_DEADLOCK FALSE
