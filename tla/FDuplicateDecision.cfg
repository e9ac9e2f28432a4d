SPECIFICATION Spec
CONSTANTS
  Calls = {c1, c2, c3}
  Approvals = {a1}
  Boundaries = {write}
  SkillInstall = skill
  NoApproval = none
  Boot = boot
  Overlap = {"approve"}
SYMMETRY Symmetry
PROPERTY
  DecisionIsFinal
CHECK_DEADLOCK FALSE
