SPECIFICATION Spec
CONSTANTS
  Calls = {c1, c2}
  Approvals = {a1}
  Boundaries = {write}
  SkillInstall = skill
  NoApproval = none
  Boot = boot
  Overlap = {}
SYMMETRY Symmetry
INVARIANT
  ApprovedRunResumes
CHECK_DEADLOCK FALSE
