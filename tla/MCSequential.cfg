SPECIFICATION Spec
CONSTANTS
  Calls = {c1, c2, c3, c4, c5}
  Approvals = {a1, a2}
  Boundaries = {write}
  SkillInstall = skill
  NoApproval = none
  Boot = boot
  Overlap = {"interrupt"}
SYMMETRY Symmetry
INVARIANTS
  TypeOK
  NoDeadEnd
  RecoveryFaithful
PROPERTIES
  ImplementsGovernedRun
  TerminalIsFinal
  DecisionIsFinal
CHECK_DEADLOCK FALSE
