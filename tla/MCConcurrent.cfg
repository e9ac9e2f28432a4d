SPECIFICATION FairSpec
CONSTANTS
  Calls = {c1, c2}
  Approvals = {a1}
  Boundaries = {write}
  SkillInstall = skill
  NoApproval = none
  Boot = boot
  Overlap = {"create", "resume", "reply", "interrupt", "cancel", "approve", "skill"}
INVARIANTS
  
  ResumableHasCheckpoint
  AwaitingNamesApproval
  EffectsWereAsked
PROPERTIES
  CancellationTakesEffect
CHECK_DEADLOCK FALSE
