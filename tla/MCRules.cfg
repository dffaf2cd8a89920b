SPECIFICATION Spec
CONSTANTS
  Configs <- MCConfigs
  Marks = {"END"}
  Sizes = {}
  Lengths = {}
  Statuses = {200}
  MaxInt = 7
INVARIANTS
  TypeOK
  PhasesOnce
  NoRuleAfterInterruption
  InterruptionReported
  DetectionNeverInterrupts
  InterruptionExplained
  FlowContained
  AuditNotLost
PROPERTIES
  AllowIsFinal
  FollowsProtocol
