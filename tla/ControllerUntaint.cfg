SPECIFICATION FairSpec
CONSTANTS
  p1 = p1
  p2 = p2
  Pods = {p1, p2}
  Nodes = {n1}
  Policies <- MCAnyPolicies
  Matching <- MCAllAny
  NoPod = NoPod
  NoNode = NoNode
  NoPolicy = NoPolicy
  Aggressive = Aggressive
  Unset = Unset
  MaxLag = 1
  ApiMayFail = FALSE
  VerdictMayLift = TRUE
  PodsMayReturn = FALSE
  OthersMayTaint = FALSE
  OperatorMayRestart = FALSE
PROPERTY HealthyNodeUntainted
CHECK_DEADLOCK FALSE
