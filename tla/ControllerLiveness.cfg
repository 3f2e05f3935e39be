SPECIFICATION FairSpec
CONSTANTS
  p1 = p1
  p2 = p2
  Pods = {p1, p2}
  Nodes = {n1}
  Policies <- MCPairPolicies
  Matching <- MCAllPair
  NoPod = NoPod
  NoNode = NoNode
  NoPolicy = NoPolicy
  Aggressive = Aggressive
  Unset = Unset
  MaxLag = 2
  ApiMayFail = TRUE
  VerdictMayLift = FALSE
  PodsMayReturn = FALSE
  OthersMayTaint = FALSE
  OperatorMayRestart = FALSE
INVARIANT EvictionThrottled
PROPERTIES ImplementsBudget UnhealthyNodeTainted LoneUnhealthyPodEvicted
CHECK_DEADLOCK FALSE
