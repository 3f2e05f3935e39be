SPECIFICATION Spec
CONSTANTS
  p1 = p1
  p2 = p2
  Pods = {p1, p2}
  Nodes = {n1}
  Policies <- MCMixedPolicies
  Matching <- MCMixed
  NoPod = NoPod
  NoNode = NoNode
  NoPolicy = NoPolicy
  Aggressive = Aggressive
  Unset = Unset
  MaxLag = 2
  ApiMayFail = TRUE
  VerdictMayLift = TRUE
  PodsMayReturn = TRUE
  OthersMayTaint = TRUE
  OperatorMayRestart = TRUE
INVARIANTS TypeOK TaintOnlyIfOnceMet NoEvictionForgotten
PROPERTY HealthyEvictedOnlyUnseen
