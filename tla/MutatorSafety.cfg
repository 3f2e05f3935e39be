SPECIFICATION Spec
CONSTANTS
  l1 = l1
  l2 = l2
  c1 = c1
  c2 = c2
  Pods = {p1, p2}
  Labels = {l1, l2}
  Containers = {c1, c2}
  Own <- MCOwn
  Policies <- MCPolicies
  NoPod = NoPod
  NoPolicy = NoPolicy
  NoConfig = NoConfig
INVARIANTS
  TypeOK
  InjectedOnce
  PrecheckMatchesGovernance
