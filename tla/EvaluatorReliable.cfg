SPECIFICATION FairSpec
CONSTANTS
  Pods = {p1}
  Configs <- MCShortPolicies
  Default <- MCShortDefault
  NoConfig = NoConfig
  NoEvent = NoEvent
  Durations = {1, 2}
  AgeCap = 4
  ApiMayFail = FALSE
  PodsMayRestart = FALSE
  PolicyMayChange = TRUE
  AgentMayRestart = FALSE
INVARIANTS VerdictPublished
PROPERTIES SilentPodForgotten PolicyReachesEvaluator
