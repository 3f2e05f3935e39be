SPECIFICATION FairSpec
CONSTANTS
  Pods = {p1}
  Configs <- MCShortPolicy
  Default <- MCShortDefault
  NoConfig = NoConfig
  NoEvent = NoEvent
  Durations = {1, 2}
  AgeCap = 4
  ApiMayFail = FALSE
  PodsMayRestart = FALSE
  PolicyMayChange = FALSE
  AgentMayRestart = FALSE
PROPERTIES QuietPodRecovers
