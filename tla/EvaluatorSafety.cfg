SPECIFICATION Spec
CONSTANTS
  Pods = {p1}
  Configs <- MCPolicy
  Default <- MCDefault
  NoConfig = NoConfig
  NoEvent = NoEvent
  Durations = {1, 2}
  AgeCap = 10
  ApiMayFail = TRUE
  PodsMayRestart = TRUE
  PolicyMayChange = FALSE
  AgentMayRestart = TRUE
INVARIANTS TypeOK NoOrphanVerdict RecentViolationsKept NoMissedDetection
PROPERTIES HealthyOnlyAfterQuiet
