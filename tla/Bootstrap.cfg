SPECIFICATION FairSpec
CONSTANTS
  p1 = p1
  p2 = p2
  Pods = {p1, p2}
  Never = {p2}
  Limits <- MCLimits
  Probes <- MCProbes
  NoProbe = NoProbe
INVARIANTS TypeOK PrecheckSound SpyAlwaysLoaded ServingNodeRepaired
PROPERTY PodStarts
