SPECIFICATION FairSpec
CONSTANTS
  p1 = p1
  p2 = p2
  Pods = {p1, p2}
  QueueSlots = 2
  SocketSlots = 1
  ChanSlots = 1
  EvalSlots = 1
  MaxCalls <- MCMaxCalls
PROPERTY TrafficResumes
