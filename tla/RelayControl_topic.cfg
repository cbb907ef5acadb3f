CONSTANTS
  r1 = r1  r2 = r2  r3 = r3  s1 = s1  s2 = s2  v1 = v1  v2 = v2
  Main = Main  Job = Job  Boot = Boot  None = None
  Fields = {"tcpPort", "topic"}
  Topic = "topic"
  Requests = {r1, r2}
  Signals = {}
  Values = {v1}
  MaxFaults = 0
SPECIFICATION Spec
INVARIANT TopicStaysOverridden
