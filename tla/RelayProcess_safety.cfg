CONSTANTS
  r1 = r1  r2 = r2  r3 = r3  s1 = s1  s2 = s2  v1 = v1
  k1 = k1  k2 = k2  ke = ke
  Main = Main  Job = Job  Boot = Boot  None = None
  Fields = {"tcpPort", "topic"}
  Topic = "topic"
  Requests = {r1, r2, r3}
  Signals = {s1, s2}
  Values = {v1}
  MaxFaults = 1
  Keys = {k1, k2}
  EnvKey = ke
  KeySource = "file"
  NoKey = NoKey  Absent = Absent  Empty = Empty  Partial = Partial
SPECIFICATION ProcessSpec
SYMMETRY Symmetry
INVARIANTS
  TypeOK StoresOutliveNode OneNode StatusMatchesRuntime
  DownHasACause CleanExit OneIdentity
PROPERTIES OrphanBlocksRestarts ImplementsRestartQueue
