------------------------- MODULE RelayProcessProofs -------------------------
(***************************************************************************)
(* Proofs about RelayProcess, for every set of keys and every instance of  *)
(* RelayControl's constants: the process is a relay as RelayControl has    *)
(* it, and it keeps one identity.                                          *)
(***************************************************************************)
EXTENDS RelayProcess, RelayControlProofs

----------------------------------------------------------------------------
\* Loading a key leaves RelayControl's state alone, and every other step is
\* one of RelayControl's.

LEMMA StepOfControl == [ProcessNext]_processVars => [Next]_vars
  BY DEF ProcessNext, ControlStep, processVars

\* The process with its key file implements RelayControl (main() of server.ts
\* loads the key before it touches anything else), so what is proved of Spec
\* holds of it.
THEOREM ProcessIsRelay == ProcessSpec => Spec
  <1>1. ProcessInit => Init
    BY DEF ProcessInit
  <1> QED
    BY <1>1, StepOfControl, PTL DEF ProcessSpec, Spec

\* Also with its key file, and wherever it dies, the process never has two
\* started nodes, nor a started node without its stores (relay-runtime.ts).
THEOREM ProcessSafe == ProcessSpec => [](StoresOutliveNode /\ OneNode)
  BY ProcessIsRelay, StoresSafe, OneNodeAtATime, PTL

\* ... and what GET /status and the control plane promise holds of it as well
\* (control-http.ts and server.ts).
THEOREM ProcessServes ==
  ProcessSpec =>
    /\ [](TypeOK /\ StatusMatchesRuntime /\ DownHasACause /\ CleanExit)
    /\ OrphanBlocksRestarts
    /\ ImplementsRestartQueue
  BY ProcessIsRelay, TypeCorrect, StatusIsTrue, DownIsExplained, ExitIsClean,
     OrphansBlock, RestartQueueImplemented, PTL

----------------------------------------------------------------------------
\* One identity.  OneIdentity says nothing of where a key comes from; it holds
\* because a key is in the file before it is used, and a file that holds one
\* is never written again.

\* With RELAY_PRIVATE_KEY_HEX there is only that key.
EnvInv ==
  KeySource = "env" =>
    /\ load \in {"down", "loaded"}
    /\ load = "loaded" => privateKey = EnvKey
    /\ identities \subseteq {EnvKey}

\* With RELAY_KEY_FILE, nodes were only ever started with what the file holds.
FileInv ==
  KeySource = "file" =>
    /\ identities \subseteq {keyFile}
    /\ load = "loaded" => privateKey = keyFile
    /\ load = "create" => keyFile \in {Absent, Empty}
    /\ load = "write"  => keyFile = Empty

\* There is a key once one is made or loaded.
HasKey ==
  /\ load \in {"create", "write"} => privateKey \in Keys
  /\ load = "loaded" => privateKey \in Keys \cup {EnvKey}

KeyInv == KeyTypeOK /\ HasKey /\ EnvInv /\ FileInv

LEMMA KeyInvInit == ProcessInit => KeyInv
  BY KeyAssumption
    DEF ProcessInit, KeyInv, KeyTypeOK, HasKey, EnvInv, FileInv, LoadSteps

LEMMA LoadBeginsKey == KeyInv /\ LoadBegins => KeyInv'
  BY KeyAssumption
    DEF LoadBegins, KeyInv, KeyTypeOK, HasKey, EnvInv, FileInv, LoadSteps

LEMMA ReadKeyKey == KeyInv /\ ReadKey => KeyInv'
  BY KeyAssumption
    DEF ReadKey, Generated, KeyInv, KeyTypeOK, HasKey, EnvInv, FileInv, LoadSteps

LEMMA CreateKeyFileKey == KeyInv /\ CreateKeyFile => KeyInv'
  BY KeyAssumption
    DEF CreateKeyFile, KeyInv, KeyTypeOK, HasKey, EnvInv, FileInv, LoadSteps

LEMMA WriteKeyKey == KeyInv /\ WriteKey => KeyInv'
  BY KeyAssumption
    DEF WriteKey, KeyInv, KeyTypeOK, HasKey, EnvInv, FileInv, LoadSteps

LEMMA LoadFailsKey == KeyInv /\ LoadFails => KeyInv'
  BY KeyAssumption
    DEF LoadFails, KeyInv, KeyTypeOK, HasKey, EnvInv, FileInv, LoadSteps

\* A node is started with the loaded key, and the file stays as it is.
LEMMA ControlStepKey == KeyInv /\ ControlStep => KeyInv'
  <1> SUFFICES ASSUME KeyInv, ControlStep PROVE KeyInv'
    OBVIOUS
  <1>1. /\ load = "loaded"
        /\ keyFile' = keyFile
        /\ identities' = identities \cup StartedKeys
        /\ \/ load' = "down" /\ privateKey' = NoKey
           \/ load' = load /\ privateKey' = privateKey
    BY DEF ControlStep
  <1>2. StartedKeys \subseteq {privateKey}
    BY DEF StartedKeys
  <1> QED
    BY <1>1, <1>2, KeyAssumption
      DEF KeyInv, KeyTypeOK, HasKey, EnvInv, FileInv, LoadSteps

LEMMA KeyInvNext == KeyInv /\ [ProcessNext]_processVars => KeyInv'
  <1>1. KeyInv /\ UNCHANGED processVars => KeyInv'
    BY DEF processVars, keyVars, KeyInv, KeyTypeOK, HasKey, EnvInv, FileInv
  <1> QED
    BY <1>1, LoadBeginsKey, ReadKeyKey, CreateKeyFileKey, WriteKeyKey,
       LoadFailsKey, ControlStepKey DEF ProcessNext, LoadStep

\* Every node the relay ever starts, across restarts of its runtime, failed
\* writes of its key file and deaths of its process, has the same PeerId
\* (relay-key.ts, which returns a new key only after storing it).
THEOREM SameIdentity == ProcessSpec => []OneIdentity
  <1>1. KeyInv => OneIdentity
    BY KeyAssumption DEF KeyInv, EnvInv, FileInv, OneIdentity
  <1> QED
    BY <1>1, KeyInvInit, KeyInvNext, PTL DEF ProcessSpec
=============================================================================
