---------------------------- MODULE RelayProcess ----------------------------
(***************************************************************************)
(* The relay process with its identity: main() loads or creates the        *)
(* private key (src/relay-key.ts) before it does what RelayControl models, *)
(* and every runtime of the process is started with that key.  The key     *)
(* file is the one thing here that outlives the process, which may die     *)
(* between any two steps of creating it.                                   *)
(*                                                                         *)
(* The third source of a key, a new one at each boot, keeps no identity    *)
(* and is left out.  So is RELAY_KEY_FILE's directory and mode.            *)
(***************************************************************************)
EXTENDS RelayControl

CONSTANTS
  Keys,        \* private keys generateKeyPair may return
  EnvKey,      \* the one RELAY_PRIVATE_KEY_HEX holds
  KeySource,   \* "env" or "file": which of the two settings is made
  NoKey,       \* no key loaded
  Absent, Empty, Partial   \* contents of the key file other than a key

ASSUME KeyAssumption ==
  /\ EnvKey \notin Keys
  /\ KeySource \in {"env", "file"}
  /\ {NoKey, Absent, Empty, Partial} \cap (Keys \cup {EnvKey}) = {}

VARIABLES
  load,        \* where loadOrGenerateRelayPrivateKey is suspended
  keyFile,     \* what RELAY_KEY_FILE holds
  privateKey,  \* main(): `privateKey`
  identities   \* history: the keys of all nodes that were ever started

keyVars == <<load, keyFile, privateKey, identities>>
processVars == <<vars, keyVars>>

LoadSteps == {"down", "read", "create", "write", "loaded"}

ProcessInit ==
  /\ Init
  /\ load = "down"
  /\ keyFile = Absent
  /\ privateKey = NoKey
  /\ identities = {}

----------------------------------------------------------------------------
\* loadOrGenerateRelayPrivateKey.

\* generateKeyPair: no key anybody has seen.
Generated == Keys \ (identities \cup {keyFile})

\* RELAY_PRIVATE_KEY_HEX comes first.
LoadBegins ==
  /\ load = "down"
  /\ IF KeySource = "env" THEN load' = "loaded" /\ privateKey' = EnvKey
                          ELSE load' = "read" /\ UNCHANGED privateKey
  /\ UNCHANGED <<keyFile, identities>>

\* readFile: a key; or nothing, or no file, which makes a new key.
ReadKey ==
  /\ load = "read"
  /\ \/ /\ keyFile \in Keys
        /\ privateKey' = keyFile
        /\ load' = "loaded"
     \/ /\ keyFile \in {Absent, Empty}
        /\ privateKey' \in Generated
        /\ load' = "create"
  /\ UNCHANGED <<keyFile, identities>>

\* Mutant: writeFile is not awaited, and the key is used before it is stored.
CreateKeyFileUnawaited ==
  /\ load = "create"
  /\ keyFile' = Empty
  /\ load' = "loaded"
  /\ UNCHANGED <<privateKey, identities>>

\* writeFile opens the file, which creates or truncates it ...
CreateKeyFile ==
  /\ load = "create"
  /\ keyFile' = Empty
  /\ load' = "write"
  /\ UNCHANGED <<privateKey, identities>>

\* ... and writes to it.  Only then is the key returned.
WriteKey ==
  /\ load = "write"
  /\ keyFile' = privateKey
  /\ load' = "loaded"
  /\ UNCHANGED <<privateKey, identities>>

\* An I/O error (of readFile: another than ENOENT), a file that does not
\* decode, or death of the process.  main() ends; an unfinished write may have
\* stored a part of the key, with which every later boot ends here.
LoadFails ==
  /\ load \in {"read", "create", "write"}
  /\ load' = "down"
  /\ privateKey' = NoKey
  /\ keyFile' \in {keyFile} \cup (IF load = "write" THEN {Partial} ELSE {})
  /\ UNCHANGED identities

LoadStep == LoadBegins \/ ReadKey \/ CreateKeyFile \/ WriteKey \/ LoadFails

----------------------------------------------------------------------------
\* The rest of main(), and everything after it.

\* The key of the node this step starts, if it starts one: opts.privateKey.
StartedKeys ==
  {k \in {privateKey} : \E g \in Runtimes : node[g] # "started" /\ node'[g] = "started"}

Leaves == pc[Main] # "down" /\ pc'[Main] = "down"

ControlStep ==
  /\ load = "loaded"
  /\ Next
  /\ IF Leaves THEN load' = "down" /\ privateKey' = NoKey
               ELSE UNCHANGED <<load, privateKey>>
  /\ identities' = identities \cup StartedKeys
  /\ UNCHANGED keyFile

ProcessNext == (LoadStep /\ UNCHANGED vars) \/ ControlStep

ProcessSpec == ProcessInit /\ [][ProcessNext]_processVars

FairProcessSpec == ProcessSpec /\ Fairness

----------------------------------------------------------------------------
\* Properties.

\* The variables of this module have their types.
KeyTypeOK ==
  /\ load \in LoadSteps
  /\ keyFile \in Keys \cup {Absent, Empty, Partial}
  /\ privateKey \in Keys \cup {EnvKey, NoKey}
  /\ identities \subseteq Keys \cup {EnvKey}

\* Wherever the process dies, while it creates its key file or while a restart
\* replaces the node, each node it ever starts has the same PeerId
\* (README.md:53: with RELAY_PRIVATE_KEY_HEX or RELAY_KEY_FILE the PeerId
\* stays the same).
OneIdentity == \A a, b \in identities : a = b
=============================================================================
