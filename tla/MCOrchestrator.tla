--------------------------- MODULE MCOrchestrator ---------------------------
(***************************************************************************)
(* Orchestrator on small instances.  WiredOnly starts the processes in     *)
(* every wiring routes.py can produce; the test wirings add what only the  *)
(* constructor (and the repository's tests) can ask for: a retry policy    *)
(* with another number of attempts, no blob store, a store that raises.    *)
(***************************************************************************)
EXTENDS Orchestrator, TLC

CONSTANTS w1, w2, m1, m2

Selection == INSTANCE AdapterSelection

Symmetry == Permutations(Workers)

TwoCommands == {[hash |-> m1, bytes |-> m1], [hash |-> m1, bytes |-> Undecodable]}
ThreeCommands == TwoCommands \cup {[hash |-> m1, bytes |-> m2]}
OneCommand == {[hash |-> m1, bytes |-> m1]}

Wiring(enabled, blob, attestation, n, raises) ==
  [executionEnabled |-> enabled, blob |-> blob, attestation |-> attestation,
   maxAttempts |-> n, storeRaises |-> raises]

(* What a process imported from routes.py can be.                          *)
WiredOnly == Selection!WiredConfigs

(* Executing wirings of the constructor with a retry policy.               *)
RetryingNetwork ==
  {Wiring(TRUE, "local_fs", a, n, {}) : a \in NetworkAdapters, n \in {1, 2}}

(* Wirings as in tests/test_orchestrator.py: no blob store or a closed     *)
(* gate, adapters that fail locally, a store that raises.                  *)
TestDoubles ==
  {Wiring(g, b, a, n, s) :
     g \in {FALSE}, b \in {"none", "in_memory"},
     a \in LocalReceiptAdapters \cup LocalFailureAdapters, n \in 0 .. 2,
     s \in {{}, {"TimeoutError"}, {"ValueError", "other"}}}
  \cup {Wiring(TRUE, "none", "rpc_generic", n, {"TimeoutError"}) : n \in 0 .. 2}

SharedDisk == {Wiring(TRUE, "local_fs", "thronos_network", 1, {})}
SimulatedFailure == {Selection!Wired([blob |-> "in_memory", attestation |-> "thronos_network",
  mode |-> "dry_run", enable |-> FALSE, simulateFailure |-> TRUE, signerPair |-> TRUE])}
Live == TestDoubles \cup RetryingNetwork
=============================================================================
