---------------------------- MODULE VersionChain ----------------------------
(***************************************************************************)
(* version_chain.py: the links of a vault's version history.  A chain node *)
(* is [version, manifest_hash, parent_hash]; hashes are opaque here.       *)
(***************************************************************************)
EXTENDS Naturals, Sequences

CONSTANT None    \* Python's None: no parent hash, no previous node

(* Defect: the parent's hash is not compared.                              *)
SuccessorCodeVersionsOnly(prev, curr) ==
  IF curr.version # prev.version + 1 THEN "non_monotonic_version" ELSE "ok"

GenesisCode(curr) ==
  IF curr.version # 1 THEN "invalid_genesis_version"
  ELSE IF curr.parent_hash # None THEN "invalid_genesis_parent" ELSE "ok"

SuccessorCode(prev, curr) ==
  IF curr.version # prev.version + 1 THEN "non_monotonic_version"
  ELSE IF curr.parent_hash # prev.manifest_hash THEN "parent_hash_mismatch" ELSE "ok"

validate_chain_transition(prev, curr) ==
  IF curr.version < 1 THEN "invalid_version"
  ELSE IF prev = None THEN GenesisCode(curr) ELSE SuccessorCode(prev, curr)

(* seen_versions at the i-th turn of the loop holds another hash for the   *)
(* version of the i-th node.                                               *)
Forks(nodes, i) ==
  \E j \in 1 .. i - 1 : /\ nodes[j].version = nodes[i].version
                        /\ nodes[j].manifest_hash # nodes[i].manifest_hash

Previous(nodes, i) == IF i = 1 THEN None ELSE nodes[i - 1]

(* Defect: the transition is looked at first.                              *)
CodeAtForkLast(nodes, i) ==
  LET code == validate_chain_transition(Previous(nodes, i), nodes[i]) IN
  IF code = "ok" /\ Forks(nodes, i) THEN "fork_detected" ELSE code

CodeAt(nodes, i) ==
  IF Forks(nodes, i) THEN "fork_detected"
  ELSE validate_chain_transition(Previous(nodes, i), nodes[i])

(* verify_chain stops at the first node that is wrong.                     *)
verify_chain(nodes) ==
  IF \A i \in DOMAIN nodes : CodeAt(nodes, i) = "ok" THEN "ok"
  ELSE LET first == CHOOSE i \in DOMAIN nodes :
                      /\ CodeAt(nodes, i) # "ok"
                      /\ \A j \in 1 .. i - 1 : CodeAt(nodes, j) = "ok"
       IN CodeAt(nodes, first)

-----------------------------------------------------------------------------
(* Nodes each of which names the one before it, from any first node on.    *)
IsLineage(nodes) ==
  \A i \in 2 .. Len(nodes) :
     /\ nodes[i].version = nodes[i - 1].version + 1
     /\ nodes[i].parent_hash = nodes[i - 1].manifest_hash

(* What a history is, said without the code: version i stands at place i   *)
(* and names the manifest at place i - 1.                                  *)
IsHistory(nodes) ==
  \A i \in DOMAIN nodes :
     /\ nodes[i].version = i
     /\ nodes[i].parent_hash = IF i = 1 THEN None ELSE nodes[i - 1].manifest_hash
=============================================================================
