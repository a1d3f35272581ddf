------------------------- MODULE VaultHistoryProofs -------------------------
(***************************************************************************)
(* Proofs about VersionChain and VaultHistory.  What a passed command      *)
(* means for its chain node (PassedCommands) gives the inductive invariant *)
(* IInv; what verify_chain accepts (VerifyChainIsExact) turns it into the  *)
(* properties about histories.                                             *)
(***************************************************************************)
EXTENDS VaultHistory, WellFoundedInduction, TLAPS

-----------------------------------------------------------------------------
(* version_chain.py                                                        *)

(* The first of the naturals with a property.                              *)
LEMMA LeastOf ==
  ASSUME NEW S, S \subseteq Nat, S # {}
  PROVE  \E i \in S : \A j \in S : ~(j < i)
<1>1. PICK i \in S : \A j \in S : <<j, i>> \notin OpToRel(<, Nat)
  BY NatLessThanWellFounded, WFMin
<1> QED
  BY <1>1 DEF OpToRel


(* Nodes as version_chain.py takes them: a version, and not None.          *)
IsNode(n) == n.version \in Nat /\ n # None

(* At the place of a version nothing but that version comes before it, so  *)
(* that a node of a history is neither a fork nor out of its place.        *)
LEMMA PlacesOfAHistory ==
  ASSUME NEW S, NEW s \in Seq(S), \A n \in S : IsNode(n),
         NEW k \in 0 .. Len(s),
         \A i \in 1 .. k : /\ s[i].version = i
                           /\ s[i].parent_hash = IF i = 1 THEN None ELSE s[i - 1].manifest_hash,
         NEW i \in 1 .. k
  PROVE  CodeAt(s, i) = "ok"
<1>1. ~Forks(s, i)
  BY DEF Forks
<1>2. CASE i = 1
  BY <1>1, <1>2 DEF CodeAt, validate_chain_transition, GenesisCode, Previous
<1>3. CASE i # 1
  <2>1. i - 1 \in 1 .. k /\ s[i - 1] \in S /\ s[i - 1] # None
    BY <1>3 DEF IsNode
  <2>2. s[i - 1].version = i - 1 /\ s[i].version = i /\ s[i].parent_hash = s[i - 1].manifest_hash
    BY <2>1, <1>3
  <2> QED
    BY <1>1, <1>3, <2>1, <2>2 DEF CodeAt, validate_chain_transition, SuccessorCode, Previous
<1> QED
  BY <1>2, <1>3

(* A sequence whose nodes all pass is a history: a first node that is out  *)
(* of place would have failed.                                             *)
LEMMA PassingIsHistory ==
  ASSUME NEW S, NEW s \in Seq(S), \A n \in S : IsNode(n),
         \A i \in DOMAIN s : CodeAt(s, i) = "ok"
  PROVE  IsHistory(s)
<1> DEFINE Placed(i) == /\ s[i].version = i
                       /\ s[i].parent_hash = IF i = 1 THEN None ELSE s[i - 1].manifest_hash
           Out == {i \in DOMAIN s : ~Placed(i)}
<1>1. SUFFICES ASSUME Out # {} PROVE FALSE
  BY DEF IsHistory
<1>2. PICK i \in Out : \A j \in Out : ~(j < i)
  <2>1. Out \subseteq Nat
    OBVIOUS
  <2> HIDE DEF Out
  <2> QED
    BY <1>1, <2>1, LeastOf
<1>3. /\ i \in DOMAIN s /\ i \in Nat \ {0} /\ ~Placed(i)
      /\ validate_chain_transition(Previous(s, i), s[i]) = "ok"
  <2>1. i \in DOMAIN s /\ i \in Nat \ {0} /\ ~Placed(i)
    BY <1>2
  <2>2. CodeAt(s, i) = "ok"
    BY <2>1
  <2> QED
    BY <2>1, <2>2 DEF CodeAt
<1>4. CASE i = 1
  BY <1>3, <1>4 DEF validate_chain_transition, GenesisCode, Previous
<1>5. CASE i # 1
  <2>1. i - 1 \in DOMAIN s /\ i - 1 < i
    BY <1>3, <1>5
  <2>2. s[i - 1].version = i - 1 /\ s[i - 1] # None
    BY <2>1, <1>2 DEF IsNode
  <2>3. s[i].version = i /\ s[i].parent_hash = s[i - 1].manifest_hash
    BY <1>3, <1>5, <2>2 DEF validate_chain_transition, SuccessorCode, Previous
  <2> QED
    BY <1>3, <1>5, <2>3
<1> QED
  BY <1>4, <1>5

(* What verify_chain answers is the code of the first node that fails.     *)
LEMMA VerifyChainAnswers ==
  ASSUME NEW S, NEW s \in Seq(S), NEW i \in DOMAIN s,
         CodeAt(s, i) # "ok", \A j \in 1 .. i - 1 : CodeAt(s, j) = "ok"
  PROVE  verify_chain(s) = CodeAt(s, i)
<1> DEFINE First(x) == CodeAt(s, x) # "ok" /\ \A j \in 1 .. x - 1 : CodeAt(s, j) = "ok"
<1>1. \A x \in DOMAIN s : First(x) => x = i
  <2>1. SUFFICES ASSUME NEW x \in DOMAIN s, First(x), x # i PROVE FALSE
    OBVIOUS
  <2>2. x \in 1 .. i - 1 \/ i \in 1 .. x - 1
    BY <2>1
  <2> QED
    BY <2>1, <2>2
<1>2. (CHOOSE x \in DOMAIN s : First(x)) = i
  BY <1>1
<1> HIDE DEF First
<1>3. verify_chain(s) = CodeAt(s, CHOOSE x \in DOMAIN s : First(x))
  BY DEF verify_chain, First
<1> QED
  BY <1>2, <1>3

(* verify_chain (version_chain.py 34) accepts the histories and nothing    *)
(* else, for nodes of any length, versions and hashes.                     *)
THEOREM VerifyChainIsExact ==
  ASSUME NEW S, NEW s \in Seq(S), \A n \in S : IsNode(n)
  PROVE  verify_chain(s) = "ok" <=> IsHistory(s)
<1>1. ASSUME IsHistory(s) PROVE verify_chain(s) = "ok"
  <2>1. \A i \in 1 .. Len(s) : CodeAt(s, i) = "ok"
    BY <1>1, PlacesOfAHistory DEF IsHistory
  <2> QED
    BY <2>1 DEF verify_chain
<1>2. ASSUME verify_chain(s) = "ok" PROVE IsHistory(s)
  <2> DEFINE Bad == {i \in DOMAIN s : CodeAt(s, i) # "ok"}
  <2>1. Bad = {}
    <3>1. SUFFICES ASSUME Bad # {} PROVE FALSE
      OBVIOUS
    <3>2. PICK i \in Bad : \A j \in Bad : ~(j < i)
      <4>1. Bad \subseteq Nat
        OBVIOUS
      <4> HIDE DEF Bad
      <4> QED
        BY <3>1, <4>1, LeastOf
    <3>3. \A j \in 1 .. i - 1 : CodeAt(s, j) = "ok"
      <4>1. SUFFICES ASSUME NEW j \in 1 .. i - 1 PROVE j \notin Bad /\ j \in DOMAIN s
        OBVIOUS
      <4>2. i \in 1 .. Len(s)
        BY <3>2
      <4>3. j < i /\ j \in 1 .. Len(s)
        BY <4>2
      <4> QED
        BY <3>2, <4>3
    <3>4. verify_chain(s) = CodeAt(s, i)
      BY <3>2, <3>3, VerifyChainAnswers
    <3> QED
      BY <3>2, <3>4, <1>2
  <2> QED
    BY <2>1, PassingIsHistory
<1> QED
  BY <1>1, <1>2

(* A node for a place a history already has is reported as a fork when its *)
(* manifest differs, and as out of order when it does not.                 *)
LEMMA SecondNodeOfAPlace ==
  ASSUME NEW S, NEW s \in Seq(S), \A n \in S : IsNode(n), IsHistory(s),
         NEW n \in S, n.version \in 1 .. Len(s)
  PROVE  verify_chain(Append(s, n)) =
           IF n.manifest_hash = s[n.version].manifest_hash
           THEN "non_monotonic_version" ELSE "fork_detected"
<1> DEFINE t == Append(s, n)
           k == Len(s)
<1>1. /\ t \in Seq(S) /\ Len(t) = k + 1 /\ k \in Nat \ {0}
      /\ t[k + 1] = n /\ \A i \in 1 .. k : t[i] = s[i]
  OBVIOUS
<1>2. \A i \in 1 .. k : /\ t[i].version = i
                        /\ t[i].parent_hash = IF i = 1 THEN None ELSE t[i - 1].manifest_hash
  BY <1>1 DEF IsHistory
<1> HIDE DEF t, k
<1>3. \A j \in 1 .. k : CodeAt(t, j) = "ok"
  BY <1>1, <1>2, PlacesOfAHistory
<1>4. Forks(t, k + 1) <=> n.manifest_hash # s[n.version].manifest_hash
  <2>1. n.version \in 1 .. k
    BY DEF k
  <2>2. \A j \in 1 .. k : t[j].version = n.version <=> j = n.version
    BY <2>1, <1>2
  <2>3. Forks(t, k + 1) <=> \E j \in 1 .. k : /\ t[j].version = n.version
                                             /\ t[j].manifest_hash # n.manifest_hash
    <3>1. (k + 1) - 1 = k
      BY <1>1
    <3> QED
      BY <1>1, <3>1 DEF Forks
  <2> QED
    BY <2>1, <2>2, <2>3, <1>1
<1>5. ~Forks(t, k + 1) => CodeAt(t, k + 1) = "non_monotonic_version"
  <2>1. Previous(t, k + 1) = t[k] /\ t[k] = s[k] /\ s[k] \in S
    BY <1>1 DEF Previous, k
  <2>2. t[k].version = k /\ n.version \in 1 .. k /\ t[k] # None
    BY <1>1, <1>2, <2>1 DEF k, IsNode
  <2> QED
    BY <1>1, <2>1, <2>2 DEF CodeAt, validate_chain_transition, SuccessorCode
<1>6. Forks(t, k + 1) => CodeAt(t, k + 1) = "fork_detected"
  BY DEF CodeAt
<1>7. verify_chain(t) = CodeAt(t, k + 1)
  <2>1. k + 1 \in DOMAIN t /\ \A j \in 1 .. (k + 1) - 1 : CodeAt(t, j) = "ok"
    BY <1>1, <1>3
  <2>2. CodeAt(t, k + 1) # "ok"
    BY <1>5, <1>6
  <2> QED
    BY <1>1, <2>1, <2>2, VerifyChainAnswers
<1> QED
  BY <1>4, <1>5, <1>6, <1>7 DEF t

-----------------------------------------------------------------------------
(* commands/delete_entry.py                                                *)

(* The recursion of Filtered, and that a function satisfies it.            *)
KeptAt(f, s, id, i) ==
  IF i = 0 THEN <<>>
  ELSE IF s[i].id = id THEN f[i - 1] ELSE Append(f[i - 1], s[i])

LEMMA KeptExists ==
  ASSUME NEW S, NEW s \in Seq(S), NEW id
  PROVE  \E f : f = [i \in 0 .. Len(s) |-> KeptAt(f, s, id, i)]
<1> DEFINE Solved(n) == \E f : f = [i \in 0 .. n |-> KeptAt(f, s, id, i)]
           Unsolved == {n \in 0 .. Len(s) : ~Solved(n)}
<1>1. SUFFICES ASSUME Unsolved # {} PROVE FALSE
  BY DEF Unsolved
<1>2. PICK n \in Unsolved : \A m \in Unsolved : ~(m < n)
  <2>1. Unsolved \subseteq Nat
    OBVIOUS
  <2> HIDE DEF Unsolved
  <2> QED
    BY <1>1, <2>1, LeastOf
<1>3. n \in 0 .. Len(s) /\ ~Solved(n)
  BY <1>2
<1>4. CASE n = 0
  <2> DEFINE f == [i \in 0 .. 0 |-> <<>>]
  <2>1. f = [i \in 0 .. 0 |-> KeptAt(f, s, id, i)]
    BY DEF KeptAt
  <2> HIDE DEF f
  <2> QED
    BY <1>3, <1>4, <2>1
<1>5. CASE n # 0
  <2>1. n - 1 \in 0 .. Len(s) /\ n - 1 < n
    BY <1>3, <1>5
  <2>2. Solved(n - 1)
    BY <1>2, <2>1
  <2>3. PICK g : g = [i \in 0 .. n - 1 |-> KeptAt(g, s, id, i)]
    BY <2>2
  <2> DEFINE f == [i \in 0 .. n |-> IF i = n THEN KeptAt(g, s, id, n) ELSE g[i]]
  <2>4. ASSUME NEW i \in 0 .. n PROVE f[i] = KeptAt(f, s, id, i)
    <3>1. i # 0 => i - 1 \in 0 .. n - 1 /\ f[i - 1] = g[i - 1]
      BY <1>3
    <3>2. KeptAt(f, s, id, i) = KeptAt(g, s, id, i)
      <4> HIDE DEF f
      <4> QED
        BY <3>1 DEF KeptAt
    <3>3. i # n => i \in 0 .. n - 1
      BY <1>3
    <3>4. i # n => g[i] = KeptAt(g, s, id, i)
      <4> SUFFICES ASSUME i # n PROVE g[i] = KeptAt(g, s, id, i)
        OBVIOUS
      <4> DEFINE G(j) == KeptAt(g, s, id, j)
      <4>1. g = [j \in 0 .. n - 1 |-> G(j)]
        BY <2>3
      <4> HIDE DEF G
      <4>2. g[i] = G(i)
        BY <3>3, <4>1
      <4> QED
        BY <4>2 DEF G
    <3> QED
      BY <3>2, <3>4
  <2>5. f = [i \in 0 .. n |-> KeptAt(f, s, id, i)]
    <3> DEFINE F(j) == KeptAt(f, s, id, j)
    <3>1. \A i \in 0 .. n : f[i] = F(i)
      BY <2>4
    <3>2. f = [i \in 0 .. n |-> f[i]]
      OBVIOUS
    <3> HIDE DEF f, F
    <3>3. f = [i \in 0 .. n |-> F(i)]
      BY <3>1, <3>2
    <3> QED
      BY <3>3 DEF F
  <2> HIDE DEF f
  <2> QED
    BY <1>3, <2>5
<1> QED
  BY <1>4, <1>5

(* What a deletion leaves: a sequence that still holds every entry with    *)
(* another id, and nothing else.                                           *)
LEMMA FilteredKeeps ==
  ASSUME NEW S, NEW s \in Seq(S), NEW id
  PROVE  /\ Filtered(s, id) \in Seq(S)
         /\ \A i \in DOMAIN s :
               s[i].id # id => \E j \in DOMAIN Filtered(s, id) : Filtered(s, id)[j] = s[i]
         /\ \A j \in DOMAIN Filtered(s, id) :
               \E i \in DOMAIN s : s[i].id # id /\ Filtered(s, id)[j] = s[i]
<1> DEFINE kept == CHOOSE f : f = [i \in 0 .. Len(s) |-> KeptAt(f, s, id, i)]
<1>1. kept = [i \in 0 .. Len(s) |-> KeptAt(kept, s, id, i)]
  BY KeptExists
<1>2. Filtered(s, id) = kept[Len(s)]
  BY DEF Filtered, KeptAt
<1> HIDE DEF kept
<1>3. \A i \in 0 .. Len(s) : kept[i] = KeptAt(kept, s, id, i)
  <2> DEFINE K(j) == KeptAt(kept, s, id, j)
  <2>1. kept = [j \in 0 .. Len(s) |-> K(j)]
    BY <1>1
  <2> HIDE DEF K
  <2>2. \A i \in 0 .. Len(s) : kept[i] = K(i)
    BY <2>1
  <2> QED
    BY <2>2 DEF K
<1> DEFINE Right(n) ==
      /\ kept[n] \in Seq(S)
      /\ \A i \in 1 .. n : s[i].id # id => \E j \in DOMAIN kept[n] : kept[n][j] = s[i]
      /\ \A j \in DOMAIN kept[n] : \E i \in 1 .. n : s[i].id # id /\ kept[n][j] = s[i]
    Wrong == {n \in 0 .. Len(s) : ~Right(n)}
<1>4. Right(0)
  <2>1. kept[0] = <<>>
    BY <1>3 DEF KeptAt
  <2> QED
    BY <2>1
<1>5. ASSUME NEW n \in 1 .. Len(s), Right(n - 1) PROVE Right(n)
  <2> DEFINE before == kept[n - 1]
  <2>1. before \in Seq(S) /\ s[n] \in S
    BY <1>5
  <2>2. kept[n] = IF s[n].id = id THEN before ELSE Append(before, s[n])
    BY <1>3 DEF KeptAt
  <2>3. /\ \A i \in 1 .. n - 1 : s[i].id # id => \E j \in DOMAIN before : before[j] = s[i]
        /\ \A j \in DOMAIN before : \E i \in 1 .. n - 1 : s[i].id # id /\ before[j] = s[i]
    BY <1>5
  <2>4. 1 .. n = (1 .. n - 1) \cup {n}
    OBVIOUS
  <2> HIDE DEF before
  <2>5. CASE s[n].id = id
    BY <2>1, <2>2, <2>3, <2>4, <2>5
  <2>6. CASE s[n].id # id
    <3> DEFINE now == Append(before, s[n])
    <3>1. /\ now \in Seq(S) /\ DOMAIN now = DOMAIN before \cup {Len(before) + 1}
          /\ now[Len(before) + 1] = s[n]
          /\ \A j \in DOMAIN before : now[j] = before[j]
      BY <2>1
    <3> HIDE DEF now
    <3>2. kept[n] = now
      BY <2>2, <2>6 DEF now
    <3>3. \A i \in 1 .. n : s[i].id # id => \E j \in DOMAIN now : now[j] = s[i]
      BY <2>3, <2>4, <3>1
    <3>4. \A j \in DOMAIN now : \E i \in 1 .. n : s[i].id # id /\ now[j] = s[i]
      BY <2>3, <2>4, <2>6, <3>1
    <3> QED
      BY <3>1, <3>2, <3>3, <3>4
  <2> QED
    BY <2>5, <2>6
<1> HIDE DEF Right
<1>6. Wrong = {}
  <2>1. SUFFICES ASSUME Wrong # {} PROVE FALSE
    OBVIOUS
  <2>2. PICK n \in Wrong : \A m \in Wrong : ~(m < n)
    <3>1. Wrong \subseteq Nat
      OBVIOUS
    <3> HIDE DEF Wrong
    <3> QED
      BY <2>1, <3>1, LeastOf
  <2>3. n \in 0 .. Len(s) /\ ~Right(n)
    BY <2>2
  <2>4. n \in 1 .. Len(s)
    BY <1>4, <2>3
  <2>5. n - 1 \in 0 .. Len(s) /\ n - 1 < n
    BY <2>4
  <2>6. Right(n - 1)
    BY <2>2, <2>5
  <2> QED
    BY <1>5, <2>3, <2>4, <2>6
<1>7. Len(s) \in 0 .. Len(s) /\ DOMAIN s = 1 .. Len(s)
  OBVIOUS
<1>8. Right(Len(s))
  BY <1>6, <1>7
<1> QED
  BY <1>2, <1>7, <1>8 DEF Right

-----------------------------------------------------------------------------
(* services/command_handler.py                                             *)

(* A node as the pipeline builds it.                                       *)
IsBuilt(n) == n = [version |-> n.version, manifest_hash |-> n.manifest_hash,
                   parent_hash |-> n.parent_hash]

IsSequence(entries) == \E S : entries \in Seq(S)

(* Payloads as clients send them: any version a builder may refuse, any    *)
(* predecessor at all, and any list of entries.                            *)
Sent(p) ==
  /\ p.version \in 1 .. MaxVersion \cup {0, JsonTrue, Malformed}
  /\ p.entries \in {Missing, Malformed} \/ IsSequence(p.entries)

(* What the builders and the manifest schema let through between them.     *)
LEMMA PassedManifest ==
  ASSUME NEW command, NEW p, Sent(p), CommandError(command, p) = "ok"
  PROVE  LET manifest == base_manifest(command, p) IN
         /\ command \in Commands
         /\ manifest.version \in 1 .. MaxVersion
         /\ manifest.vault_id \in Vaults
         /\ PreviousError(p, manifest.version) = "ok"
         /\ validate_chain_transition(PreviousNode(p, manifest.version),
                                      ChainNode(command, p)) = "ok"
<1> DEFINE manifest == base_manifest(command, p)
<1>1. /\ command \in Commands /\ BuilderError(command, p) = "ok"
      /\ CanonicalError(manifest) = "ok"
      /\ PreviousError(p, manifest.version) = "ok"
      /\ validate_chain_transition(PreviousNode(p, manifest.version), ChainNode(command, p)) = "ok"
  BY DEF CommandError
<1>2. manifest.vault_id \in Vaults /\ manifest.version # JsonTrue
  BY <1>1 DEF CanonicalError
<1>3. CASE command = "create_vault"
  BY <1>1, <1>2, <1>3, VaultHistoryAssumption DEF base_manifest
<1>4. CASE command # "create_vault"
  <2>1. manifest.version = p.version
    BY <1>4 DEF base_manifest
  <2>2. p.version = JsonTrue \/ p.version \in Nat \ {0}
    BY <1>1, <1>4 DEF BuilderError
  <2>3. p.version \in 1 .. MaxVersion
    BY <1>2, <2>1, <2>2, VaultHistoryAssumption DEF Sent
  <2> QED
    BY <1>1, <1>2, <2>1, <2>3
<1> QED
  BY <1>3, <1>4

(* The chain node of a command that passed: a first version, or the        *)
(* version after the node the client claims, whose hash it names.          *)
LEMMA PassedCommands ==
  ASSUME NEW command, NEW p, Sent(p), CommandError(command, p) = "ok"
  PROVE  LET n == ChainNode(command, p) IN
         /\ IsBuilt(n) /\ NodeType(n) /\ n.version <= MaxVersion
         /\ n.version # 1 => /\ n.version = p.prev_chain_node.version + 1
                             /\ n.parent_hash = p.prev_chain_node.manifest_hash
<1> DEFINE n == ChainNode(command, p)
           manifest == base_manifest(command, p)
           v == manifest.version
<1>1. /\ v \in 1 .. MaxVersion /\ manifest.vault_id \in Vaults
      /\ PreviousError(p, v) = "ok"
      /\ validate_chain_transition(PreviousNode(p, v), n) = "ok"
  BY PassedManifest
<1>2. n = [version |-> v, manifest_hash |-> manifest, parent_hash |-> ParentHash(PreviousNode(p, v))]
  BY DEF ChainNode, compute_manifest_hash
<1> HIDE DEF n, manifest
<1>3. n.version = v /\ n.manifest_hash = manifest /\ n.parent_hash = ParentHash(PreviousNode(p, v))
  BY <1>2
<1>4. v = 1 => n.parent_hash = None
  BY <1>3 DEF PreviousNode, ParentHash
<1>5. IsBuilt(n) /\ NodeType(n) /\ n.version <= MaxVersion
  BY <1>1, <1>2, <1>3, <1>4, VaultHistoryAssumption DEF IsBuilt, NodeType
<1>6. ASSUME v # 1
      PROVE  n.version = p.prev_chain_node.version + 1 /\ n.parent_hash = p.prev_chain_node.manifest_hash
  <2>1. p.prev_chain_node.version = v - 1
    BY <1>1, <1>6 DEF PreviousError
  <2>2. p.prev_chain_node # None
    BY <1>1, <1>3, <1>6 DEF validate_chain_transition, GenesisCode, PreviousNode
  <2>3. n.parent_hash = p.prev_chain_node.manifest_hash
    BY <1>3, <1>6, <2>2 DEF PreviousNode, ParentHash
  <2> QED
    BY <1>1, <1>3, <2>1, <2>3, VaultHistoryAssumption
<1> QED
  BY <1>3, <1>5, <1>6 DEF n

(* The ids of the entries in a manifest, and the losses a node names: it   *)
(* deletes or updates what its predecessor has and it has not.             *)
IdsOf(manifest) == {manifest.entries[i].id : i \in DOMAIN manifest.entries}

NamesItsLosses(n) ==
  \A id \in IdsOf(n.parent_hash) \ EntryIds(n) :
     /\ n.manifest_hash.action \in {"delete_entry", "update_entry"}
     /\ n.manifest_hash.metadata = id

LEMMA BuildersBuildSequences ==
  ASSUME NEW command, NEW p, IsSequence(Carried(p))
  PROVE  IsSequence(NewEntries(command, p))
<1> DEFINE carried == Carried(p)
<1>1. PICK S : carried \in Seq(S)
  BY DEF IsSequence
<1> HIDE DEF carried
<1>2. CASE command = "add_entry"
  <2>1. Append(carried, p.entry) \in Seq(S \cup {p.entry})
    BY <1>1
  <2> QED
    BY <1>2, <2>1 DEF NewEntries, IsSequence, carried
<1>3. CASE command = "update_entry"
  <2> DEFINE updated(j) == IF carried[j].id = p.entry_id THEN Merged(carried[j], p.entry_update)
                           ELSE carried[j]
             T == {updated(j) : j \in DOMAIN carried}
  <2>1. NewEntries(command, p) = [j \in DOMAIN carried |-> updated(j)]
    BY <1>3 DEF NewEntries, carried
  <2>2. DOMAIN carried = 1 .. Len(carried) /\ Len(carried) \in Nat
    BY <1>1
  <2>3. \A j \in DOMAIN carried : updated(j) \in T
    OBVIOUS
  <2> HIDE DEF updated, T
  <2>4. NewEntries(command, p) \in Seq(T)
    BY <2>1, <2>2, <2>3
  <2> QED
    BY <2>4 DEF IsSequence
<1>4. CASE command = "delete_entry"
  <2>1. Filtered(carried, p.entry_id) \in Seq(S)
    BY <1>1, FilteredKeeps
  <2> QED
    BY <1>4, <2>1 DEF NewEntries, IsSequence, carried
<1>5. CASE command \notin {"add_entry", "update_entry", "delete_entry"}
  BY <1>1, <1>5 DEF NewEntries, IsSequence, carried
<1> QED
  BY <1>2, <1>3, <1>4, <1>5

(* A builder loses no entry but the one it deletes or renames.             *)
LEMMA BuildersKeepTheRest ==
  ASSUME NEW command, NEW p, IsSequence(Carried(p)),
         NEW i \in DOMAIN Carried(p)
  PROVE  \/ \E j \in DOMAIN NewEntries(command, p) : NewEntries(command, p)[j].id = Carried(p)[i].id
         \/ command \in {"delete_entry", "update_entry"} /\ p.entry_id = Carried(p)[i].id
<1> DEFINE carried == Carried(p)
           new == NewEntries(command, p)
<1>1. PICK S : carried \in Seq(S)
  BY DEF IsSequence
<1>2. i \in DOMAIN carried
  OBVIOUS
<1> HIDE DEF carried
<1>3. CASE command = "add_entry"
  <2>1. new = Append(carried, p.entry)
    BY <1>3 DEF NewEntries, carried
  <2>2. carried \in Seq(S \cup {p.entry}) /\ p.entry \in S \cup {p.entry}
    BY <1>1
  <2> HIDE DEF new
  <2>3. new \in Seq(S \cup {p.entry}) /\ i \in DOMAIN new /\ new[i] = carried[i]
    BY <1>2, <2>1, <2>2
  <2> QED
    BY <1>2, <2>3 DEF new, carried
<1>4. CASE command = "update_entry"
  <2> DEFINE updated(j) == IF carried[j].id = p.entry_id THEN Merged(carried[j], p.entry_update)
                           ELSE carried[j]
             T == {updated(j) : j \in DOMAIN carried}
  <2>1. new = [j \in DOMAIN carried |-> updated(j)]
    BY <1>4 DEF NewEntries, carried
  <2>2. DOMAIN carried = 1 .. Len(carried) /\ Len(carried) \in Nat
    BY <1>1
  <2>3. \A j \in DOMAIN carried : updated(j) \in T
    OBVIOUS
  <2>4. carried[i].id # p.entry_id => updated(i) = carried[i]
    OBVIOUS
  <2> HIDE DEF new, updated, T
  <2>5. new \in Seq(T) /\ i \in DOMAIN new /\ new[i] = updated(i)
    BY <1>2, <2>1, <2>2, <2>3
  <2> QED
    BY <1>2, <1>4, <2>4, <2>5 DEF new, carried
<1>5. CASE command = "delete_entry"
  <2>1. new = Filtered(carried, p.entry_id)
    BY <1>5 DEF NewEntries, carried
  <2> HIDE DEF new
  <2>2. new \in Seq(S) /\ (carried[i].id # p.entry_id => \E j \in DOMAIN new : new[j] = carried[i])
    BY <1>1, <1>2, <2>1, FilteredKeeps
  <2> QED
    BY <1>2, <1>5, <2>2 DEF new, carried
<1>6. CASE command \notin {"add_entry", "update_entry", "delete_entry"}
  <2>1. new = carried
    BY <1>6 DEF NewEntries, carried
  <2> QED
    BY <1>2, <2>1 DEF carried
<1> QED
  BY <1>3, <1>4, <1>5, <1>6

(* The entries of a node that passed: a sequence.  If the request carried  *)
(* those of the predecessor, the node names what it has no longer.         *)
LEMMA PassedEntries ==
  ASSUME NEW command, NEW p, Sent(p), CommandError(command, p) = "ok"
  PROVE  LET n == ChainNode(command, p) IN
         /\ IsSequence(n.manifest_hash.entries)
         /\ n.version # 1 /\ CarriesOn(p) => NamesItsLosses(n)
<1> DEFINE n == ChainNode(command, p)
           manifest == base_manifest(command, p)
<1>1. /\ n.version = manifest.version /\ n.manifest_hash = manifest
      /\ n.parent_hash = ParentHash(PreviousNode(p, manifest.version))
  BY DEF ChainNode, compute_manifest_hash
<1>2. /\ manifest.entries = NewEntries(command, p)
      /\ manifest.action = command /\ manifest.metadata = About(command, p)
  BY DEF base_manifest
<1>3. BuilderError(command, p) = "ok" /\ PreviousError(p, manifest.version) = "ok"
  BY DEF CommandError
<1>4. p.entries # Malformed
  BY <1>3 DEF BuilderError
<1>5. IsSequence(Carried(p))
  <2>1. <<>> \in Seq({})
    OBVIOUS
  <2> QED
    BY <1>4, <2>1 DEF Sent, Carried, IsSequence
<1>6. IsSequence(n.manifest_hash.entries)
  BY <1>1, <1>2, <1>5, BuildersBuildSequences
<1>7. ASSUME n.version # 1, CarriesOn(p) PROVE NamesItsLosses(n)
  <2>1. n.parent_hash = p.prev_chain_node.manifest_hash
    BY <1>7, PassedCommands
  <2>2. Carried(p) = p.prev_chain_node.manifest_hash.entries
    BY <1>7 DEF CarriesOn
  <2> HIDE DEF n, manifest
  <2>3. ASSUME NEW i \in DOMAIN n.parent_hash.entries, n.parent_hash.entries[i].id \notin EntryIds(n)
        PROVE  /\ n.manifest_hash.action \in {"delete_entry", "update_entry"}
               /\ n.manifest_hash.metadata = n.parent_hash.entries[i].id
    <3>1. n.parent_hash.entries = Carried(p)
      BY <2>1, <2>2
    <3>2. \A j \in DOMAIN NewEntries(command, p) : NewEntries(command, p)[j].id # Carried(p)[i].id
      BY <1>1, <1>2, <2>3, <3>1 DEF EntryIds
    <3>3. command \in {"delete_entry", "update_entry"} /\ p.entry_id = Carried(p)[i].id
      BY <1>5, <2>3, <3>1, <3>2, BuildersKeepTheRest
    <3> QED
      BY <1>1, <1>2, <3>1, <3>3 DEF About
  <2> QED
    BY <2>3 DEF NamesItsLosses, IdsOf
<1> QED
  BY <1>6, <1>7

-----------------------------------------------------------------------------
(* Requests                                                                *)

LEMMA PreparedAreSent ==
  ASSUME NEW command \in Commands, NEW p \in Payloads(command),
         \A n \in accepted : IsSequence(n.manifest_hash.entries)
  PROVE  /\ Sent(p)
         /\ \A q \in Spoilt(p) : Sent(q)
<1>1. PICK v, n, prev, es, e, i, u :
        /\ n \in 1 .. MaxVersion /\ IsSequence(es)
        /\ p = [vault_id |-> v, version |-> n, parent_hash |-> FALSE, prev_chain_node |-> prev,
               entries |-> es, entry |-> e, entry_id |-> i, entry_update |-> u]
  <2>1. CASE command = "create_vault"
    <3>1. p \in PreparedFirst
      BY <2>1 DEF Payloads
    <3>2. PICK v \in Vaults, es \in InitialEntries :
            p = [vault_id |-> v, version |-> 1, parent_hash |-> FALSE, prev_chain_node |-> Missing,
                 entries |-> es, entry |-> Malformed, entry_id |-> Missing, entry_update |-> Malformed]
      BY <3>1 DEF PreparedFirst
    <3>3. 1 \in 1 .. MaxVersion /\ IsSequence(es)
      BY VaultHistoryAssumption DEF IsSequence
    <3> QED
      BY <3>2, <3>3
  <2>2. CASE command # "create_vault"
    <3>1. PICK version \in 1 .. MaxVersion : p \in Prepared(command, version)
      BY <2>2 DEF Payloads
    <3>2. PICK v \in Vaults, prev \in Claims(version) \cup {Missing}, es \in EntryLists,
               e \in NewEntrySet, u \in IF command = "update_entry" THEN UpdateSet ELSE {Malformed} :
            p = [vault_id |-> v, version |-> version, parent_hash |-> FALSE, prev_chain_node |-> prev,
                 entries |-> es, entry |-> e, entry_id |-> e.id, entry_update |-> u]
      BY <3>1 DEF Prepared
    <3>3. IsSequence(es)
      BY VaultHistoryAssumption DEF EntryLists, IsSequence
    <3> QED
      BY <3>2, <3>3
  <2> QED
    BY <2>1, <2>2
<1>2. Sent(p)
  <2>1. p.version = n /\ p.entries = es
    BY <1>1
  <2> QED
    BY <1>1, <2>1 DEF Sent
<1>3. ASSUME NEW q \in Spoilt(p) PROVE Sent(q)
  <2>1. \/ q \in {[p EXCEPT !.vault_id = Missing], [p EXCEPT !.vault_id = Malformed],
                 [p EXCEPT !.parent_hash = TRUE], [p EXCEPT !.entries = Missing],
                 [p EXCEPT !.entries = Malformed],
                 [p EXCEPT !.entry = Malformed], [p EXCEPT !.entry_id = Missing],
                 [p EXCEPT !.entry_update = Malformed], [p EXCEPT !.entry.data = NotFinite],
                 [p EXCEPT !.entry.data = TooDeep]}
        \/ q \in {[p EXCEPT !.version = 0], [p EXCEPT !.version = JsonTrue],
                  [p EXCEPT !.version = Malformed]}
        \/ \E m : q = [p EXCEPT !.prev_chain_node = m]
    <3>1. \A h : [p EXCEPT !.prev_chain_node.manifest_hash = h]
                = [p EXCEPT !.prev_chain_node = [@ EXCEPT !.manifest_hash = h]]
      BY <1>1
    <3> QED
      BY <3>1, <1>3 DEF Spoilt
  <2>2. \/ q.version = n /\ q.entries \in {es, Missing, Malformed}
        \/ q.version \in {0, JsonTrue, Malformed} /\ q.entries = es
    BY <1>1, <2>1
  <2> QED
    BY <1>1, <2>2 DEF Sent
<1> QED
  BY <1>2, <1>3

(* A command that is answered with 200 has passed the pipeline.            *)
LEMMA AnsweredCommands ==
  ASSUME NEW command, NEW p
  PROVE  LET status == Answer("POST", ExecutePath, CommandBody(command, p)) IN
         /\ status = 200 => CommandError(command, p) = "ok"
         /\ status \in {200, 400, 404, 422, Uncaught}
<1> DEFINE body == CommandBody(command, p)
<1>1. Decoded("POST", body) = "object" /\ body.command = command /\ body.payload = p
  BY DEF Decoded, CommandBody
<1>2. ExecuteAnswer("object", body) \in {200, 422, Uncaught}
  BY DEF ExecuteAnswer
<1>3. ExecuteAnswer("object", body) = 200 => CommandError(command, p) = "ok"
  BY <1>1 DEF ExecuteAnswer, Uncaught
<1>4. Answer("POST", ExecutePath, body) \in {400, 404, ExecuteAnswer("object", body)}
  BY <1>1 DEF Answer
<1> QED
  BY <1>2, <1>3, <1>4

(* Another request gets one of the answers, too.                           *)
LEMMA AnsweredOthers ==
  ASSUME NEW method, NEW path, NEW body
  PROVE  Answer(method, path, body) \in {200, 400, 404, 422, Uncaught}
<1>1. \A kind : ExecuteAnswer(kind, body) \in {200, 422, Uncaught}
  BY DEF ExecuteAnswer
<1> QED
  BY <1>1 DEF Answer

-----------------------------------------------------------------------------
(* The inductive invariant                                                 *)

(* Every node ends a lineage of accepted nodes that is a history, or       *)
(* starts at a node that went astray; it is no longer than its version, so *)
(* that the next version still ends a sequence within the bound.           *)
EndsALineage(n) ==
  \E s \in LineagesTo(n) : Len(s) <= n.version /\ (s[1] \in astray \/ IsHistory(s))

IInv ==
  /\ TypeOK
  /\ \A n \in accepted : IsBuilt(n) /\ n.version <= MaxVersion /\ EndsALineage(n)
  /\ \A n \in accepted : IsSequence(n.manifest_hash.entries)
  /\ \A n \in accepted \ altered : n.version # 1 => NamesItsLosses(n)

(* What a step may do: nothing to the nodes, or add one that is a first    *)
(* version, comes after a returned node, or is known to have gone astray.  *)
Follows(n, parent) ==
  n.version = parent.version + 1 /\ n.parent_hash = parent.manifest_hash

Built(n) ==
  /\ IsBuilt(n) /\ NodeType(n) /\ n.version <= MaxVersion
  /\ IsSequence(n.manifest_hash.entries)

Added(n) ==
  /\ Built(n)
  /\ accepted' = accepted \cup {n}
  /\ astray' \in {astray, astray \cup {n}} /\ altered' \in {altered, altered \cup {n}}
  /\ astray' \subseteq altered'
  /\ n.version = 1 \/ n \in astray' \/ \E parent \in accepted : Follows(n, parent)
  /\ n.version # 1 /\ n \notin altered' => NamesItsLosses(n)

Untouched == UNCHANGED <<accepted, astray, altered>>

AnswerOK == answer' \in {NoAnswer, 200, 400, 404, 422, Uncaught}

LEMMA ExecuteEffect ==
  ASSUME IInv, NEW command, NEW p, Sent(p), Execute(command, p)
  PROVE  AnswerOK /\ (Untouched \/ \E n : Added(n))
<1> DEFINE status == Answer("POST", ExecutePath, CommandBody(command, p))
           n == ChainNode(command, p)
<1>1. /\ status \in {200, 400, 404, 422, Uncaught}
      /\ status = 200 => CommandError(command, p) = "ok"
  BY AnsweredCommands
<1>2. CASE status = 200
  <2>1. AnswerOK /\ Returned(n, p)
    BY <1>2 DEF Execute, AnswerOK
  <2>2. /\ Built(n)
        /\ n.version # 1 => /\ n.version = p.prev_chain_node.version + 1
                            /\ n.parent_hash = p.prev_chain_node.manifest_hash
        /\ n.version # 1 /\ CarriesOn(p) => NamesItsLosses(n)
    BY <1>1, <1>2, PassedCommands, PassedEntries DEF Built
  <2> HIDE DEF n
  <2>3. n.version # 1 /\ NamesReturned(p) => \E parent \in accepted : Follows(n, parent)
    BY <2>2 DEF NamesReturned, Follows
  <2>4. CarriesOn(p) => NamesReturned(p)
    BY DEF CarriesOn
  <2>5. Added(n)
    <3>1. accepted' = accepted \cup {n} /\ astray \subseteq altered
      BY <2>1 DEF Returned, IInv, TypeOK
    <3>2. /\ astray' = IF n.version = 1 \/ NamesReturned(p) THEN astray ELSE astray \cup {n}
          /\ altered' = IF n.version = 1 \/ CarriesOn(p) THEN altered ELSE altered \cup {n}
      BY <2>1 DEF Returned
    <3> QED
      BY <2>2, <2>3, <2>4, <3>1, <3>2 DEF Added
  <2> QED
    BY <2>1, <2>5
<1>3. CASE status # 200
  BY <1>1, <1>3 DEF Execute, Untouched, AnswerOK
<1> QED
  BY <1>2, <1>3

LEMMA SamplesArePayloads ==
  ASSUME NEW command
  PROVE  Samples(command) \subseteq Payloads(command)
<1> DEFINE good == {p \in Payloads(command) : CommandError(command, p) = "ok"}
           following == {p \in good : p.prev_chain_node # Missing}
           some == IF following # {} THEN following ELSE good
<1>1. some \subseteq Payloads(command)
  OBVIOUS
<1>2. Samples(command) = IF some = {} THEN {} ELSE {CHOOSE p \in some : TRUE}
  BY DEF Samples
<1> HIDE DEF some
<1>3. some # {} => (CHOOSE p \in some : TRUE) \in some
  OBVIOUS
<1> QED
  BY <1>1, <1>2, <1>3

(* Every step of the system.                                               *)
LEMMA Steps ==
  ASSUME IInv, Next
  PROVE  AnswerOK /\ (Untouched \/ \E n : Added(n))
<1>1. \A n \in accepted : IsSequence(n.manifest_hash.entries)
  BY DEF IInv
<1>2. CASE \E command \in Commands : \E p \in Payloads(command) : Execute(command, p)
  BY <1>1, <1>2, PreparedAreSent, ExecuteEffect
<1>3. CASE \E command \in Commands : \E p \in Samples(command) : \E q \in Spoilt(p) :
             Execute(command, q)
  <2>1. PICK command \in Commands : \E p \in Samples(command) : \E q \in Spoilt(p) :
                                       Execute(command, q)
    BY <1>3
  <2>2. PICK p \in Payloads(command) : \E q \in Spoilt(p) : Execute(command, q)
    BY <2>1, SamplesArePayloads
  <2>3. PICK q \in Spoilt(p) : Execute(command, q)
    BY <2>2
  <2> QED
    BY <1>1, <2>3, PreparedAreSent, ExecuteEffect
<1>4. ASSUME NEW method, NEW path, NEW kind, NEW command,
             OtherRequest(method, path, kind, command)
      PROVE  AnswerOK /\ Untouched
  BY <1>4, AnsweredOthers DEF OtherRequest, AnswerOK, Untouched
<1>5. CASE Answered
  BY <1>5 DEF Answered, AnswerOK, Untouched
<1> QED
  BY <1>2, <1>3, <1>4, <1>5 DEF Next, Request

(* A lineage stays one when nodes are added.                               *)
LEMMA LineagesStay ==
  ASSUME accepted \subseteq accepted', astray \subseteq astray'
  PROVE  \A n : EndsALineage(n) => EndsALineage(n)'
<1>1. NodeSequences \subseteq NodeSequences'
  BY DEF NodeSequences
<1>2. \A n : LineagesTo(n) \subseteq LineagesTo(n)'
  BY <1>1 DEF LineagesTo, IsLineage
<1> QED
  BY <1>2 DEF EndsALineage, IsHistory

(* The node that comes after a returned one ends that one's lineage, with  *)
(* itself appended; a first version, or one astray, is a lineage alone.    *)
LEMMA NewNodesEndALineage ==
  ASSUME IInv, NEW n, Added(n)
  PROVE  EndsALineage(n)'
<1>1. /\ n \in accepted' /\ accepted \subseteq accepted' /\ astray \subseteq astray'
      /\ n.version \in 1 .. MaxVersion
  BY VaultHistoryAssumption DEF Added, Built, NodeType
<1>2. CASE n.version = 1 \/ n \in astray'
  <2> DEFINE s == <<n>>
  <2>1. s \in [1 .. 1 -> accepted'] /\ 1 \in 0 .. MaxVersion
    BY <1>1, VaultHistoryAssumption
  <2>2. s # <<>> /\ Len(s) = 1 /\ DOMAIN s = 1 .. 1 /\ s[1] = n
    OBVIOUS
  <2> HIDE DEF s
  <2>3. s \in LineagesTo(n)'
    BY <2>1, <2>2 DEF LineagesTo, NodeSequences, IsLineage
  <2>4. n.version = 1 => n.parent_hash = None
    BY DEF Added, Built, NodeType
  <2>5. n.version = 1 => IsHistory(s)
    BY <2>2, <2>4 DEF IsHistory
  <2>6. Len(s) <= n.version /\ (s[1] \in astray' \/ IsHistory(s))
    BY <1>1, <1>2, <2>2, <2>5
  <2> QED
    BY <2>3, <2>6 DEF EndsALineage, IsHistory
<1>3. ASSUME NEW parent \in accepted, Follows(n, parent) PROVE EndsALineage(n)'
  <2>1. PICK s \in LineagesTo(parent) : /\ Len(s) <= parent.version
                                        /\ s[1] \in astray \/ IsHistory(s)
    BY <1>3 DEF IInv, EndsALineage
  <2>2. PICK k \in 0 .. MaxVersion : s \in [1 .. k -> accepted]
    BY <2>1 DEF LineagesTo, NodeSequences
  <2>3. /\ s \in Seq(accepted) /\ Len(s) = k /\ k \in Nat \ {0} /\ s[k] = parent
        /\ IsLineage(s)
    BY <2>1, <2>2, VaultHistoryAssumption DEF LineagesTo
  <2>4. /\ n.version = parent.version + 1 /\ n.parent_hash = parent.manifest_hash
        /\ parent.version \in Nat /\ k + 1 <= n.version
    BY <1>3, <2>1, <2>3 DEF Follows, IInv, TypeOK, NodeType
  <2> DEFINE t == Append(s, n)
  <2>5. /\ t \in [1 .. k + 1 -> accepted'] /\ Len(t) = k + 1 /\ t[k + 1] = n
        /\ \A i \in 1 .. k : t[i] = s[i]
    <3>1. s \in Seq(accepted')
      BY <1>1, <2>3
    <3>2. t \in Seq(accepted') /\ Len(t) = k + 1
      BY <1>1, <2>3, <3>1
    <3>3. t[k + 1] = n /\ \A i \in 1 .. k : t[i] = s[i]
      BY <2>3
    <3> HIDE DEF t
    <3> QED
      BY <3>2, <3>3
  <2> HIDE DEF t
  <2>6. t \in NodeSequences'
    <3>1. k + 1 \in 0 .. MaxVersion
      BY <1>1, <2>3, <2>4, VaultHistoryAssumption
    <3> QED
      BY <2>5, <3>1 DEF NodeSequences
  <2>7. IsLineage(t)
    <3>1. SUFFICES ASSUME NEW i \in 2 .. k + 1
                   PROVE  /\ t[i].version = t[i - 1].version + 1
                          /\ t[i].parent_hash = t[i - 1].manifest_hash
      BY <2>5 DEF IsLineage
    <3>2. CASE i \in 2 .. k
      <4>1. i \in 1 .. k /\ i - 1 \in 1 .. k
        BY <2>3, <3>2
      <4> QED
        BY <2>3, <2>5, <3>2, <4>1 DEF IsLineage
    <3>3. CASE i = k + 1
      <4>1. k \in 1 .. k /\ (k + 1) - 1 = k
        BY <2>3
      <4> QED
        BY <2>3, <2>4, <2>5, <3>3, <4>1
    <3> QED
      BY <2>3, <3>1, <3>2, <3>3
  <2>8. t[1] = s[1] /\ t # <<>>
    BY <2>3, <2>5
  <2>9. ASSUME IsHistory(s) PROVE IsHistory(t)
    <3>1. ASSUME NEW i \in 1 .. k + 1
          PROVE  /\ t[i].version = i
                 /\ t[i].parent_hash = IF i = 1 THEN None ELSE t[i - 1].manifest_hash
      <4>1. CASE i \in 1 .. k
        <5>1. i # 1 => i - 1 \in 1 .. k
          BY <4>1, <2>3
        <5>2. /\ s[i].version = i
              /\ s[i].parent_hash = IF i = 1 THEN None ELSE s[i - 1].manifest_hash
          <6>1. i \in DOMAIN s
            BY <2>3, <4>1
          <6> QED
            BY <2>9, <6>1 DEF IsHistory
        <5> QED
          BY <4>1, <5>1, <5>2, <2>5
      <4>2. CASE i = k + 1
        <5>1. k \in 1 .. k /\ (k + 1) - 1 = k /\ k + 1 # 1
          BY <2>3
        <5>2. s[k].version = k
          BY <2>3, <2>9, <5>1 DEF IsHistory
        <5> QED
          BY <2>3, <2>4, <2>5, <4>2, <5>1, <5>2
      <4> QED
        BY <2>3, <4>1, <4>2
    <3>2. DOMAIN t = 1 .. k + 1
      BY <2>5
    <3> QED
      BY <3>1, <3>2 DEF IsHistory
  <2>10. t \in LineagesTo(n)'
    BY <2>5, <2>6, <2>7, <2>8 DEF LineagesTo
  <2> QED
    BY <1>1, <2>1, <2>4, <2>5, <2>8, <2>9, <2>10 DEF EndsALineage
<1> QED
  BY <1>2, <1>3 DEF Added

LEMMA InitIInv == Init => IInv
BY DEF Init, IInv, TypeOK

LEMMA NextIInv == IInv /\ [Next]_vars => IInv'
<1> SUFFICES ASSUME IInv, [Next]_vars PROVE IInv'
  OBVIOUS
<1>1. \A m : NamesItsLosses(m) <=> NamesItsLosses(m)'
  BY DEF NamesItsLosses, EntryIds
<1>2. ASSUME Untouched, AnswerOK PROVE IInv'
  <2>1. \A n : EndsALineage(n) => EndsALineage(n)'
    BY <1>2, LineagesStay DEF Untouched
  <2> QED
    BY <1>1, <1>2, <2>1 DEF IInv, TypeOK, AnswerOK, Untouched
<1>3. CASE UNCHANGED vars
  BY <1>2, <1>3 DEF vars, Untouched, AnswerOK, IInv, TypeOK
<1>4. CASE Next
  <2>1. AnswerOK /\ (Untouched \/ \E n : Added(n))
    BY <1>4, Steps
  <2>2. ASSUME NEW n, Added(n) PROVE IInv'
    <3>1. EndsALineage(n)'
      BY <2>2, NewNodesEndALineage
    <3>2. \A m : EndsALineage(m) => EndsALineage(m)'
      BY <2>2, LineagesStay DEF Added
    <3>3. TypeOK'
      BY <2>1, <2>2 DEF IInv, TypeOK, AnswerOK, Added, Built
    <3>4. \A m \in accepted' : IsBuilt(m) /\ m.version <= MaxVersion /\ EndsALineage(m)'
      BY <2>2, <3>1, <3>2 DEF IInv, Added, Built
    <3>5. \A m \in accepted' : IsSequence(m.manifest_hash.entries)
      BY <2>2 DEF IInv, Added, Built
    <3>6. \A m \in accepted' \ altered' : m.version # 1 => NamesItsLosses(m)
      BY <2>2 DEF IInv, Added
    <3> QED
      BY <1>1, <3>3, <3>4, <3>5, <3>6 DEF IInv
  <2> QED
    BY <1>2, <2>1, <2>2
<1> QED
  BY <1>3, <1>4

LEMMA Invariance == Spec => []IInv
BY InitIInv, NextIInv, PTL DEF Spec

-----------------------------------------------------------------------------
(* Theorems                                                                *)

(* Every node the pipeline accepts has a positive version, that of its     *)
(* manifest, and a vault.                                                  *)
THEOREM TypeCorrect == Spec => []TypeOK
<1>1. IInv => TypeOK
  BY DEF IInv
<1> QED
  BY <1>1, Invariance, PTL

(* Python's None is not a chain node: the one fact about None that TLC     *)
(* cannot evaluate as an assumption of the module.                         *)
NoneIsNoNode ==
  \A v, m, h : None # [version |-> v, manifest_hash |-> m, parent_hash |-> h]

LEMMA AcceptedAreNodes ==
  ASSUME IInv, NoneIsNoNode
  PROVE  /\ \A n \in accepted : IsNode(n)
         /\ NodeSequences \subseteq Seq(accepted)
<1>1. ASSUME NEW n \in accepted PROVE IsNode(n)
  BY DEF IInv, TypeOK, NodeType, IsBuilt, IsNode, NoneIsNoNode
<1>2. NodeSequences \subseteq Seq(accepted)
  BY VaultHistoryAssumption DEF NodeSequences
<1> QED
  BY <1>1, <1>2

(* Whatever predecessors and entries clients claim, every node ends a      *)
(* history of returned nodes that verify_chain accepts, or comes after one *)
(* whose client named a predecessor the service had not returned.          *)
THEOREM NodesVerify ==
  ASSUME NoneIsNoNode
  PROVE  Spec => []EveryNodeVerifies
<1>1. IInv => EveryNodeVerifies
  <2> SUFFICES ASSUME IInv, NEW n \in accepted
               PROVE  \E s \in LineagesTo(n) : s[1] \in astray \/ verify_chain(s) = "ok"
    BY DEF EveryNodeVerifies
  <2>1. PICK s \in LineagesTo(n) : s[1] \in astray \/ IsHistory(s)
    BY DEF IInv, EndsALineage
  <2>2. s \in Seq(accepted)
    BY <2>1, AcceptedAreNodes DEF LineagesTo
  <2>3. IsHistory(s) => verify_chain(s) = "ok"
    BY <2>2, AcceptedAreNodes, VerifyChainIsExact
  <2> QED
    BY <2>1, <2>3
<1> QED
  BY <1>1, Invariance, PTL

(* Of the nodes the service returned, in whatever order a verifier is      *)
(* given them, verify_chain accepts the histories and nothing else.        *)
THEOREM VerifierExact ==
  ASSUME NoneIsNoNode
  PROVE  Spec => []VerifyChainExact
<1>1. IInv => VerifyChainExact
  <2> SUFFICES ASSUME IInv, NEW s \in NodeSequences
               PROVE  verify_chain(s) = "ok" <=> IsHistory(s)
    BY DEF VerifyChainExact
  <2>1. s \in Seq(accepted) /\ \A n \in accepted : IsNode(n)
    BY AcceptedAreNodes
  <2> QED
    BY <2>1, VerifyChainIsExact
<1> QED
  BY <1>1, Invariance, PTL

(* A second node for a place of a history is reported as a fork when its   *)
(* manifest differs, and as out of order when it does not.                 *)
THEOREM ForksAreReported ==
  ASSUME NoneIsNoNode
  PROVE  Spec => []ForksReported
<1>1. IInv => ForksReported
  <2> SUFFICES ASSUME IInv, NEW s \in Histories, NEW n \in accepted, n.version <= Len(s)
               PROVE  verify_chain(Append(s, n)) =
                        IF n.manifest_hash = s[n.version].manifest_hash
                        THEN "non_monotonic_version" ELSE "fork_detected"
    BY DEF ForksReported
  <2>1. s \in Seq(accepted) /\ IsHistory(s) /\ \A m \in accepted : IsNode(m)
    BY AcceptedAreNodes DEF Histories
  <2>2. n.version \in 1 .. Len(s)
    BY <2>1 DEF IInv, TypeOK, NodeType
  <2> QED
    BY <2>1, <2>2, SecondNodeOfAPlace
<1> QED
  BY <1>1, Invariance, PTL

(* The service loses no entry: between a version that has one and a later  *)
(* one that has not, the first version without it was built by a command   *)
(* that names it, or from a request that did not carry the entries of the  *)
(* node before it.                                                         *)
THEOREM Losses == Spec => []LossesAreExplained
<1>1. IInv => LossesAreExplained
  <2> SUFFICES ASSUME IInv, NEW s \in Histories, NEW i \in 1 .. MaxVersion,
                      NEW k \in 1 .. MaxVersion, i < k, k <= Len(s),
                      NEW id \in EntryIds(s[i]) \ EntryIds(s[k])
               PROVE  \E j \in i + 1 .. k :
                         \/ s[j] \in altered
                         \/ /\ s[j].manifest_hash.action \in {"delete_entry", "update_entry"}
                            /\ s[j].manifest_hash.metadata = id
    BY DEF LossesAreExplained
  <2>1. \A j \in 1 .. k : s[j] \in accepted
    BY VaultHistoryAssumption DEF Histories, NodeSequences
  <2>2. \A j \in 2 .. k : s[j].version = j /\ s[j].parent_hash = s[j - 1].manifest_hash
    BY VaultHistoryAssumption DEF Histories, NodeSequences, IsHistory
  <2> DEFINE Without == {j \in i + 1 .. k : id \notin EntryIds(s[j])}
  <2>3. PICK j \in Without : \A m \in Without : ~(m < j)
    <3>1. Without \subseteq Nat /\ k \in Without
      OBVIOUS
    <3> HIDE DEF Without
    <3> QED
      BY <3>1, LeastOf
  <2>4. j \in i + 1 .. k /\ j \in 2 .. k /\ id \notin EntryIds(s[j])
    BY <2>3
  <2>5. id \in EntryIds(s[j - 1])
    <3>1. j - 1 = i \/ j - 1 \in i + 1 .. k
      BY <2>4
    <3>2. j - 1 < j
      BY <2>4
    <3> QED
      BY <2>3, <3>1, <3>2
  <2>6. s[j] \in accepted /\ s[j].version # 1 /\ s[j].parent_hash = s[j - 1].manifest_hash
    BY <2>1, <2>2, <2>4
  <2>7. id \in IdsOf(s[j].parent_hash)
    BY <2>5, <2>6 DEF EntryIds, IdsOf
  <2>8. s[j] \notin altered => NamesItsLosses(s[j])
    BY <2>6 DEF IInv
  <2> QED
    BY <2>4, <2>7, <2>8 DEF NamesItsLosses
<1> QED
  BY <1>1, Invariance, PTL
=============================================================================
