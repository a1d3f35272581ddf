---------------------------- MODULE VaultHistory ----------------------------
(***************************************************************************)
(* Clients that keep a vault through POST /v1/commands/execute.  The       *)
(* service keeps no version chain.  A client sends the predecessor it      *)
(* claims and the entries it claims for it; nothing is looked up or        *)
(* compared, so that it may claim any version with any hash, one the       *)
(* service has returned or not, and any list of entries.  The properties   *)
(* say what the nodes are worth all the same.                              *)
(*                                                                         *)
(* What becomes of a command that has passed handle_command (persistence,  *)
(* blob, attestation) is Orchestrator's subject.  Here it matters only     *)
(* that the node then exists: a client that is not told it, because the    *)
(* attestation failed or the answer was lost, can compute its hash.        *)
(***************************************************************************)
EXTENDS HttpService, FiniteSets

CONSTANTS
  InitialEntries, NewEntrySet, UpdateSet,    \* what clients put into vaults
  ClaimedHashes,            \* hashes clients name without having been told them
  OtherPaths,               \* paths requested beside ExecutePath
  MaxVersion,               \* bound: versions clients ask for
  MaxNodes,                 \* bound: chain nodes built
  MaxAltered                \* bound: those of them that do not carry on a node

ASSUME VaultHistoryAssumption ==
  /\ InitialEntries \subseteq Seq(Entries) /\ NewEntrySet \subseteq Entries
  /\ ClaimedHashes \cap {None, Missing, Malformed} = {}
  /\ None \notin Vaults /\ Missing \notin Vaults /\ Malformed \notin Vaults
  /\ JsonTrue \notin Nat /\ Malformed \notin Nat
  /\ Missing # Malformed
  /\ MaxVersion \in Nat \ {0} /\ MaxNodes \in Nat /\ MaxAltered \in Nat

VARIABLES
  accepted,   \* the chain nodes handle_command has returned
  astray,     \* those from a request that named a node not returned before it
  altered,    \* those from a request without the entries of a node it named
  answer      \* status of the last answer

vars == <<accepted, astray, altered, answer>>

NodeType(n) ==
  /\ n.version \in Nat \ {0}
  /\ n.manifest_hash.version = n.version
  /\ n.manifest_hash.vault_id \in Vaults
  /\ n.version = 1 => n.parent_hash = None

TypeOK ==
  /\ \A n \in accepted : NodeType(n)
  /\ astray \subseteq altered /\ altered \subseteq accepted
  /\ answer \in {NoAnswer, 200, 400, 404, 422, Uncaught}

Init == accepted = {} /\ astray = {} /\ altered = {} /\ answer = NoAnswer

-----------------------------------------------------------------------------
(* Requests                                                                *)

(* The predecessors a client may claim for a version, and the lists of     *)
(* entries it may send.                                                    *)
Claims(version) ==
  [version : {version - 1} \ {0}, parent_hash : {None},
   manifest_hash : ClaimedHashes \cup {n.manifest_hash : n \in accepted}]
EntryLists == InitialEntries \cup {n.manifest_hash.entries : n \in accepted}

Prepared(command, version) ==
  {[vault_id |-> v, version |-> version, parent_hash |-> FALSE, prev_chain_node |-> prev,
    entries |-> es, entry |-> e, entry_id |-> e.id, entry_update |-> u] :
     v \in Vaults, prev \in Claims(version) \cup {Missing}, es \in EntryLists,
     e \in NewEntrySet, u \in IF command = "update_entry" THEN UpdateSet ELSE {Malformed}}

PreparedFirst ==
  {[vault_id |-> v, version |-> 1, parent_hash |-> FALSE, prev_chain_node |-> Missing,
    entries |-> es, entry |-> Malformed, entry_id |-> Missing, entry_update |-> Malformed] :
     v \in Vaults, es \in InitialEntries}

(* A payload with one field wrong or left out, or a node of another version *)
(* for its predecessor.                                                    *)
Spoilt(p) ==
  {[p EXCEPT !.vault_id = Missing], [p EXCEPT !.vault_id = Malformed],
   [p EXCEPT !.version = 0], [p EXCEPT !.version = JsonTrue], [p EXCEPT !.version = Malformed],
   [p EXCEPT !.parent_hash = TRUE],
   [p EXCEPT !.entries = Missing], [p EXCEPT !.entries = Malformed],
   [p EXCEPT !.entry = Malformed], [p EXCEPT !.entry_id = Missing],
   [p EXCEPT !.entry_update = Malformed]}
  \cup (IF p.entry = Malformed THEN {}
        ELSE {[p EXCEPT !.entry.data = NotFinite], [p EXCEPT !.entry.data = TooDeep]})
  \cup (IF p.prev_chain_node = Missing THEN {}
        ELSE {[p EXCEPT !.prev_chain_node.manifest_hash = Missing],
              [p EXCEPT !.prev_chain_node.manifest_hash = Malformed]}
             \cup {[p EXCEPT !.prev_chain_node = n] : n \in accepted})

Payloads(command) ==
  IF command = "create_vault" THEN PreparedFirst
  ELSE UNION {Prepared(command, version) : version \in 1 .. MaxVersion}

(* A payload that passes, and follows a node of the service if there is one. *)
Samples(command) ==
  LET good == {p \in Payloads(command) : CommandError(command, p) = "ok"}
      following == {p \in good : p.prev_chain_node # Missing}
      some == IF following # {} THEN following ELSE good
  IN IF some = {} THEN {} ELSE {CHOOSE p \in some : TRUE}

CommandBody(command, p) == [kind |-> "object", command |-> command, payload |-> p]

(* The service has returned the predecessor a payload claims; and the      *)
(* payload carries that node's entries.                                    *)
NamesReturned(p) ==
  \E q \in accepted : /\ q.version = p.prev_chain_node.version
                      /\ q.manifest_hash = p.prev_chain_node.manifest_hash
CarriesOn(p) == NamesReturned(p) /\ Carried(p) = p.prev_chain_node.manifest_hash.entries

-----------------------------------------------------------------------------
(* handle_command returns a node.                                          *)
Returned(node, p) ==
  /\ accepted' = accepted \cup {node}
  /\ astray' = IF node.version = 1 \/ NamesReturned(p) THEN astray ELSE astray \cup {node}
  /\ altered' = IF node.version = 1 \/ CarriesOn(p) THEN altered ELSE altered \cup {node}
  /\ Cardinality(accepted') <= MaxNodes /\ Cardinality(altered') <= MaxAltered

(* A command: _execute_command runs handle_command and, unless that raises, *)
(* CommandOrchestrator.execute.  The answer is then 200, whatever comes of *)
(* the attestation, or a 500 when a store or a storage raises.             *)
Execute(command, p) ==
  LET status == Answer("POST", ExecutePath, CommandBody(command, p)) IN
  IF status = 200
  THEN answer' \in {200, Uncaught} /\ Returned(ChainNode(command, p), p)
  ELSE answer' = status /\ UNCHANGED <<accepted, astray, altered>>

(* Any other request: another path, method or body.                        *)
OtherRequest(method, path, kind, command) ==
  LET body == [kind |-> kind, command |-> command, payload |-> NotObject] IN
  /\ answer' = Answer(method, path, body)
  /\ UNCHANGED <<accepted, astray, altered>>

(* wsgi_app has returned, and the server takes the next request: its one   *)
(* worker (Procfile) serves one at a time.                                 *)
Answered ==
  /\ answer # NoAnswer
  /\ answer' = NoAnswer
  /\ UNCHANGED <<accepted, astray, altered>>

Request ==
  \/ \E command \in Commands : \E p \in Payloads(command) : Execute(command, p)
  \/ \E command \in Commands : \E p \in Samples(command) : \E q \in Spoilt(p) :
        Execute(command, q)
  \/ \E method \in {"GET", "POST"}, path \in OtherPaths \cup {ExecutePath}, kind \in BodyKinds :
        \E command \in IF kind = "object" THEN {"", "unknown", "create_vault"} ELSE {""} :
           OtherRequest(method, path, kind, command)

Next ==
  \/ answer = NoAnswer /\ Request
  \/ Answered

Spec == Init /\ [][Next]_vars

-----------------------------------------------------------------------------
(* Properties                                                              *)

NodeSequences == UNION {[1 .. k -> accepted] : k \in 0 .. MaxVersion}
Histories == {s \in NodeSequences : IsHistory(s)}
LineagesTo(n) == {s \in NodeSequences : s # <<>> /\ s[Len(s)] = n /\ IsLineage(s)}

(* docs/attestation-model.md: a verifier can check a vault's history.      *)
(* handle_command believes every predecessor (command_handler.py 29-42),   *)
(* so this is true of a node only as far as its clients are honest: each   *)
(* node ends a history of returned nodes that verify_chain, which no route *)
(* calls, accepts, or comes after a node whose client named a predecessor  *)
(* the service had not returned.  No other request can cut a node off.     *)
EveryNodeVerifies ==
  \A n \in accepted : \E s \in LineagesTo(n) : s[1] \in astray \/ verify_chain(s) = "ok"

(* verify_chain accepts the histories and nothing else: no sequence of     *)
(* nodes clients were given, in whatever order, passes for a history.      *)
VerifyChainExact ==
  \A s \in NodeSequences : verify_chain(s) = "ok" <=> IsHistory(s)

(* docs/phase1-deterministic-core-plan.md: a duplicate version with a      *)
(* differing manifest hash is a fork.  A second version of a place in a    *)
(* history is reported as a fork when its manifest differs; a node with    *)
(* the same manifest after another parent is not told from a repetition.   *)
ForksReported ==
  \A s \in Histories, n \in accepted :
     n.version <= Len(s) =>
       verify_chain(Append(s, n)) =
         IF n.manifest_hash = s[n.version].manifest_hash
         THEN "non_monotonic_version" ELSE "fork_detected"

EntryIds(n) == {n.manifest_hash.entries[i].id : i \in DOMAIN n.manifest_hash.entries}

(* The service loses no entry: one that an ancestor has and a later        *)
(* version of a history has not was deleted or renamed by a command        *)
(* between them that names it, or a client between them did not send the   *)
(* entries of the node it named (add_entry.py 12: any list will do).       *)
LossesAreExplained ==
  \A s \in Histories, i, k \in 1 .. MaxVersion :
     i < k /\ k <= Len(s) =>
       \A id \in EntryIds(s[i]) \ EntryIds(s[k]) :
          \E j \in i + 1 .. k :
             \/ s[j] \in altered
             \/ /\ s[j].manifest_hash.action \in {"delete_entry", "update_entry"}
                /\ s[j].manifest_hash.metadata = id
=============================================================================
