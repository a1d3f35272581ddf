--------------------------- MODULE CommandHandler ---------------------------
(***************************************************************************)
(* handle_command (services/command_handler.py) and what it is made of:    *)
(* the builders in commands/, the manifest schema and encoding             *)
(* (canonical_manifest.py), the hash (state_hash.py) and the version       *)
(* chain.  All of it is a function of the payload: no state is kept.       *)
(*                                                                         *)
(* A payload is a record with all the fields a command may read; "entries" *)
(* is initial_entries for create_vault.  Missing stands for an absent or   *)
(* empty field, Malformed for one of another JSON type.  An element of     *)
(* entries that is no object, or has no id, is an entry whose id no        *)
(* command names.                                                          *)
(***************************************************************************)
EXTENDS VersionChain

CONSTANTS
  Vaults, Ids, Data,    \* vault ids, entry ids, the rest of an entry
  NotFinite,            \* the rest of an entry that holds a NaN
  TooDeep,              \* the rest of an entry nested beyond the recursion limit
  Missing, Malformed,
  JsonTrue              \* true, an int to isinstance

Commands == {"create_vault", "add_entry", "update_entry", "delete_entry", "export_vault"}

EntryFields == {"id", "data"}
Entries == [id : Ids, data : Data \cup {NotFinite, TooDeep}]

Carried(p) == IF p.entries = Missing THEN <<>> ELSE p.entries
HasEntry(p) == \E i \in DOMAIN Carried(p) : Carried(p)[i].id = p.entry_id

(* merged = dict(e); merged.update(entry_update)                           *)
Merged(e, update) == [f \in EntryFields |-> IF f \in DOMAIN update THEN update[f] ELSE e[f]]

-----------------------------------------------------------------------------
(* commands/*.to_manifest                                                  *)

BuilderError(command, p) ==
  IF p.vault_id = Missing THEN "missing_vault_id"
  ELSE IF command = "create_vault"
       THEN IF p.entries = Malformed THEN "invalid_initial_entries" ELSE "ok"
  ELSE IF p.version # JsonTrue /\ p.version \notin Nat \ {0} THEN "invalid_version"
  ELSE IF command = "add_entry" /\ p.entry = Malformed THEN "invalid_entry"
  ELSE IF command \in {"update_entry", "delete_entry"} /\ p.entry_id = Missing
       THEN "missing_entry_id"
  ELSE IF command = "update_entry" /\ p.entry_update = Malformed THEN "invalid_entry_update"
  ELSE IF p.entries = Malformed THEN "invalid_entries"
  ELSE IF command \in {"update_entry", "delete_entry"} /\ ~HasEntry(p) THEN "entry_not_found"
  ELSE "ok"

(* Defect: the filter of a deletion keeps what it should drop.             *)
FilteredTheWrongWay(entries, id) ==
  LET kept[i \in 0 .. Len(entries)] ==
        IF i = 0 THEN <<>>
        ELSE IF entries[i].id # id THEN kept[i - 1] ELSE Append(kept[i - 1], entries[i])
  IN kept[Len(entries)]

(* filtered: the entries that do not have the id, in their order.  A       *)
(* recursive function, as nothing can be proved of a SelectSeq.            *)
Filtered(entries, id) ==
  LET kept[i \in 0 .. Len(entries)] ==
        IF i = 0 THEN <<>>
        ELSE IF entries[i].id = id THEN kept[i - 1] ELSE Append(kept[i - 1], entries[i])
  IN kept[Len(entries)]

NewEntries(command, p) ==
  CASE command = "add_entry"    -> Append(Carried(p), p.entry)
    [] command = "update_entry" ->
         [i \in DOMAIN Carried(p) |->
            IF Carried(p)[i].id = p.entry_id THEN Merged(Carried(p)[i], p.entry_update)
            ELSE Carried(p)[i]]
    [] command = "delete_entry" -> Filtered(Carried(p), p.entry_id)
    [] OTHER                    -> Carried(p)

(* metadata: the entry the command is about.                               *)
About(command, p) ==
  CASE command = "add_entry"                       -> p.entry.id
    [] command \in {"update_entry", "delete_entry"} -> p.entry_id
    [] OTHER                                       -> None

base_manifest(command, p) ==
  [vault_id |-> p.vault_id,
   version  |-> IF command = "create_vault" THEN 1 ELSE p.version,
   entries  |-> NewEntries(command, p),
   action   |-> command,
   metadata |-> About(command, p)]

-----------------------------------------------------------------------------
Holds(manifest, data) == \E i \in DOMAIN manifest.entries : manifest.entries[i].data = data

(* Defect: a vault id of any type will do.                                 *)
CanonicalErrorAnyVaultId(manifest) ==
  IF manifest.version = JsonTrue THEN "invalid_version"
  ELSE IF Holds(manifest, TooDeep) THEN "raised"
  ELSE IF Holds(manifest, NotFinite) THEN "manifest_not_canonicalizable"
  ELSE "ok"

(* canonicalize_manifest refuses what the builders let through: a vault id *)
(* that is not a string, a version that is a bool, a number JSON has not.  *)
(* Its except clause lets the RecursionError of json.dumps pass: "raised"  *)
(* is any exception but ValueError.                                        *)
CanonicalError(manifest) ==
  IF manifest.vault_id \notin Vaults THEN "invalid_vault_id"
  ELSE IF manifest.version = JsonTrue THEN "invalid_version"
  ELSE IF Holds(manifest, TooDeep) THEN "raised"
  ELSE IF Holds(manifest, NotFinite) THEN "manifest_not_canonicalizable"
  ELSE "ok"

(* SHA-256 over the canonical encoding, which two manifests share only     *)
(* when they are equal: a manifest stands for its hash.                    *)
compute_manifest_hash(manifest) == manifest

-----------------------------------------------------------------------------
(* _previous_node_from_payload: the predecessor is what the client says.   *)
(* Nothing looks it up, and its own parent_hash is not read by anything.   *)

PreviousError(p, version) ==
  IF version = 1 THEN "ok"
  ELSE IF p.prev_chain_node = Missing THEN "missing_prev_chain_node"
  ELSE IF p.prev_chain_node.version # version - 1 THEN "invalid_prev_chain_version"
  ELSE IF p.prev_chain_node.manifest_hash \in {Missing, Malformed}
       THEN "invalid_prev_manifest_hash"
  ELSE "ok"

PreviousNode(p, version) == IF version = 1 THEN None ELSE p.prev_chain_node

ParentHash(prev) == IF prev = None THEN None ELSE prev.manifest_hash

ChainNode(command, p) ==
  LET manifest == base_manifest(command, p) IN
  [version       |-> manifest.version,
   manifest_hash |-> compute_manifest_hash(manifest),
   parent_hash   |-> ParentHash(PreviousNode(p, manifest.version))]

(* Defect: whatever node the client sends is taken for the predecessor.    *)
CommandErrorTrustingTheClient(command, p) ==
  IF command \notin Commands THEN "unsupported_command"
  ELSE IF p.parent_hash THEN "external_parent_hash_not_allowed"
  ELSE IF BuilderError(command, p) # "ok" THEN BuilderError(command, p)
  ELSE LET manifest == base_manifest(command, p) IN
       IF manifest.version # 1 /\ p.prev_chain_node = Missing THEN "missing_prev_chain_node"
       ELSE CanonicalError(manifest)

(* handle_command: "ok", or the code of the ValueError it raises.          *)
CommandError(command, p) ==
  IF command \notin Commands THEN "unsupported_command"
  ELSE IF p.parent_hash THEN "external_parent_hash_not_allowed"
  ELSE IF BuilderError(command, p) # "ok" THEN BuilderError(command, p)
  ELSE LET manifest == base_manifest(command, p)
           previous == PreviousError(p, manifest.version)
       IN IF CanonicalError(manifest) # "ok" THEN CanonicalError(manifest)
          ELSE IF previous # "ok" THEN previous
          ELSE validate_chain_transition(PreviousNode(p, manifest.version),
                                         ChainNode(command, p))
=============================================================================
