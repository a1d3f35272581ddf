------------------------------ MODULE Startup ------------------------------
(***************************************************************************)
(* A process from its start to its end: the import of routes.py under the  *)
(* settings it was given (ProviderConfig), the directory its blob storage  *)
(* makes while it is imported, the report it shows of its settings, and    *)
(* the readiness probe (startup_validation.py), which looks at one path    *)
(* after the other, twice at each, on a disk that others change meanwhile. *)
(*                                                                         *)
(* The paths are those of .env.example: the first is the data root, the    *)
(* others are below it, and BLOB_LOCAL_ROOT_PATH is the second.            *)
(***************************************************************************)
EXTENDS ProviderConfig, Sequences, SequencesExt

CONSTANTS
  RequiredPaths,   \* _REQUIRED_PATH_ENV, in its order
  Deployments      \* [selection, env, named]: variables a process is started with

Paths == ToSet(RequiredPaths)
DataRoot == RequiredPaths[1]
BlobRoot == RequiredPaths[2]

(* "unreadable": stat() fails with an error that exists() and is_dir() let *)
(* out (no permission, an input/output error).                             *)
Kinds == {"absent", "file", "directory", "unreadable"}

(* selection and env are those of ProviderConfig; named holds the paths    *)
(* whose variable is set.                                                  *)
ASSUME StartupAssumption ==
  /\ RequiredPaths \in Seq(Paths) /\ IsInjective(RequiredPaths) /\ Len(RequiredPaths) > 1
  /\ \A d \in Deployments : /\ d.env \in [Variables -> Values] /\ d.named \subseteq Paths
                             /\ d.selection.enable \in BOOLEAN

(* Nothing is below the data root unless that is a directory, and nothing  *)
(* below it can be read when it cannot.                                    *)
Disks == {d \in [Paths -> Kinds] : \A p \in Paths \ {DataRoot} :
                                     /\ d[DataRoot] = "unreadable" => d[p] = "unreadable"
                                     /\ d[DataRoot] \in {"absent", "file"} => d[p] = "absent"}

VARIABLES
  process,   \* [state, settings, error, report]: "none", "refused", "imported", "serving"
  disk,      \* what is at each path
  check      \* the readiness probe: [at, step, answer, path, seen]
startupVars == <<process, disk, check>>

NoProcess == [state |-> "none"]

(* The probe before its first answer.  "seen" is kept for the properties   *)
(* only: what each path has been since the probe began.                    *)
NoCheck == [at |-> 0, step |-> "exists", answer |-> "none", path |-> DataRoot,
            seen |-> [p \in Paths |-> {}]]

StartupInit == process = NoProcess /\ disk \in Disks /\ check = NoCheck

(* The disk after "now", as a probe under way sees it.                     *)
Becomes(now) ==
  /\ disk' = now
  /\ check' = IF check.at = 0 THEN check
              ELSE [check EXCEPT !.seen = [p \in Paths |-> @[p] \cup {now[p]}]]

-----------------------------------------------------------------------------
(* LocalFileBlobStorage.__init__ makes its root and the directories above  *)
(* it before it reads MAX_BLOB_BYTES and before the attestation adapter is *)
(* chosen; a file in the way raises, and so does what cannot be read.      *)
RootReached(e, error) ==
  /\ e.blob = "local_fs"
  /\ error \in {"ok", "invalid_max_blob_bytes"} \cup (Rechecks \ {"blob_local_root_required"})

RootBlocked == \E p \in {DataRoot, BlobRoot} : disk[p] \in {"file", "unreadable"}

Import(d) ==
  LET e     == Resolved(d.selection)
      error == StartError(e, d.env)
      made  == RootReached(e, error)
      found == IF made /\ RootBlocked THEN "blob_root_blocked" ELSE error
  IN /\ process' = [state |-> IF found = "ok" THEN "imported" ELSE "refused", settings |-> d,
                    error |-> found, report |-> RedactedReport(Loaded(d.env))]
     /\ disk' = IF made /\ ~RootBlocked
                THEN [disk EXCEPT ![DataRoot] = "directory", ![BlobRoot] = "directory"]
                ELSE disk
     /\ UNCHANGED check

Deploy == process.state = "none" /\ \E d \in Deployments : Import(d)

(* The import is over.  The settings and the report are never assigned     *)
(* again: the model forgets them, but for the paths that are named.        *)
Serve ==
  /\ process.state = "imported"
  /\ process' = [state |-> "serving", named |-> process.settings.named]
  /\ UNCHANGED <<disk, check>>

(* The process ends, and a probe with it; one that was refused has ended.  *)
Stop ==
  /\ process.state # "none"
  /\ process' = NoProcess /\ check' = NoCheck
  /\ UNCHANGED disk

(* External: a volume comes or goes, an operator makes or removes a path.  *)
(* In the other two states nothing looks at the disk: a change there is    *)
(* the same change after Serve or Stop.                                    *)
DiskChanges ==
  /\ process.state \in {"none", "serving"}
  /\ \E now \in Disks \ {disk} : Becomes(now)
  /\ UNCHANGED process

-----------------------------------------------------------------------------
(* validate_data_paths, one look at the disk at a time                     *)

BeginCheck ==
  /\ process.state = "serving" /\ check.at = 0
  /\ check' = [at |-> 1, step |-> "exists", answer |-> "none", path |-> DataRoot,
               seen |-> [p \in Paths |-> {disk[p]}]]
  /\ UNCHANGED <<process, disk>>

Answered(code) ==
  check' = [check EXCEPT !.at = 0, !.step = "exists", !.answer = code,
                         !.path = IF code = "ready" THEN DataRoot ELSE RequiredPaths[check.at]]

(* Defect: one path more than there are.                                   *)
NextPathPastTheLast ==
  IF check.at > Len(RequiredPaths) THEN Answered("ready")
  ELSE check' = [check EXCEPT !.at = @ + 1, !.step = "exists"]

NextPath ==
  IF check.at = Len(RequiredPaths) THEN Answered("ready")
  ELSE check' = [check EXCEPT !.at = @ + 1, !.step = "exists"]

(* Defect: what exists is taken for a directory.                           *)
LookForExistenceOnly ==
  LET p == RequiredPaths[check.at] IN
  /\ check.at # 0
  /\ \/ p \notin process.named /\ Answered("missing_env")
     \/ /\ p \in process.named
        /\ CASE disk[p] = "absent" -> Answered("missing_path")
             [] disk[p] = "unreadable" -> Answered("raised")
             [] OTHER -> NextPath
  /\ UNCHANGED <<process, disk>>

(* os.getenv, then path.exists(); path.is_dir() is another look.  Neither  *)
(* call is inside a try: what they raise is answered with a bare 500.      *)
Look ==
  LET p == RequiredPaths[check.at] IN
  /\ check.at # 0
  /\ \/ check.step = "exists" /\ p \notin process.named /\ Answered("missing_env")
     \/ /\ check.step = "exists" /\ p \in process.named
        /\ CASE disk[p] = "absent" -> Answered("missing_path")
             [] disk[p] = "unreadable" -> Answered("raised")
             [] OTHER -> check' = [check EXCEPT !.step = "is_dir"]
     \/ /\ check.step = "is_dir"
        /\ CASE disk[p] = "directory" -> NextPath
             [] disk[p] = "unreadable" -> Answered("raised")
             [] OTHER -> Answered("path_not_directory")
  /\ UNCHANGED <<process, disk>>

StartupNext ==
  \/ Deploy
  \/ Serve
  \/ Stop
  \/ DiskChanges
  \/ BeginCheck
  \/ Look

-----------------------------------------------------------------------------
StartupTypeOK ==
  /\ \/ process = NoProcess
     \/ process.state = "serving" /\ process.named \subseteq Paths
     \/ /\ process.state \in {"refused", "imported"}
        /\ process.settings.env \in [Variables -> Values]
        /\ process.report \in [Fields -> Values \cup {"redacted"}]
  /\ disk \in Disks
  /\ check.at \in 0..Len(RequiredPaths) /\ check.step \in {"exists", "is_dir"}
  /\ check.answer \in {"none", "ready", "missing_env", "missing_path", "path_not_directory",
                       "raised"}
  /\ check.path \in Paths /\ check.seen \in [Paths -> SUBSET Kinds]
  /\ check.at # 0 => process.state = "serving" /\ check.answer = "none"

(* What routes.py checks once more is never what stops the import: the     *)
(* provider boundary has refused every settings that would (routes.py 52,  *)
(* 64, 83 against provider_config.py 95-119).                              *)
RechecksNeverFire == process.state = "refused" => process.error \notin Rechecks

(* The provider variables without those set to "".                         *)
Unset(env) == [v \in Variables |-> IF env[v] = "empty" THEN "unset" ELSE env[v]]
Selectors == {"manifest", "blob", "attestation", "identity", "mode"}

(* A variable set to "" decides the start as one that is not set does, with *)
(* three exceptions.  A backend or a mode is refused when empty, where one *)
(* that is not set has a default (config.py 115-130).  An empty            *)
(* MAX_BLOB_BYTES is no number, and ends the start of a process with local *)
(* blobs (blob_storage.py 98).  And a reference to a blob key counts when  *)
(* empty, by a comparison with None (provider_config.py 155): with the     *)
(* other half not empty too, the pair is whole where it would be broken,   *)
(* or broken where there would be none.                                    *)
EmptyCountsAsUnset ==
  process.state \in {"refused", "imported"} =>
    LET d       == process.settings
        e       == Resolved(d.selection)
        decided == StartError(e, d.env)
        without == StartError(e, Unset(d.env))
    IN IF \E s \in Selectors : d.selection[s] = "empty" THEN decided \in Unsupported
       ELSE \/ decided = without
            \/ /\ d.env["max_blob_bytes"] = "empty" /\ e.blob = "local_fs"
               /\ decided = "invalid_max_blob_bytes"
            \/ /\ \E f, g \in {"access_key_ref", "secret_key_ref"} :
                    d.env[f] = "empty" /\ d.env[g] # "empty"
               /\ "incomplete_blob_secret_ref_pair" \in {decided, without}

(* A process that runs does what its operator asked for: every adapter     *)
(* that reaches outside the process acts exactly when ENABLE_REAL_EXECUTION *)
(* was set, and then neither the mode nor the settings such an adapter     *)
(* needs are missing (docs/m7 "Safety checks").                            *)
AskedMeansEnabled ==
  process.state = "imported" =>
    LET e == Resolved(process.settings.selection)
        w == Wired(e)
    IN /\ w.executionEnabled = e.enable
       /\ (w.attestation \in {"thronos_network", "thronos_unsigned", "rpc_generic"}) =
            (e.enable /\ e.attestation # "fake")
       /\ e.enable => /\ e.mode = "execute" /\ w.blob # "cloud_like"
                      /\ e.attestation # "fake" => process.report["rpc_url"] = "set"
                                                   /\ process.report["signer_ref"] = "redacted"

(* "ready" says that each path was a directory at some time since the      *)
(* probe began, if not all at once; a refusal says that the path it names  *)
(* was not, or has no variable, and no answer at all that it could not be  *)
(* read.  On a quiet disk all are exact.                                   *)
ReadinessHonest ==
  LET seen == check.seen[check.path] IN
  CASE check.answer = "ready"        -> \A p \in Paths : /\ "directory" \in check.seen[p]
                                                         /\ p \in process.named
    [] check.answer = "missing_env"  -> check.path \notin process.named
    [] check.answer = "missing_path" -> "absent" \in seen
    [] check.answer = "path_not_directory" ->
         "file" \in seen \/ {"absent", "directory"} \subseteq seen
    [] check.answer = "raised" -> "unreadable" \in seen
    [] OTHER -> TRUE
=============================================================================
