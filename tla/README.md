# TLA+ verification of thronos-pawssworfmanager

These modules model a vault service from the HTTP request to the attestation provider: the command pipeline and
its version chain, the execution of a command (persist a manifest, write a blob, submit an attestation), the
reconciliation of the receipts it returns, the file system adapter below it, the start of a process from its
settings, its readiness, and the diagnosis script an operator runs beside it. TLC checks them on small
instances; TLAPS proves all but one of the checked properties for every value of the constants, and how far
the divergences from the documents go. `PROJECT.json`
holds the exact correspondence of each definition to source lines, the runs, the mutants that show each
property can fail, the hazards and the findings.

Paths such as `services/orchestrator.py` are below `src/thronos_pawssworfmanager/`.

## 1. Inventory of the system

The service is a WSGI application run by one gunicorn worker per instance (`Procfile`, `-w 1`, one request at
a time). It keeps no database: what survives a restart is a directory of blob files and what a remote
provider was sent.

| Component | State | Operations | Who calls it |
|---|---|---|---|
| Command execution, `services/orchestrator.py`, `services/retry_semantics.py` | none of its own between requests | `execute`: integrity check, persist with retries, blob write with read-back, attest with retries | `routes._execute_command`, in one thread |
| Reconciliation, `services/orchestrator.py` 86-174, 424-566 | none: the receipt is carried by the caller | `reconcile_attestation_receipt`: tuple checks, poll, proof contract, transition table, replay state | a caller with a receipt; copies of it age apart |
| Attestation adapters, `adapters/attestation.py` | none | `submit_attestation`, `poll_attestation` of fake, dry-run chain, Thronos, generic RPC | the two above; HTTP to the provider with a 10 s timeout |
| Blob adapters, `adapters/blob_storage.py` | a dict, or files `<id>.blob` under a root | `put_blob`, `get_blob`, `delete_blob` | `execute`; other processes and programs on the same volume |
| Manifest store, `adapters/manifest_store.py` | a dict per process | `put_manifest_if_absent` | `execute` |
| Adapter selection and gates, `adapters/config.py`, `adapters/execution_gating.py`, `routes.py` 35-117 | module globals, fixed at import | wiring from the environment, fail-closed | import |
| Provider configuration, `adapters/provider_config.py` | none | required and contradictory settings per backend, redaction | import, status routes |
| Command pipeline, `services/command_handler.py`, `commands/`, `version_chain.py` | none: the predecessor comes with the request | build manifest, canonicalise, hash, chain node | `_execute_command` before `execute` |
| Canonicalisation and hashing, `canonical_manifest.py`, `state_hash.py`, `hash_policy.py` | none | pure functions | the pipeline, the integrity check |
| HTTP shell, `http_service.py`, `runtime.py`, `routes.py` | a route table | body decoding, version check, dispatch, error contract | gunicorn |
| Readiness, `startup_validation.py` | none | look at the data directories, one after the other | `/readyz` |
| AI Core probe, `ai_core_probe*.py`, `scripts/` | none | a GET and a POST, classify each answer, sum up | an operator |
| Policies and records, `argon2id_policy.py`, `envelope_format_spec.py`, `types.py`, ... | none | range checks | tests, the above |

What is hard:

- the middle of `execute`: its steps are calls to three places that fail independently, a provider that may
  accept a submission whose answer is lost, a file another process is replacing, a process that dies between
  two calls;
- reconciliation: answers overtaken by changes at the provider, and receipts of different ages;
- the version chain: the service keeps none and looks nothing up, so that the history of a vault is what clients
  claim of it, and a client is told of its new version only when the attestation succeeded and the answer arrived;
- the start: four layers (policy, boundary, gates, repeated checks) that must agree about what a backend needs,
  and that distinguish unset from empty in three places and nowhere else;
- readiness and the probe: they look several times at something that changes between the looks.

What makes each component correct:

- *Execution*: no side effect before the integrity check and the persistence; receipts and failures tell the
  truth about this request's submissions; bounded retries of transient failures only; a closed gate is inert;
  every request is answered.
- *Reconciliation*: an outcome in a receipt was reported by the provider for the transaction of its tuple;
  terminal outcomes stay; a repetition is called consistent when and only when it was; nothing is polled on
  mistaken tuples; a receipt never contradicts its proof; copies of a receipt end differently only if the
  provider reported both ends.
- *Local blobs*: a name never shows part of a blob, even after a power cut; no error path leaks a temporary
  file; answers were true at some time during the call.
- *Selection and start*: a process does what it was asked for or does not run, and an empty variable is no
  different from one that is not set, save where the code says otherwise.
- *Pipeline and chain*: every version ends a history a verifier accepts, or comes after one whose client named a
  predecessor the service had not returned; forks are told from mistakes; the service loses no entry: a command
  names it, or a client did not send it.
- *Readiness and probe*: what is answered was true at some time during the check.

## 2. Modules

```
RetrySemantics        classify_failure, is_retryable
      |
      |        +--refines--> RequestLifecycle
      |        |
Orchestrator --+------- OrchestratorProofs ---- AttemptsProofs --+-- LifecycleProofs
      |                                                          +-- DeploymentProofs (with ProviderConfig)
      |
MCOrchestrator ---INSTANCE--- AdapterSelection (wirings of routes.py)
                                     |
                              ProviderConfig ---- Startup --+
                                                            +-- Operations ---- OperationsProofs
                                            UpstreamProbe --+        |
                                                                MCOperations
ConfirmationProof     _validate_rpc_poll_result, proof contract, transitions
      |
Reconciliation ------ ReconciliationProofs, MCReconciliation

BlobStore  <--refined by--  LocalFileBlob ------ LocalFileBlobProofs, MCLocalFileBlob

VersionChain ---- CommandHandler ---- HttpService ---- VaultHistory ---- VaultHistoryProofs
                                                                   \---- MCVaultHistory
```

Definitions that begin with a comment `Defect:` are not part of any specification. Each is the same definition
with a plausible bug, and `PROJECT.json` names the property that notices when it takes the place of the
correct one.

### Orchestrator

A worker is a process; several workers are several instances with the same configuration. `pc[w]` names the
call the worker makes next:

| `pc` | Action | Code |
|---|---|---|
| idle, done | `Receive` | `_execute_command` calls `execute` |
| integrity | `CheckIntegrity` | `execute` 50-53, `_validate_manifest_binding` |
| persist | `Persist`, `PersistRaises`, `LoopFallsThrough` | `_persist_with_policy` |
| blob_check | `SkipBlob`, `CheckExisting`, `BlobAdapterRaises` | `_maybe_write_blob` up to the first half of `put_blob` |
| blob_write | `ReplaceBlob`, `BlobAdapterRaises` | second half of `put_blob` |
| blob_verify | `VerifyBlob`, `BlobAdapterRaises` | `get_blob` and the comparison |
| attest | `AttestLocally`, `Submit`, `LoopFallsThrough` | `_attest_with_policy` up to the request |
| await | `ReceiveReceipt`, `ReceiveFailure` | the answer, its validation, the handlers and the next turn of the loop |

The processes share the directory `SharedRoot` when the backend is `local_fs`; manifests and in-memory blobs
belong to a process and go with it (`Crash`). The provider is `submissions`, everything that was ever sent:
`ProviderDecides` accepts or refuses an entry at any time, also after the worker stopped waiting. What a
worker is told is separate from what was decided: `FailedAnswers` says which errors are possible in which
state of the submission (an answer lost to a timeout is possible in every state, a refusal only after one).

`CheckExisting` and `ReplaceBlob` split `put_blob` at the one point where another process can matter; the
system calls below are in `LocalFileBlob`. `cloud_like` backends start only with the gate closed
(`_blob_policy_allowed`), so their put is never reached.

Abstractions: a manifest stands for its SHA-256 (hashing is injective); a transaction hash is the position of
the submission it names; `verified` FALSE stands for both `False` and `None`; messages and error codes that no
property tells apart are left out. The command result is an input: a pair of a hash and of what the canonical
bytes decode to. The pipeline only produces matching pairs; the others stand for a caller of `execute` with
a corrupted or inconsistent result, for which the integrity binding exists
(`tests/test_orchestrator.py` makes such calls).

### RequestLifecycle

What `execute` promises of a request whatever adapters are behind it, without blobs, exceptions and the order of
calls: a request is accepted, its manifest kept, then sent, given up and sent again while the limit allows it and
no earlier attempt may still count, and answered with no more than the provider said. `Orchestrator` implements
it (`LifecycleImplemented`, checked by a run and proved). The mapping, at the end of `Orchestrator`:

| RequestLifecycle | Orchestrator |
|---|---|
| `limit`, `received`, `number`, `doing`, `kept` | `config.maxAttempts`, `requests`, `req`, `cmd`, `manifests` |
| `phase` | `PhaseOf(pc[w])`: received up to the persistence, kept from there to the answer |
| `answer` | `AnswerOf(response[w])`: receipt with its transaction, refused for `submission_failed_permanent`, else an error |
| `ledger` | `submissions`, an attempt being given up when its worker saw it fail transiently |

`Persist` is `Keep`, `Submit` is `Send`, `ReceiveFailure` is `GiveUp` (with or without an error) or `Answer`,
`ReceiveReceipt` and `AttestLocally` are `Answer` (`AttestLocally` stutters when it goes around the loop), `Crash`
is `Die`, and the steps of the blob store are stutters.

### AdapterSelection, ProviderConfig and Startup

`Wired(environment)` is the constructor call at the end of `routes.py`'s wiring; `WiredConfigs` is the set of
wirings a start can succeed with, and the configurations of the first run. `StartError(selection, env)` is the
import of `routes.py` in the order of the code: unsupported backends and the policy matrix
(`resolve_adapter_config`), the boundary (plain secrets, contradictions, half pairs, missing settings), the gates, the
repeated checks. `env` says of each of the provider variables, and of `MAX_BLOB_BYTES`, whether it is unset, empty
or set, as the code mostly asks for truth and in places for `None`; what a variable says is not looked at. The
backends and the mode of `selection` may themselves be unset, empty or mistyped; `Resolved` puts the defaults
for those that are unset, and the others are refused.

`Startup` is the life of a process: `Deploy` (the import, with the directories `LocalFileBlobStorage.__init__`
makes before it reads `MAX_BLOB_BYTES`, so that this and the later attestation checks leave them behind when
they refuse; something in the way is `blob_root_blocked`), `Serve`, `Stop`, and the readiness
probe: `BeginCheck` and one `Look` per `os.getenv` with `exists()`, and per `is_dir()`, on a disk that changes
(`DiskChanges`). A path that cannot be read raises out of `exists()` or `is_dir()`, and the probe ends in a bare 500
(`raised`). `check.seen` is a history variable, what each path has been since the probe began.

### UpstreamProbe and Operations

`GetAnswered` and `PostAnswered` are the two requests of `run_upstream_diagnostics`, each with the classification of
its answer; `UpstreamChanges` comes anywhere in between. `AnswersTo` says how an upstream in each of six
conditions answers, taken from what `docs/m14.6` and `docs/m14.7` observed. `Operations` composes the script
with the service: they share no state and no call, so that every behaviour belongs to one of them (`shift`).

### Reconciliation and ConfirmationProof

The service keeps no receipts, so the state is with the holders: `receipt[h]` is the copy `h` holds, and
`TakeOver` gives it to another holder. A call either ends at once (`RejectCall`, `PollLocally`) or is in
flight (`SendPoll`, `ProviderReplies`, then `ReceiveAnswer` or `PollFails`; an adapter from outside may also
raise whatever it likes, `AdapterRaises`); the provider may change its
reports at any moment in between (`ProviderMoves`), without any assumption on how. `trail` is a history
variable with the last two observations a copy took in, `past` one with everything the provider could have
reported; no action reads them.

The operators of `ConfirmationProof` are pure: `PollOf` is `_validate_rpc_poll_result`, `ProofHolds` the proof
contract, `Transitions` the table. A proof object is abstracted to well-formed or not, `provider_status` and
`confirmation_id`; tuple ids are transactions, `NoTx` for `None`, `BadTx` for anything the format checks
refuse. `"untrusted"` is an adapter from outside the repository, against which the proof contract exists
(`tests/test_orchestrator.py` constructs such adapters).

### LocalFileBlob and BlobStore

One action per system call of `put_blob`, `get_blob`, `delete_blob`. An `OSError` at a call is a second
disjunct of its action, counted by `MaxFaults`; `Die` and `PowerCut` may come between any two calls. A file is
its data and whether it was flushed; `journal[b]` is the set of files a power cut may leave at a path, that
is, the renames the file system has not written back yet (`WriteBack`). The `mkdir` of the constructor is
a step of the import, in `Startup`. The refusal `path_escape` is left out: an id of letters, digits and `._-`
holds no separator, and nothing here makes a link below the root, so that no id the first check lets
through resolves to a place outside it.

`BlobStore` is what a caller may rely on: one complete value or none under every id, changed as a whole.
`LocalFileBlob` implements it (checked by the run and proved) under the mapping `store <- dir[b].data`,
`kept <- {f.data : f \in journal[b]}`.

### VersionChain, CommandHandler, HttpService and VaultHistory

`VersionChain` is `version_chain.py`, with `IsHistory`, what a history is without the code, as the reference.
`CommandHandler` is `handle_command` with the five builders: the checks of each in their order (`BuilderError`), the
new entries, the refusals of `canonicalize_manifest`, the client's predecessor (`PreviousError`) and the
chain node. The entries a deletion leaves are computed by a recursive function (`Filtered`). A payload is a
record of all fields a command may read, each of them possibly missing or of
another type. `HttpService.Answer` is the status of a request from the body's bytes on: what `wsgi_app` makes
of the body, the version in the path, the route, and the one handler that changes state.

`VaultHistory` adds the clients. `Execute` is one request: pipeline, then, if it did not raise, a node that exists
from now on. What becomes of the command after `handle_command` (persistence, blob, attestation) is
`Orchestrator`'s subject; it decides between a 200 and the bare 500 of a store that raises, and in either case a
client that was not told the node can compute its hash. A client may claim any version, follow any predecessor
(a node that was returned, or one made up from `ClaimedHashes`) and send any list of entries, as nothing is looked
up or compared (`command_handler.py` 29-42, `commands/add_entry.py` 12). `OtherRequest` is any other path, method or
body, and `Spoilt` a valid payload with one field wrong. A body that `json.loads` raises something other than
`JSONDecodeError` for (bytes that are no UTF-8, an integer of more than 4300 digits, too deep a nesting:
`unloadable`) and an entry too deep to be serialised (`TooDeep`) pass the handlers and end in a bare 500.

| Variable | What it keeps |
|---|---|
| `accepted` | the chain nodes `handle_command` has returned |
| `astray` | those whose client named a predecessor that had not been returned |
| `altered` | those whose client did not send the entries of a returned node it named (all of `astray` among them) |
| `answer` | the status of the last answer |

`astray` and `altered` are history variables; no action reads them, save for the bound on the second.

## 3. Runs

| Run | Instance | Properties | What it shows |
|---|---|---|---|
| orchestrator_wired | 2 workers, every wiring of `routes.py`, 3 commands (matching, wrong bytes, no bytes), 2 requests, 1 crash, 1 foreign change | TypeOK, PersistedBeforeSubmitted, BoundBeforeSideEffects, ContentAddressed, GateClosedIsInert, VerifiedBlobStays | order of effects, content addressing, inert gate |
| orchestrator_retry | 2 workers, both network adapters, 1 or 2 attempts, 1 crash | ReceiptBacked, SubmissionsWithinPolicy, PermanentFailureLeavesNothing, LifecycleImplemented | receipts and failures are true of the provider; requests follow their lifecycle |
| orchestrator_live | 1 worker, all adapters, 0 to 2 attempts, a store that raises, 2 crashes, fairness | LoopsNeverFallThrough, EveryRequestAnswered | loops end, requests are answered |
| reconciliation_copies | 2 holders, 2 transactions, 3 calls, 2 moves of the provider | TypeOK, OutcomeWasObserved, LifecycleAgrees, ConsistentMeansStable, TerminalOutcomeStays, CopiesPartWithTheProvider | receipts agree with the provider's history, and with each other as far as it lets them |
| reconciliation_mistaken | 1 holder, wrong tuples, every adapter and an untrusted one, 2 calls | ProofAgrees, PollsAreIdentified | callers that mistake their tuples, adapters that answer anything or raise |
| local_file_blob | 2 processes, 1 blob id, 2 values, 4 calls, 2 faults | TypeOK, NoTornBlob, TempFilesAccountedFor, AnswersWereTrue, ClosedGateWritesNothing, BlobStoreImplemented | atomic writes under failures |
| vault_history | 1 vault, 2 entry ids, 2 made-up hashes (one of nothing, one of an empty vault nobody was told of), versions up to 3, 3 chain nodes of which at most 1 alters what it follows, every command, every field spoilt, 5 other paths and all kinds of bodies | TypeOK, EveryNodeVerifies, VerifyChainExact, ForksReported, LossesAreExplained | what a history kept by clients is worth, whatever they claim |
| operations | every choice of 3 blob and all attestation backends, modes and flags, with one variable changed, or two of the eight the code compares or reads outside the boundary, or with a backend or the mode unset, empty or mistyped; 3 paths; 6 conditions of the upstream | TypeOK, RechecksNeverFire, EmptyCountsAsUnset, AskedMeansEnabled, ReadinessHonest, DiagnosisFits | starts fail closed, readiness and diagnosis are true of some moment |
| orchestrator_mismatch | as below | MismatchFailsHard (violated) | finding 1 |
| orchestrator_timeout | | TransientIsRetryable (violated) | finding 2 |
| reconciliation_statusless | | AnswersPassTheContract (violated) | finding 3 |
| reconciliation_first | | FirstObservationIsFirst (violated) | finding 4 |

### Bounds

Two workers are the smallest number that interleaves, and requests of different workers interact only through
one blob id and the list of submissions, so that two requests meet in every way two can. One request more per
worker adds only sequences of independent requests. Two attempts show a retry; the policy's number is
otherwise a counter, and the proofs hold for any. One crash and one foreign change may fall at every point of
a run. Three reconciliations give a chain of a first, a second and a third observation, which is what replay
states and terminal outcomes relate; two moves of the provider make a status and its withdrawal. One blob id is
enough for the file store: paths of different ids share nothing but the count of temporary files. Two faults
let a cleanup fail after a failed write. Workers, holders and processes are symmetry sets; nothing singles one
out (the live run, which checks liveness, uses one worker and no symmetry).

In `vault_history` no client is told from another: a request depends on the claims it makes, and every claim may be
anybody's. Requests are taken one at a time, as the one worker of the `Procfile` takes them; several processes
would differ only in their manifest stores, which nothing here reads. Three chain nodes make a chain of three,
a fork at the first or the second version, two separate roots, and a node astray with one after it, which are
the shapes the verifier and the properties tell apart. `MaxAltered` bounds how many of the three do not carry on:
one is enough to cut a history at each of its places, and a second one makes only what the first one makes (a
node astray after a node astray is after a node astray). `MaxVersion` also bounds the sequences of nodes given to `verify_chain`: every sequence of up to three, in any order and with
repetitions, and each history with one node more. The proofs lift all of these bounds.

In `operations`, a refusal depends on one missing or surplus variable, or on a pair of them. One changed
variable per choice of backends meets every check; two are changed where the code compares them with each
other (the pairs of references, the two names of the signer, header and its reference) or reads them outside
the boundary (`MAX_BLOB_BYTES` after the root). The backends and the mode are refused one by one, so that
one of them is left out at a time, and all of them once. The three paths are the data root and two below it, of
which one is the blob root: each of first, middle and last. The disk changes only while there is no process or
one that serves: in the other two states nothing looks at it, and a change there is the same change before or
after.

Deadlock checking is off where the bounds on requests, calls and faults stop the models when they are spent;
`VaultHistory` and `Operations` always have a next request or change, and are checked for deadlock.

### Fairness

`FairSpec` assumes weak fairness of each worker's own steps and of nothing else. A process that is running
keeps executing Python, and the one place where it waits, `urlopen(..., timeout=10)`, returns or raises; the
model's `ReceiveFailure` with a lost answer is always enabled while a worker waits. Nothing is assumed of the
provider, of clients or of crashes: `EveryRequestAnswered` allows the answer to be the death of the process.
No other component promises that something happens: the pipeline and the shell are functions, and a holder or
an operator asks again or does not.

## 4. Proofs

36 of the 37 properties the passing runs check are also theorems, which hold for every value of the constants
that satisfies the assumptions of the modules; ten further theorems go beyond what the runs check. The list is
`PROJECT.json`, "theorems".

| Module | Properties proved |
|---|---|
| OrchestratorProofs | TypeOK, PersistedBeforeSubmitted, BoundBeforeSideEffects, ReceiptBacked, LoopsNeverFallThrough, ContentAddressed, GateClosedIsInert, VerifiedBlobStays; and RetriedOnlyWhenTransient, which the lifecycle implies |
| AttemptsProofs | SubmissionsWithinPolicy, PermanentFailureLeavesNothing; and `RequestsRunOut` |
| LifecycleProofs | LifecycleImplemented |
| DeploymentProofs | `WiringsFit`, `StartedIsWired`, `DeployedProcesses`, `MismatchNeedsForeignWrite`, `OnlySimulationDiffers` |
| ReconciliationProofs | TypeOK, OutcomeWasObserved, ProofAgrees, LifecycleAgrees, ConsistentMeansStable, TerminalOutcomeStays, CopiesPartWithTheProvider, PollsAreIdentified; and `FirstIsAlwaysMismatch`, `StatuslessAloneIsRefused` |
| LocalFileBlobProofs | TypeOK, NoTornBlob, TempFilesAccountedFor, AnswersWereTrue, ClosedGateWritesNothing, BlobStoreImplemented |
| VaultHistoryProofs | TypeOK, EveryNodeVerifies, VerifyChainExact, ForksReported, LossesAreExplained; and `VerifyChainIsExact`, about `verify_chain` alone |
| OperationsProofs | TypeOK, RechecksNeverFire, EmptyCountsAsUnset, AskedMeansEnabled, ReadinessHonest, DiagnosisFits |

### Orchestrator

The assumptions are `CommandsAssumption`, `ConfigsAssumption`, `DistinctAssumption` and `BoundsAssumption`.
`ConfigsAssumption` carries the two facts about wirings that `routes.py` establishes: a network adapter is
wired only with the gate open, and a cloud-like blob backend only with the gate closed. TLC evaluates it on
`WiredConfigs`.

The argument is an inductive invariant in three layers. `IInv` (in `Orchestrator.tla`) joins the first six
properties with what makes them inductive:

- `AwaitsOwnSubmission`: a waiting worker waits for an entry of its own request that nobody has answered. It
  is why a receipt is for a submission of this request that the provider accepted (`ReceiptOnRecord`).
- `RequestsNumbered`: no two workers serve the same request number, and no submission is of a request yet to
  come. Without it the step of one worker could spoil what holds of another's submissions.
- `EarlierAttemptsFailed`: whatever a request has sent before its present attempt failed transiently, and
  before the attestation it has sent nothing. `RetriedOnlyWhenTransient` says this of pairs of submissions and
  does not say where the worker stands, so a `Submit` would not preserve it. With `ReceiptOnRecord` it gives
  `ReceiptBacked`: the submission a receipt names is the last of its request, and all the others came before
  and were seen to fail transiently, so that no receipt is of an attempt the service had given up.
- `AttemptsLeft`: the loop is entered and re-entered only with an attempt left. `LoopsNeverFallThrough` alone
  says nothing about the counter.
- `BlobStepsGuarded`: the write and the read-back are reached only past both checks.

`StoreInv` adds the three properties of the blob store on top of `IInv`. `IInvStep` first proves types, then
has one lemma per conjunct. Steps that leave the submissions alone are treated together
(`QuietSteps`); those of the provider and of the three provider-facing actions separately. `WorkerStep` shows
that a worker's step keeps its own part and `OthersUntouched` that it keeps the others'. TLC has checked `IInv`
itself on the three passing Orchestrator configurations.

`AttemptsInv` adds per worker `Counted`, which ties the loop's counter to the set of the request's submissions
(in the attestation loop there are at most `attempts[w]` of them: the counter may be ahead, never behind), and
`Final`: only an answered request has a permanent failure, and then everything it sent was refused. The
provider does not take a refusal back (`RefusedStays`), which makes `Final` survive its late decisions. `AllCounted`
keeps the bound for requests nobody serves any more: after an answer or a death nothing is sent in their name.

`RequestsRunOut` is the part of `EveryRequestAnswered` that needs no fairness. `StepsLeft(w)` is a number, at most
3 * maxAttempts + 6 and computed from `pc[w]` and `attempts[w]`, of which every step of worker `w` uses up at least
one and which the rest of the system leaves alone; only a new request gives it back. A worker that keeps taking
steps must therefore come to its answer. That it does keep taking them is the fairness TLC assumes.

The refinement needs two facts that no property of the runs states. An adapter that contacts nobody has sent
nothing (`OnlyNetworkAdaptersSend`), so that a receipt without a transaction is one of an empty ledger; and by
`EarlierAttemptsFailed` at most the present attempt stands, which gives `Send` its guard and `GiveUp` its
entry. The limit is `Counted` again. `LifecycleProofs` then has one lemma per action of `Orchestrator`, grouped by what
it does to the ledger.

### Deployment

The theorems above are about any configuration that satisfies `ConfigsAssumption`. `DeploymentProofs` connects them with
the start: `WiringsFit` derives that assumption, and the single attempt `routes.py` leaves by default, from
the policy and the gates; `StartedIsWired` shows the set `WiredConfigs` neither too small nor too large, by giving for
each environment that the policy allows the settings it needs and no others (`Enough`), and following the import
through each of its checks. `DeployedProcesses` puts them together: whatever the provider and deaths do, a
deployed service sends each request at most once, `submission_failed_permanent` means that nothing was accepted or
can still be, and no call of `execute` raises.

Two further theorems are the limits of findings 1 and 2. `MismatchIsForeign` is inductive together with
`ContentAddressed`: the bytes read back differ from those written only if another program wrote to the
directory. `OnlySimulatedDiffers` needs that a worker waits for a submission of its own (`AwaitsOwnSubmission`), and
then that each kind of failed answer carries the documented state.

### Reconciliation

From `ReconciliationAssumption`. The properties are about each holder's copy, and a copy is only as good as
what it was made from: the invariant says of every receipt with its trail that it is a `Copy` (the receipt is
what its last observation made of it, two observations relate as `Repeats` says, outcome, proof and lifecycle
agree), of every call in flight that its tuple was identified and its answer is one the provider gave
(`CallOK`), and that every present report is among the past ones (`ReportsKept`). `Copy` is one predicate of a
receipt and a trail, so that `TakeOver` needs no proof of its own beyond substitution. It contains the whole of
`docs/m12.1`'s table (`Proven`), which holds of every receipt that was ever reconciled, whatever adapter answered:
the finality is that of the confirmation, also when it is inherited. `CopiesPartWithTheProvider` follows:
of two copies with different ends, each end was observed, and what was observed the provider had reported.

`FirstIsAlwaysMismatch` and `StatuslessAloneIsRefused` are the limits of findings 3 and 4: what the two runs show in one
behaviour happens at every first reconciliation, and to all answers without a status and no others.

### LocalFileBlob

From `LocalFileBlobAssumption`. `NoTornBlob` is not inductive, as it says nothing of the temporary file a
rename is about to publish. The invariant has `FilesWhole` (what is at a path, and all a power cut may bring back,
is whole and flushed), `CallOK` (past the flush the temporary file holds the caller's data; what the call has
found so far was at the path during the call), `Accounted` (the temporary files are those of open puts and the
lost ones) and `GateOK` (behind a closed gate no put begins). The refinement of `BlobStore` maps `PutReplace`
and `DeleteUnlink` to a change, `WriteBack` to a flush, `PowerCut` to a power failure, everything else to a
stutter.

### VaultHistory

From `VaultHistoryAssumption`, and for `EveryNodeVerifies`, `VerifyChainExact` and `ForksReported` also from
`NoneIsNoNode`, a hypothesis of these theorems: `None` is not a record with the fields of a node. It is true of
every model value TLC is given and the one fact TLC cannot evaluate.

The invariant says that every node ends a lineage of accepted nodes, each after the one before it, that is a
history or starts with a node astray (`EndsALineage`). It is inductive because a new node is the first of a vault,
or names a returned node, whose lineage it carries on, or is astray itself. `VerifyChainIsExact`
is a statement about every sequence of nodes, of any length, without any state: the node at the smallest place
that is wrong is found out by the loop, since the place before it was right.

`LossesAreExplained` compares two versions any number of steps apart. The invariant says of one step that a node
that is not `altered` names every entry its predecessor had and it has not (`NamesItsLosses`); the losses between two
versions are then found at the smallest place of the history that lacks the entry. For one step, `FilteredKeeps` (what a
deletion keeps and what it drops, by induction over the places) gives the ids of the new manifest; it needs
that entries are a sequence (`IsSequence`), the only thing the proof asks of what clients send.

### Operations

From `StartupAssumption`. `ProcessOK` (a process that was started is what `StartError` and `RedactedReport` made of one
deployment) reduces the three properties of the start to facts about one pair of settings; `CheckOK` (the paths
before the present one were seen as directories, the present one, past `exists()`, was seen as something) carries
`ReadinessHonest`; `ProbeOK` (the GET was answered by a condition the upstream was in) carries `DiagnosisFits`.

### Only model-checked

- `EveryRequestAnswered`: TLAPS does not reason about fairness and ENABLED. Its variant, `StepsLeft`, is proved;
- the four violated properties of section 5.

## 5. Findings

1. *Blob mismatch does not fail the request.* `docs/m8.2-blob-manifest-integrity-binding.md:12` says a mismatch at
   the read-back "fails hard"; `execute` (orchestrator.py:60) never looks at the blob receipt and goes on to the
   attestation. Proved: the mismatch needs a write by another program (`MismatchNeedsForeignWrite`); the processes
   of the service never cause it for each other.
2. *Simulated timeout.* `docs/m10.2-thronos-attestation-lifecycle-hardening.md:10` gives transient failures the
   state `submission_failed_retryable`; a bare `TimeoutError` gets `submission_unknown` (orchestrator.py:416).
   Proved: every other transient failure of the attestation is answered as documented (`OnlySimulationDiffers`); the
   simulated one is wired only with the gate closed (`WiringsFit`).
3. *An answer without a status* is turned into an `unknown` poll by the adapter (attestation.py:761) that the
   proof contract then refuses as a permanent error; `docs/m11-thronos-finality-polling-reconciliation.md:53`
   describes `unknown` for it.
   Proved: it is refused always, and no other answer of the provider is (`StatuslessAloneIsRefused`).
4. *First observation.* `execute` already stores a replay key, so that `first_observation`
   (`docs/m12-thronos-finality-replay-truth-layer.md:28`) is never given to a receipt of this service; its first
   reconciliation is a `repeated_observation_mismatch` (orchestrator.py:437). Proved: always (`FirstIsAlwaysMismatch`).

What the models also show, with or without a document to compare:

- a process that dies, or whose unlink fails, leaves a temporary file that nothing ever removes (`lost` in
  `LocalFileBlob`), and a retry after a lost answer may produce one transaction per attempt
  (`SubmissionsWithinPolicy` is the bound there is);
- a command whose attestation failed is persisted and answered with 200 but without `chain_node`: its client can
  only ask again from the node before, and the versions diverge;
- a client may name a predecessor the service never returned, and gets a node (`tests/test_command_handler.py:27-39`
  shows one with the parent `h1`); it ends no history of returned nodes, nor does what is built on it (`astray` in
  `EveryNodeVerifies`);
- a request may carry any list of entries, an older version's or none at all (a missing `entries` is taken to be
  empty), and the new version drops what it leaves out (`altered` in `LossesAreExplained`);
- the hash of a manifest does not cover the parent, so that two nodes with one manifest and different parents
  are no fork to `verify_chain`; it calls the second one a version that does not follow (`ForksReported` says exactly when);
- an empty variable counts as unset with three exceptions, which `EmptyCountsAsUnset` names: an empty backend or
  mode is refused where an unset one is defaulted (`adapters/config.py` 115-130), an empty `MAX_BLOB_BYTES` raises
  (`adapters/blob_storage.py` 98), and in the pair of blob key references an empty one counts as given, as the code
  compares with `None` (`adapters/provider_config.py` 155): a reference with an empty partner starts, an empty one alone
  does not;
- `docs/m6-secrets-provider-config-boundary.md:27` has `*_REF` fields shown only redacted; `ATTESTATION_GAS_POLICY_REF`
  is reported as it is (`adapters/provider_config.py` 198), and the code does not count it among the sensitive ones
  (`RedactedReport`, `SensitiveRefs`);
- some bodies and entries that are JSON get neither an answer nor an error object but a bare 500
  (`http_service.py` 27-30 catches `JSONDecodeError` only), and so does a readiness probe of a path that cannot be read
  (`startup_validation.py` 29);
- an accepted submission whose answer has a status outside the adapter's list is reported as `submission_rejected`
  (attestation.py:644, `UnlistedStatus`); `docs/m10.1` gives it that code, so that no property says otherwise;
- a repetition is called `consistent` when tuple, outcome, finality and confirmation id agree; the provider's own
  status may have moved between two words for one outcome (`ConsistentMeansStable` claims no more);
- the pair of signer and contract address is not required of `rpc_generic`, for which a contract address is a
  contradiction;
- `attestation_execution_enabled` in the reports follows the gate, also when the adapter is the fake one;
- the diagnosis has three blind spots, as far as the rules of `ai_core_probe.py` go: no connection at all is not
  an availability incident, neither is a 503 that only the POST meets, and a receipt that quotes `ai:attest` is
  read as a missing scope. The last is outside the model (how the upstream words a receipt is unknown here).

## 6. Not modelled

- *Static data and policies*: the Argon2id and envelope policies, the identity adapter, record types, the
  deterministic vectors, `internal_commands.py` and `command_validation.py` are constants and stateless
  checks; no route calls the last two except to serve them.
- *Contents of reports*: `/v1/config`, `/v1/capabilities`, `/v1/metadata` and the contracts are constant after the import; the
  redacted provider settings, the one part with a promise, are modelled (what they leave unredacted is in section 5).
- *Data*: hashing, base64 and JSON are taken to be injective; the format checks of ids and the bodies of RPC requests are
  not examined. Of `MAX_BLOB_BYTES` only the empty value is told from a number, not a word or a negative one. `PORT` is
  left out: only the entry point reads it, after all that is modelled.
- *Other vaults*: `prev_chain_node` may be a node of another vault; the code does not look, and no document
  promises that it does. The modules and the proofs have any number of vaults; the run has one, as a second is
  beyond what it can explore in minutes. A predecessor of another vault that was returned is carried on like any
  other, so that a history may change vaults, and one that was not leads astray.
- *Threads*: the server runs one request at a time, and `wsgiref` and gunicorn's sync worker agree in that.
- *Operations without an effect*: `has_manifest` and `get_manifest` have no caller; what `get_attestation` returns
  (orchestrator.py:75) is copied into the answer and decides nothing.
- *Mounts*: readiness cannot tell a missing volume from the directories the blob adapter makes in its place,
  and neither does the model.

## 7. Plan

What is left is smaller than what is done:

1. `VaultHistory` and `Orchestrator` as one specification, at a size TLC can explore: the two meet in one value,
   the command result, whose two sides are covered separately now.
2. An abstract specification of a receipt whose outcome is written once, refined by `Reconciliation`:
   `TerminalOutcomeStays` and `OutcomeWasObserved` are its parts.
3. `Orchestrator` on top of `BlobStore`: `CheckExisting` and `ReplaceBlob` as calls of the store `LocalFileBlob` implements.

## 8. Running

    tlc -config MCOrchestrator_wired.cfg MCOrchestrator
    tlc -config MCReconciliation_copies.cfg MCReconciliation
    tlc -config MCLocalFileBlob.cfg MCLocalFileBlob
    tlc -config MCVaultHistory.cfg MCVaultHistory
    tlc -config MCOperations.cfg MCOperations
    tlapm OrchestratorProofs.tla

With two TLC workers no run takes longer than two minutes. `AttemptsProofs` extends `OrchestratorProofs`,
`LifecycleProofs` and `DeploymentProofs` extend `AttemptsProofs`; the other proof modules stand alone.
