---------------------------- MODULE LocalFileBlob ----------------------------
(***************************************************************************)
(* LocalFileBlobStorage (adapters/blob_storage.py), one action per system  *)
(* call that matters to another process, for several processes that share  *)
(* the root directory.  Processes die between any two calls, calls fail    *)
(* with OSError, and the machine may lose power.                           *)
(*                                                                         *)
(* A file is [data, synced].  Data that was not complete when its file was *)
(* seen, or not flushed when the power went, reads as Torn.                *)
(***************************************************************************)
EXTENDS Naturals, FiniteSets

CONSTANTS
  Procs,              \* the processes that mount the root directory
  BlobIds, Data,      \* blob ids that pass _BLOB_ID, blobs within the size limit
  NoBlob, Torn,       \* no file; a file with part of its bytes
  Gates,              \* values of exec_enabled the processes may be started with
  MaxCalls, MaxFaults \* bounds: calls of the adapter; deaths, failing calls, power cuts

Statuses == {"created", "duplicate", "overwritten"}
ErrorCodes == {"execution_gate_closed", "size_limit_exceeded", "invalid_blob_id", "write_failed",
               "read_not_found", "read_failed", "delete_not_found", "delete_failed", "untyped"}

ASSUME LocalFileBlobAssumption ==
  /\ IsFiniteSet(Procs) /\ BlobIds # {} /\ Data # {}
  /\ NoBlob \notin Data /\ Torn \notin Data /\ NoBlob # Torn
  /\ (Data \cup {Torn}) \cap ({"none", "deleted"} \cup Statuses \cup ErrorCodes) = {}
  /\ Gates \subseteq BOOLEAN
  /\ MaxCalls \in Nat /\ MaxFaults \in Nat

VARIABLES
  execEnabled,  \* exec_enabled, the same in all processes
  dir,          \* [blob id -> the file at its path]
  journal,      \* [blob id -> the files a power cut may leave at its path]
  pc,           \* [process -> the system call it makes next]
  op,           \* [process -> blob id and data of its call]
  status,       \* [process -> the status put_blob will return]
  temp,         \* [process -> its temporary file]
  tempFiles,    \* how many files named .tmp_blob_* are in the root directory
  lost,         \* how many of them a death or a failed unlink left behind
  result,       \* [process -> what its last call returned or raised]
  seen,         \* [process -> what was at the path while its call ran]
  calls, faults    \* the counters the bounds apply to

vars == <<execEnabled, dir, journal, pc, op, status, temp, tempFiles, lost, result, seen,
          calls, faults>>

NoFile == [data |-> NoBlob, synced |-> TRUE]
Files == [data : Data \cup {NoBlob, Torn}, synced : BOOLEAN]

Labels == {"idle", "put_exists", "put_read", "put_mkstemp", "put_write", "put_fsync",
           "put_replace", "put_cleanup", "get_exists", "get_read", "delete_exists",
           "delete_unlink"}

TypeOK ==
  /\ execEnabled \in Gates
  /\ dir \in [BlobIds -> Files]
  /\ journal \in [BlobIds -> SUBSET Files]
  /\ pc \in [Procs -> Labels]
  /\ op \in [Procs -> [blob : BlobIds, data : Data]]
  /\ status \in [Procs -> Statuses]
  /\ temp \in [Procs -> Files]
  /\ tempFiles \in Nat /\ lost \in Nat
  /\ result \in [Procs -> {"none", "deleted"} \cup Statuses \cup ErrorCodes \cup Data \cup {Torn}]
  /\ seen \in [Procs -> SUBSET (Data \cup {NoBlob, Torn})]
  /\ calls \in Nat /\ faults \in Nat

Init ==
  /\ execEnabled \in Gates
  /\ dir = [b \in BlobIds |-> NoFile]
  /\ journal = [b \in BlobIds |-> {NoFile}]
  /\ pc = [p \in Procs |-> "idle"]
  /\ op \in [Procs -> {CHOOSE o \in [blob : BlobIds, data : Data] : TRUE}]
  /\ status = [p \in Procs |-> "created"]
  /\ temp = [p \in Procs |-> NoFile]
  /\ tempFiles = 0 /\ lost = 0
  /\ result = [p \in Procs |-> "none"]
  /\ seen = [p \in Procs |-> {}]
  /\ calls = 0 /\ faults = 0

At(p, label) == pc[p] = label
Goto(p, label) == pc' = [pc EXCEPT ![p] = label] /\ UNCHANGED result
Return(p, r) == pc' = [pc EXCEPT ![p] = "idle"] /\ result' = [result EXCEPT ![p] = r]
Here(p) == dir[op[p].blob]

(* An OSError of a call.                                                   *)
Fault == faults < MaxFaults /\ faults' = faults + 1
NoFault == UNCHANGED faults

FileFrame == <<dir, journal, seen>>
TempFrame == <<temp, tempFiles, lost>>
CallFrame == <<execEnabled, op, calls>>

(* Every change of a path is noticed by the calls running on it.           *)
PutAt(b, file) ==
  /\ dir' = [dir EXCEPT ![b] = file]
  /\ journal' = [journal EXCEPT ![b] = @ \cup {file}]
  /\ seen' = [q \in Procs |->
                IF pc[q] # "idle" /\ op[q].blob = b THEN seen[q] \cup {file.data} ELSE seen[q]]

-----------------------------------------------------------------------------
Call(p, label, b, d) ==
  /\ At(p, "idle") /\ calls < MaxCalls
  /\ calls' = calls + 1
  /\ op' = [op EXCEPT ![p] = [blob |-> b, data |-> d]]
  /\ seen' = [seen EXCEPT ![p] = {dir[b].data}]
  /\ Goto(p, label)
  /\ NoFault /\ UNCHANGED <<execEnabled, dir, journal, status, TempFrame>>

(* Defect: put_blob does not look at the gate.                             *)
StartPutUngated(p, b, d) == Call(p, "put_exists", b, d)

(* put_blob past the gate and the size limit; get_blob and delete_blob,    *)
(* which look at neither                                                   *)
StartPut(p, b, d) == execEnabled /\ Call(p, "put_exists", b, d)
StartGet(p, b) == Call(p, "get_exists", b, op[p].data)
StartDelete(p, b) == Call(p, "delete_exists", b, op[p].data)

(* The errors raised before the file system is looked at: the gate and the *)
(* size limit (put_blob only), then the format of the blob id.             *)
Refuse(p, code) ==
  /\ At(p, "idle") /\ calls < MaxCalls
  /\ calls' = calls + 1
  /\ code \in IF execEnabled THEN {"size_limit_exceeded", "invalid_blob_id"}
              ELSE {"execution_gate_closed", "invalid_blob_id"}
  /\ Return(p, code)
  /\ NoFault /\ UNCHANGED <<execEnabled, op, status, TempFrame, FileFrame>>

(* path.exists(), and the errors it does not take for False                *)
PutExists(p) ==
  /\ At(p, "put_exists")
  /\ \/ Goto(p, IF Here(p) = NoFile THEN "put_mkstemp" ELSE "put_read") /\ NoFault
     \/ Return(p, "untyped") /\ Fault
  /\ status' = [status EXCEPT ![p] = "created"]
  /\ UNCHANGED <<CallFrame, TempFrame, FileFrame>>

(* Defect: a blob that is there is taken for the same blob.                *)
PutReadTrustsTheName(p) ==
  /\ At(p, "put_read")
  /\ Return(p, "duplicate") /\ UNCHANGED status
  /\ NoFault /\ UNCHANGED <<CallFrame, TempFrame, FileFrame>>

(* read_bytes() outside the try: an OSError, as that of a file deleted     *)
(* since exists(), leaves put_blob untyped                                 *)
PutRead(p) ==
  /\ At(p, "put_read")
  /\ \/ /\ Here(p) # NoFile /\ Here(p).data = op[p].data
        /\ Return(p, "duplicate") /\ NoFault /\ UNCHANGED status
     \/ /\ Here(p) # NoFile /\ Here(p).data # op[p].data
        /\ status' = [status EXCEPT ![p] = "overwritten"]
        /\ Goto(p, "put_mkstemp") /\ NoFault
     \/ Here(p) = NoFile /\ Return(p, "untyped") /\ NoFault /\ UNCHANGED status
     \/ Return(p, "untyped") /\ Fault /\ UNCHANGED status
  /\ UNCHANGED <<CallFrame, TempFrame, FileFrame>>

PutMkstemp(p) ==
  /\ At(p, "put_mkstemp")
  /\ \/ /\ temp' = [temp EXCEPT ![p] = [data |-> Torn, synced |-> FALSE]]
        /\ tempFiles' = tempFiles + 1
        /\ Goto(p, "put_write") /\ NoFault
     \/ Return(p, "untyped") /\ Fault /\ UNCHANGED <<temp, tempFiles>>
  /\ UNCHANGED <<CallFrame, status, lost, FileFrame>>

(* Defect: an error leaves the function without the finally clause.        *)
FailWithoutCleanup(p) == Fault /\ Return(p, "write_failed")

(* An OSError in the try block: on to the finally clause, to be raised as  *)
(* write_failed.  The temporary file is still there.                       *)
Fail(p) == Fault /\ Goto(p, "put_cleanup")

(* handle.write, handle.flush                                              *)
PutWrite(p) ==
  /\ At(p, "put_write")
  /\ \/ /\ temp' = [temp EXCEPT ![p].data = op[p].data]
        /\ Goto(p, "put_fsync") /\ NoFault
     \/ Fail(p) /\ UNCHANGED temp
  /\ UNCHANGED <<CallFrame, status, tempFiles, lost, FileFrame>>

(* Defect: os.fsync is left out.                                           *)
PutFsyncSkipped(p) ==
  /\ At(p, "put_fsync")
  /\ Goto(p, "put_replace")
  /\ NoFault /\ UNCHANGED <<CallFrame, status, TempFrame, FileFrame>>

PutFsync(p) ==
  /\ At(p, "put_fsync")
  /\ \/ /\ temp' = [temp EXCEPT ![p].synced = TRUE]
        /\ Goto(p, "put_replace") /\ NoFault
     \/ Fail(p) /\ UNCHANGED temp
  /\ UNCHANGED <<CallFrame, status, tempFiles, lost, FileFrame>>

(* os.replace; exists(temp_name) in the finally clause is false after it   *)
PutReplace(p) ==
  /\ At(p, "put_replace")
  /\ \/ /\ PutAt(op[p].blob, temp[p])
        /\ temp' = [temp EXCEPT ![p] = NoFile]
        /\ tempFiles' = tempFiles - 1
        /\ Return(p, status[p]) /\ NoFault
     \/ Fail(p) /\ UNCHANGED <<temp, tempFiles, FileFrame>>
  /\ UNCHANGED <<CallFrame, status, lost>>

(* os.path.exists and os.unlink in the finally clause.  An error of the    *)
(* former is taken for False, one of the latter replaces write_failed.     *)
PutCleanup(p) ==
  /\ At(p, "put_cleanup")
  /\ temp' = [temp EXCEPT ![p] = NoFile]
  /\ \/ /\ tempFiles' = tempFiles - 1
        /\ Return(p, "write_failed") /\ NoFault /\ UNCHANGED lost
     \/ /\ Return(p, "write_failed") \/ Return(p, "untyped")
        /\ Fault /\ lost' = lost + 1 /\ UNCHANGED tempFiles
  /\ UNCHANGED <<CallFrame, status, FileFrame>>

GetExists(p) ==
  /\ At(p, "get_exists")
  /\ \/ Here(p) = NoFile /\ Return(p, "read_not_found") /\ NoFault
     \/ Here(p) # NoFile /\ Goto(p, "get_read") /\ NoFault
     \/ Return(p, "untyped") /\ Fault
  /\ UNCHANGED <<CallFrame, status, TempFrame, FileFrame>>

(* Defect: a file deleted since exists() is not expected.                  *)
GetReadUnguarded(p) ==
  /\ At(p, "get_read")
  /\ Return(p, Here(p).data) /\ NoFault
  /\ UNCHANGED <<CallFrame, status, TempFrame, FileFrame>>

GetRead(p) ==
  /\ At(p, "get_read")
  /\ \/ Here(p) # NoFile /\ Return(p, Here(p).data) /\ NoFault
     \/ Here(p) = NoFile /\ Return(p, "read_failed") /\ NoFault
     \/ Return(p, "read_failed") /\ Fault
  /\ UNCHANGED <<CallFrame, status, TempFrame, FileFrame>>

DeleteExists(p) ==
  /\ At(p, "delete_exists")
  /\ \/ Here(p) = NoFile /\ Return(p, "delete_not_found") /\ NoFault
     \/ Here(p) # NoFile /\ Goto(p, "delete_unlink") /\ NoFault
     \/ Return(p, "untyped") /\ Fault
  /\ UNCHANGED <<CallFrame, status, TempFrame, FileFrame>>

DeleteUnlink(p) ==
  /\ At(p, "delete_unlink")
  /\ \/ /\ Here(p) # NoFile /\ PutAt(op[p].blob, NoFile)
        /\ Return(p, "deleted") /\ NoFault
     \/ Here(p) = NoFile /\ Return(p, "delete_failed") /\ NoFault /\ UNCHANGED FileFrame
     \/ Return(p, "delete_failed") /\ Fault /\ UNCHANGED FileFrame
  /\ UNCHANGED <<CallFrame, status, TempFrame>>

-----------------------------------------------------------------------------
(* Process deaths, the file system's own write-back, and power cuts        *)

Open(p) == pc[p] \in {"put_write", "put_fsync", "put_replace", "put_cleanup"}

Die(p) ==
  /\ ~At(p, "idle") /\ Fault
  /\ Return(p, "none")
  /\ temp' = [temp EXCEPT ![p] = NoFile]
  /\ lost' = lost + (IF Open(p) THEN 1 ELSE 0)
  /\ UNCHANGED <<CallFrame, status, tempFiles, FileFrame>>

WriteBack(b) ==
  /\ journal[b] # {dir[b]}
  /\ journal' = [journal EXCEPT ![b] = {dir[b]}]
  /\ UNCHANGED <<execEnabled, dir, pc, op, status, TempFrame, result, seen, calls, faults>>

(* Temporary files are counted as if they all came back.                   *)
(* Every path shows a file of its journal; one that was not synced may     *)
(* have lost bytes.  All processes die.                                    *)
AfterCut(file) == IF file.synced THEN {file} ELSE {file, [data |-> Torn, synced |-> TRUE]}

PowerCut ==
  /\ Fault
  /\ dir' \in [BlobIds -> UNION {AfterCut(f) : f \in UNION {journal[b] : b \in BlobIds}}]
  /\ \A b \in BlobIds : \E f \in journal[b] : dir'[b] \in AfterCut(f)
  /\ journal' = [b \in BlobIds |-> {dir'[b]}]
  /\ pc' = [p \in Procs |-> "idle"]
  /\ result' = [p \in Procs |-> "none"]
  /\ temp' = [p \in Procs |-> NoFile]
  /\ lost' = lost + Cardinality({p \in Procs : Open(p)})
  /\ UNCHANGED <<CallFrame, status, tempFiles, seen>>

Next ==
  \/ \E p \in Procs, b \in BlobIds : \/ \E d \in Data : StartPut(p, b, d)
                                     \/ StartGet(p, b) \/ StartDelete(p, b)
  \/ \E p \in Procs, code \in ErrorCodes : Refuse(p, code)
  \/ \E p \in Procs :
        \/ PutExists(p) \/ PutRead(p) \/ PutMkstemp(p) \/ PutWrite(p) \/ PutFsync(p)
        \/ PutReplace(p) \/ PutCleanup(p)
        \/ GetExists(p) \/ GetRead(p) \/ DeleteExists(p) \/ DeleteUnlink(p)
        \/ Die(p)
  \/ \E b \in BlobIds : WriteBack(b)
  \/ PowerCut

Spec == Init /\ [][Next]_vars

-----------------------------------------------------------------------------
(* Properties                                                              *)

(* docs/m8.1, atomic writes: no reader and no restart ever meets a file at *)
(* a blob path with part of its bytes.                                     *)
NoTornBlob ==
  \A b \in BlobIds : dir[b].data # Torn /\ \A f \in journal[b] : f.synced /\ f.data # Torn

(* Every temporary file belongs to a put in progress, or was left by a     *)
(* death or by a failed unlink: no error path of put_blob leaks one.       *)
TempFilesAccountedFor == tempFiles = lost + Cardinality({p \in Procs : Open(p)})

AnswerTrue(p) ==
  /\ result[p] = "created" => NoBlob \in seen[p]
  /\ result[p] = "duplicate" => op[p].data \in seen[p]
  /\ result[p] = "overwritten" => \E d \in seen[p] : d \notin {NoBlob, op[p].data}
  /\ result[p] \in {"read_not_found", "delete_not_found"} => NoBlob \in seen[p]
  /\ result[p] \in Data \cup {Torn} => result[p] \in seen[p]

(* What a call returned was true of the path at some time during the call, *)
(* whatever the other processes did meanwhile.                             *)
AnswersWereTrue == \A p \in Procs : At(p, "idle") => AnswerTrue(p)

(* docs/m8.1: with the gate closed no local fs write is attempted: there   *)
(* is no blob and no temporary file to be found afterwards.                *)
ClosedGateWritesNothing ==
  ~execEnabled => dir = [b \in BlobIds |-> NoFile] /\ tempFiles = 0

(* The system calls implement the abstract store.                          *)
Abstract == INSTANCE BlobStore WITH
  store <- [b \in BlobIds |-> dir[b].data],
  kept  <- [b \in BlobIds |-> {f.data : f \in journal[b]}]

BlobStoreImplemented == Abstract!Spec
=============================================================================
