------------------------- MODULE LocalFileBlobProofs -------------------------
(***************************************************************************)
(* Proofs about LocalFileBlob.  Files reach a blob path only whole, because *)
(* the process that replaces one has written and flushed it (CallOK), and  *)
(* what a process found is among what it has seen.                         *)
(***************************************************************************)
EXTENDS LocalFileBlob, FiniteSetTheorems, TLAPS

PutLabels == {"put_exists", "put_read", "put_mkstemp", "put_write", "put_fsync", "put_replace",
              "put_cleanup"}

WholeFiles == [data : Data \cup {NoBlob}, synced : {TRUE}]

(* What is at a path, and what a power cut may bring back, is whole.       *)
FilesWhole == \A b \in BlobIds : dir[b] \in journal[b] /\ journal[b] \subseteq WholeFiles

(* put_blob has found what its status says.                                *)
StatusTrue(p) ==
  /\ status[p] \in {"created", "overwritten"}
  /\ status[p] = "created" => NoBlob \in seen[p]
  /\ status[p] = "overwritten" => \E d \in seen[p] : d \notin {NoBlob, op[p].data}

CallOK(p) ==
  /\ pc[p] # "idle" => Here(p).data \in seen[p]
  /\ pc[p] \in {"put_fsync", "put_replace"} => temp[p].data = op[p].data
  /\ pc[p] = "put_replace" => temp[p].synced
  /\ pc[p] \in PutLabels \ {"put_exists", "put_read"} => StatusTrue(p)
  /\ pc[p] = "idle" => AnswerTrue(p)

OpenProcs == {p \in Procs : Open(p)}
Accounted == tempFiles = lost + Cardinality(OpenProcs)

(* Behind a closed gate no put ever begins.                                *)
GateOK ==
  ~execEnabled =>
    /\ \A p \in Procs : pc[p] \notin PutLabels
    /\ \A b \in BlobIds : journal[b] = {NoFile}
    /\ lost = 0

IInv ==
  /\ TypeOK /\ FilesWhole
  /\ \A p \in Procs : CallOK(p)
  /\ Accounted /\ GateOK

LEMMA WholeFilesAreFiles ==
  /\ WholeFiles \subseteq Files /\ NoFile \in WholeFiles
  /\ \A f \in WholeFiles : f.synced /\ f.data # Torn
  /\ \A f \in WholeFiles : f # NoFile => f.data \in Data
<1>1. WholeFiles \subseteq Files
  BY DEF WholeFiles, Files
<1>2. NoFile \in WholeFiles
  BY DEF WholeFiles, NoFile
<1>3. ASSUME NEW f \in WholeFiles PROVE f.synced /\ f.data # Torn
  <2>1. f.synced = TRUE /\ f.data \in Data \cup {NoBlob}
    BY DEF WholeFiles
  <2> QED
    BY <2>1, LocalFileBlobAssumption
<1>4. ASSUME NEW f \in WholeFiles, f # NoFile PROVE f.data \in Data
  <2>1. f = [data |-> f.data, synced |-> TRUE] /\ f.data \in Data \cup {NoBlob}
    BY DEF WholeFiles
  <2> QED
    BY <1>4, <2>1 DEF NoFile
<1> QED
  BY <1>1, <1>2, <1>3, <1>4

LEMMA InitIInv == Init => IInv
<1> SUFFICES ASSUME Init PROVE IInv
  OBVIOUS
<1>1. OpenProcs = {} /\ Cardinality(OpenProcs) = 0
  <2>1. OpenProcs = {}
    BY DEF Init, OpenProcs, Open
  <2> QED
    BY <2>1, FS_EmptySet
<1>2. FilesWhole
  BY WholeFilesAreFiles DEF Init, FilesWhole
<1>3. TypeOK
  <2>1. NoFile \in Files
    BY WholeFilesAreFiles
  <2>2. op \in [Procs -> [blob : BlobIds, data : Data]]
    <3> DEFINE Ops == [blob : BlobIds, data : Data]
    <3>1. Ops # {}
      <4>1. PICK b \in BlobIds, d \in Data : TRUE
        BY LocalFileBlobAssumption
      <4>2. [blob |-> b, data |-> d] \in Ops
        OBVIOUS
      <4> QED
        BY <4>2
    <3> HIDE DEF Ops
    <3>2. (CHOOSE o \in Ops : TRUE) \in Ops
      BY <3>1
    <3> QED
      BY <3>2 DEF Init, Ops
  <2> QED
    BY <2>1, <2>2 DEF Init, TypeOK, Labels, Statuses
<1>4. \A p \in Procs : CallOK(p)
  BY LocalFileBlobAssumption DEF Init, CallOK, AnswerTrue, PutLabels
<1>5. Accounted /\ GateOK
  BY <1>1 DEF Init, Accounted, GateOK, PutLabels
<1> QED
  BY <1>2, <1>3, <1>4, <1>5 DEF IInv

(* The temporary files of open puts are counted one by one.                *)
LEMMA OpenCount ==
  ASSUME NEW p \in Procs, NEW l, pc \in [Procs -> Labels], pc' = [pc EXCEPT ![p] = l]
  PROVE  LET open == {"put_write", "put_fsync", "put_replace", "put_cleanup"} IN
         /\ Cardinality(OpenProcs) \in Nat
         /\ (pc[p] \in open <=> l \in open) => Cardinality(OpenProcs') = Cardinality(OpenProcs)
         /\ pc[p] \notin open /\ l \in open =>
              Cardinality(OpenProcs') = Cardinality(OpenProcs) + 1
         /\ pc[p] \in open /\ l \notin open =>
              /\ Cardinality(OpenProcs) > 0
              /\ Cardinality(OpenProcs') = Cardinality(OpenProcs) - 1
<1> DEFINE open == {"put_write", "put_fsync", "put_replace", "put_cleanup"}
<1>1. IsFiniteSet(OpenProcs) /\ IsFiniteSet(OpenProcs')
  BY LocalFileBlobAssumption, FS_Subset DEF OpenProcs
<1>2. Cardinality(OpenProcs) \in Nat /\ Cardinality(OpenProcs') \in Nat
  BY <1>1, FS_CardinalityType
<1>3. \A q \in Procs : q # p => pc'[q] = pc[q]
  OBVIOUS
<1>4. pc'[p] = l
  OBVIOUS
<1>5. CASE pc[p] \in open <=> l \in open
  <2>1. OpenProcs' = OpenProcs
    BY <1>3, <1>4, <1>5 DEF OpenProcs, Open
  <2> QED
    BY <1>2, <1>5, <2>1
<1>6. CASE pc[p] \notin open /\ l \in open
  <2>1. OpenProcs' = OpenProcs \cup {p} /\ p \notin OpenProcs
    BY <1>3, <1>4, <1>6 DEF OpenProcs, Open
  <2> QED
    BY <1>1, <1>2, <1>6, <2>1, FS_AddElement
<1>7. CASE pc[p] \in open /\ l \notin open
  <2>1. OpenProcs' = OpenProcs \ {p} /\ p \in OpenProcs
    BY <1>3, <1>4, <1>7 DEF OpenProcs, Open
  <2>2. Cardinality(OpenProcs') = Cardinality(OpenProcs) - 1
    BY <1>1, <2>1, FS_RemoveElement
  <2>3. Cardinality(OpenProcs) # 0
    BY <1>2, <2>2
  <2> QED
    BY <1>2, <1>7, <2>2, <2>3
<1> QED
  BY <1>2, <1>5, <1>6, <1>7
(* What a step of process p leaves of the invariant: its own part and the  *)
(* count of the temporary files, when no file at a path changes.           *)
LEMMA OwnStep ==
  ASSUME IInv, NEW p \in Procs, NEW l \in Labels, NEW r, NEW st \in Statuses, NEW f \in Files,
         r \in {"none", "deleted"} \cup Statuses \cup ErrorCodes \cup Data \cup {Torn},
         UNCHANGED <<CallFrame, FileFrame>>,
         pc' = [pc EXCEPT ![p] = l], result' = [result EXCEPT ![p] = r],
         status' = [status EXCEPT ![p] = st], temp' = [temp EXCEPT ![p] = f],
         tempFiles' \in Nat, lost' \in Nat, faults' \in Nat,
         ~execEnabled => lost' = 0 /\ l \notin PutLabels,
         CallOK(p)', Accounted'
  PROVE  IInv'
<1>1. UNCHANGED <<execEnabled, op, calls, dir, journal, seen>>
  BY DEF CallFrame, FileFrame
<1>2. ASSUME NEW q \in Procs PROVE CallOK(q)'
  <2>1. CASE q # p
    <3>1. /\ pc'[q] = pc[q] /\ result'[q] = result[q]
          /\ status'[q] = status[q] /\ temp'[q] = temp[q]
      BY <2>1 DEF IInv, TypeOK
    <3> QED
      BY <1>1, <3>1 DEF IInv, CallOK, StatusTrue, AnswerTrue, Here
  <2> QED
    BY <2>1
<1>3. FilesWhole'
  BY <1>1 DEF IInv, FilesWhole
<1>4. GateOK'
  BY <1>1 DEF IInv, GateOK, TypeOK
<1>5. TypeOK'
  BY <1>1 DEF IInv, TypeOK
<1> QED
  BY <1>2, <1>3, <1>4, <1>5 DEF IInv

OpenLabels == {"put_write", "put_fsync", "put_replace", "put_cleanup"}

(* A step that leaves the temporary files alone too.                       *)
LEMMA QuietStep ==
  ASSUME IInv, NEW p \in Procs, NEW l \in Labels, NEW r, NEW st \in Statuses,
         r \in {"none", "deleted"} \cup Statuses \cup ErrorCodes \cup Data \cup {Torn},
         UNCHANGED <<CallFrame, TempFrame, FileFrame>>,
         pc' = [pc EXCEPT ![p] = l], result' = [result EXCEPT ![p] = r],
         status' = [status EXCEPT ![p] = st], faults' \in Nat,
         pc[p] \in OpenLabels <=> l \in OpenLabels,
         ~execEnabled => l \notin PutLabels,
         CallOK(p)'
  PROVE  IInv'
<1>1. UNCHANGED <<temp, tempFiles, lost>> /\ UNCHANGED <<CallFrame, FileFrame>>
  BY DEF TempFrame
<1>2. temp' = [temp EXCEPT ![p] = temp[p]] /\ temp[p] \in Files
  BY <1>1 DEF IInv, TypeOK
<1>3. tempFiles' \in Nat /\ lost' \in Nat /\ (~execEnabled => lost' = 0)
  BY <1>1 DEF IInv, TypeOK, GateOK
<1>4. Accounted'
  <2>1. Cardinality(OpenProcs') = Cardinality(OpenProcs)
    BY OpenCount DEF IInv, TypeOK, OpenLabels
  <2> QED
    BY <1>1, <2>1 DEF IInv, Accounted
<1> QED
  BY <1>1, <1>2, <1>3, <1>4, OwnStep

(* An answer that says nothing of the path.                                *)
Silent == ({"none", "deleted"} \cup ErrorCodes) \ {"read_not_found", "delete_not_found"}

LEMMA SilentAnswers ==
  ASSUME NEW p \in Procs, NEW r \in Silent, pc'[p] = "idle", result'[p] = r
  PROVE  CallOK(p)'
<1>1. r \notin Statuses /\ r \notin Data \cup {Torn}
  BY LocalFileBlobAssumption DEF Silent, Statuses, ErrorCodes
<1>2. AnswerTrue(p)'
  BY <1>1 DEF AnswerTrue, Silent, Statuses
<1> QED
  BY <1>2 DEF CallOK, PutLabels

LEMMA ReturnSilently ==
  ASSUME IInv, NEW p \in Procs, NEW r \in Silent, NEW st \in Statuses,
         UNCHANGED <<CallFrame, TempFrame, FileFrame>>, Return(p, r),
         status' = [status EXCEPT ![p] = st], pc[p] \notin OpenLabels, faults' \in Nat
  PROVE  IInv'
<1>1. /\ pc' = [pc EXCEPT ![p] = "idle"] /\ result' = [result EXCEPT ![p] = r]
      /\ pc'[p] = "idle" /\ result'[p] = r
  BY DEF IInv, TypeOK, Return
<1>2. r \in {"none", "deleted"} \cup Statuses \cup ErrorCodes \cup Data \cup {Torn}
  BY DEF Silent
<1> QED
  BY <1>1, <1>2, SilentAnswers, QuietStep DEF Labels, OpenLabels, PutLabels

(* Counters stay naturals.                                                 *)
LEMMA FaultsAreNat ==
  ASSUME IInv, Fault \/ NoFault
  PROVE  faults' \in Nat
BY DEF IInv, TypeOK, Fault, NoFault

(* What is at the path of a call is among what the call has seen.          *)
LEMMA HereIsSeen ==
  ASSUME IInv, NEW p \in Procs, pc[p] # "idle"
  PROVE  /\ Here(p).data \in seen[p]
         /\ Here(p) \in WholeFiles /\ op[p].blob \in BlobIds /\ op[p].data \in Data
         /\ Here(p) = NoFile <=> Here(p).data = NoBlob
<1>1. op[p].blob \in BlobIds /\ op[p].data \in Data /\ Here(p).data \in seen[p]
  BY DEF IInv, TypeOK, CallOK
<1>2. Here(p) \in WholeFiles
  BY <1>1 DEF IInv, FilesWhole, Here
<1>3. Here(p) # NoFile => Here(p).data \in Data
  BY <1>2, WholeFilesAreFiles
<1> QED
  BY <1>1, <1>2, <1>3, LocalFileBlobAssumption DEF NoFile

LEMMA PutExistsStep ==
  ASSUME IInv, NEW p \in Procs, PutExists(p)
  PROVE  IInv'
<1>1. /\ pc[p] = "put_exists" /\ status' = [status EXCEPT ![p] = "created"]
      /\ UNCHANGED <<CallFrame, TempFrame, FileFrame>> /\ faults' \in Nat
      /\ "created" \in Statuses /\ execEnabled
  BY FaultsAreNat DEF PutExists, At, Statuses, IInv, GateOK, PutLabels
<1>2. ASSUME NEW l, Goto(p, l), l = IF Here(p) = NoFile THEN "put_mkstemp" ELSE "put_read"
      PROVE  IInv'
  <2>1. l \in {"put_mkstemp", "put_read"} /\ pc' = [pc EXCEPT ![p] = l] /\ pc'[p] = l
    BY <1>2 DEF Goto, IInv, TypeOK
  <2>2. result' = [result EXCEPT ![p] = result[p]] /\ status'[p] = "created"
    BY <1>1, <1>2 DEF Goto, IInv, TypeOK
  <2>3. Here(p)' = Here(p) /\ seen' = seen /\ Here(p).data \in seen[p]
    BY <1>1, HereIsSeen DEF Here, FileFrame, CallFrame
  <2>4. l = "put_mkstemp" => NoBlob \in seen[p]
    BY <1>1, <1>2, <2>1, <2>3, HereIsSeen
  <2>5. CallOK(p)'
    BY <2>1, <2>2, <2>3, <2>4 DEF CallOK, StatusTrue, PutLabels
  <2>6. result[p] \in {"none", "deleted"} \cup Statuses \cup ErrorCodes \cup Data \cup {Torn}
    BY DEF IInv, TypeOK
  <2>7. l \in Labels /\ (pc[p] \in OpenLabels <=> l \in OpenLabels)
    BY <1>1, <2>1 DEF Labels, OpenLabels
  <2> QED
    BY <1>1, <2>1, <2>2, <2>5, <2>6, <2>7, QuietStep
<1>3. CASE Return(p, "untyped")
  BY <1>1, <1>3, ReturnSilently DEF Silent, ErrorCodes, OpenLabels
<1> QED
  BY <1>2, <1>3 DEF PutExists

LEMMA PutReadStep ==
  ASSUME IInv, NEW p \in Procs, PutRead(p)
  PROVE  IInv'
<1>1. /\ pc[p] = "put_read" /\ UNCHANGED <<CallFrame, TempFrame, FileFrame>>
      /\ faults' \in Nat /\ execEnabled
      /\ status \in [Procs -> Statuses] /\ status[p] \in Statuses
  BY FaultsAreNat DEF PutRead, At, IInv, GateOK, PutLabels, TypeOK
<1>2. Here(p)' = Here(p) /\ seen' = seen /\ op' = op
  BY <1>1 DEF Here, FileFrame, CallFrame
<1>3. CASE Here(p).data = op[p].data /\ Return(p, "duplicate") /\ UNCHANGED status
  <2>1. /\ pc' = [pc EXCEPT ![p] = "idle"] /\ result' = [result EXCEPT ![p] = "duplicate"]
        /\ pc'[p] = "idle" /\ result'[p] = "duplicate" /\ status' = [status EXCEPT ![p] = status[p]]
    BY <1>1, <1>3 DEF Return, IInv, TypeOK
  <2>2. AnswerTrue(p)'
    BY <1>1, <1>2, <1>3, <2>1, HereIsSeen, LocalFileBlobAssumption DEF AnswerTrue, Statuses
  <2>3. CallOK(p)'
    BY <2>1, <2>2 DEF CallOK, PutLabels
  <2> QED
    BY <1>1, <2>1, <2>3, QuietStep DEF Labels, OpenLabels, Statuses
<1>4. CASE /\ Here(p) # NoFile /\ Here(p).data # op[p].data
           /\ status' = [status EXCEPT ![p] = "overwritten"] /\ Goto(p, "put_mkstemp")
  <2>1. /\ pc' = [pc EXCEPT ![p] = "put_mkstemp"] /\ pc'[p] = "put_mkstemp"
        /\ result' = [result EXCEPT ![p] = result[p]] /\ status'[p] = "overwritten"
    BY <1>1, <1>4 DEF Goto, IInv, TypeOK
  <2>2. Here(p).data \in seen[p] /\ Here(p).data \notin {NoBlob, op[p].data}
    BY <1>1, <1>4, HereIsSeen
  <2>3. CallOK(p)'
    BY <1>2, <2>1, <2>2 DEF CallOK, StatusTrue
  <2>4. result[p] \in {"none", "deleted"} \cup Statuses \cup ErrorCodes \cup Data \cup {Torn}
    BY DEF IInv, TypeOK
  <2>5. "overwritten" \in Statuses /\ "put_mkstemp" \in Labels
        /\ (pc[p] \in OpenLabels <=> "put_mkstemp" \in OpenLabels)
    BY <1>1 DEF Statuses, Labels, OpenLabels
  <2> QED
    BY <1>1, <1>4, <2>1, <2>3, <2>4, <2>5, QuietStep
<1>5. CASE Return(p, "untyped") /\ UNCHANGED status
  <2>1. status' = [status EXCEPT ![p] = status[p]]
    BY <1>1, <1>5
  <2> QED
    BY <1>1, <1>5, <2>1, ReturnSilently DEF Silent, ErrorCodes, OpenLabels
<1> QED
  BY <1>3, <1>4, <1>5 DEF PutRead

LEMMA GetExistsStep ==
  ASSUME IInv, NEW p \in Procs, GetExists(p)
  PROVE  IInv'
<1>1. /\ pc[p] = "get_exists" /\ UNCHANGED <<CallFrame, TempFrame, FileFrame>>
      /\ faults' \in Nat /\ status' = [status EXCEPT ![p] = status[p]] /\ status[p] \in Statuses
  BY FaultsAreNat DEF GetExists, At, IInv, TypeOK
<1>2. Here(p)' = Here(p) /\ seen' = seen /\ op' = op
  BY <1>1 DEF Here, FileFrame, CallFrame
<1>3. CASE Here(p) = NoFile /\ Return(p, "read_not_found")
  <2>1. /\ pc' = [pc EXCEPT ![p] = "idle"] /\ result' = [result EXCEPT ![p] = "read_not_found"]
        /\ pc'[p] = "idle" /\ result'[p] = "read_not_found"
    BY <1>1, <1>3 DEF Return, IInv, TypeOK
  <2>2. NoBlob \in seen[p]
    BY <1>1, <1>3, HereIsSeen
  <2>3. AnswerTrue(p)'
    BY <1>2, <2>1, <2>2, LocalFileBlobAssumption DEF AnswerTrue, ErrorCodes
  <2>4. CallOK(p)'
    BY <2>1, <2>3 DEF CallOK, PutLabels
  <2> QED
    BY <1>1, <2>1, <2>4, QuietStep DEF Labels, OpenLabels, ErrorCodes, PutLabels
<1>4. CASE Goto(p, "get_read")
  <2>1. /\ pc' = [pc EXCEPT ![p] = "get_read"] /\ pc'[p] = "get_read"
        /\ result' = [result EXCEPT ![p] = result[p]]
    BY <1>1, <1>4 DEF Goto, IInv, TypeOK
  <2>2. CallOK(p)'
    BY <1>1, <1>2, <2>1, HereIsSeen DEF CallOK, PutLabels
  <2>3. result[p] \in {"none", "deleted"} \cup Statuses \cup ErrorCodes \cup Data \cup {Torn}
    BY DEF IInv, TypeOK
  <2>4. "get_read" \in Labels \ PutLabels /\ (pc[p] \in OpenLabels <=> "get_read" \in OpenLabels)
    BY <1>1 DEF Labels, OpenLabels, PutLabels
  <2> QED
    BY <1>1, <2>1, <2>2, <2>3, <2>4, QuietStep
<1>5. CASE Return(p, "untyped")
  BY <1>1, <1>5, ReturnSilently DEF Silent, ErrorCodes, OpenLabels
<1> QED
  BY <1>3, <1>4, <1>5 DEF GetExists

LEMMA GetReadStep ==
  ASSUME IInv, NEW p \in Procs, GetRead(p)
  PROVE  IInv'
<1>1. /\ pc[p] = "get_read" /\ UNCHANGED <<CallFrame, TempFrame, FileFrame>>
      /\ faults' \in Nat /\ status' = [status EXCEPT ![p] = status[p]] /\ status[p] \in Statuses
  BY FaultsAreNat DEF GetRead, At, IInv, TypeOK
<1>2. CASE Here(p) # NoFile /\ Return(p, Here(p).data)
  <2> DEFINE d == Here(p).data
  <2>1. d \in Data /\ d \in seen[p]
    BY <1>1, <1>2, HereIsSeen, WholeFilesAreFiles
  <2> HIDE DEF d
  <2>2. /\ pc' = [pc EXCEPT ![p] = "idle"] /\ result' = [result EXCEPT ![p] = d]
        /\ pc'[p] = "idle" /\ result'[p] = d /\ seen' = seen
    BY <1>1, <1>2 DEF Return, IInv, TypeOK, FileFrame, d
  <2>3. d \notin Statuses /\ d \notin ErrorCodes
    BY <2>1, LocalFileBlobAssumption
  <2>4. AnswerTrue(p)'
    BY <2>1, <2>2, <2>3 DEF AnswerTrue, Statuses, ErrorCodes
  <2>5. CallOK(p)'
    BY <2>2, <2>4 DEF CallOK, PutLabels
  <2> QED
    BY <1>1, <2>1, <2>2, <2>5, QuietStep DEF Labels, OpenLabels, PutLabels
<1>3. CASE Return(p, "read_failed")
  BY <1>1, <1>3, ReturnSilently DEF Silent, ErrorCodes, OpenLabels
<1> QED
  BY <1>2, <1>3 DEF GetRead

LEMMA DeleteExistsStep ==
  ASSUME IInv, NEW p \in Procs, DeleteExists(p)
  PROVE  IInv'
<1>1. /\ pc[p] = "delete_exists" /\ UNCHANGED <<CallFrame, TempFrame, FileFrame>>
      /\ faults' \in Nat /\ status' = [status EXCEPT ![p] = status[p]] /\ status[p] \in Statuses
  BY FaultsAreNat DEF DeleteExists, At, IInv, TypeOK
<1>2. Here(p)' = Here(p) /\ seen' = seen /\ op' = op
  BY <1>1 DEF Here, FileFrame, CallFrame
<1>3. CASE Here(p) = NoFile /\ Return(p, "delete_not_found")
  <2>1. /\ pc' = [pc EXCEPT ![p] = "idle"] /\ result' = [result EXCEPT ![p] = "delete_not_found"]
        /\ pc'[p] = "idle" /\ result'[p] = "delete_not_found"
    BY <1>1, <1>3 DEF Return, IInv, TypeOK
  <2>2. NoBlob \in seen[p]
    BY <1>1, <1>3, HereIsSeen
  <2>3. AnswerTrue(p)'
    BY <1>2, <2>1, <2>2, LocalFileBlobAssumption DEF AnswerTrue, ErrorCodes
  <2>4. CallOK(p)'
    BY <2>1, <2>3 DEF CallOK, PutLabels
  <2> QED
    BY <1>1, <2>1, <2>4, QuietStep DEF Labels, OpenLabels, ErrorCodes, PutLabels
<1>4. CASE Goto(p, "delete_unlink")
  <2>1. /\ pc' = [pc EXCEPT ![p] = "delete_unlink"] /\ pc'[p] = "delete_unlink"
        /\ result' = [result EXCEPT ![p] = result[p]]
    BY <1>1, <1>4 DEF Goto, IInv, TypeOK
  <2>2. CallOK(p)'
    BY <1>1, <1>2, <2>1, HereIsSeen DEF CallOK, PutLabels
  <2>3. result[p] \in {"none", "deleted"} \cup Statuses \cup ErrorCodes \cup Data \cup {Torn}
    BY DEF IInv, TypeOK
  <2>4. "delete_unlink" \in Labels \ PutLabels
        /\ (pc[p] \in OpenLabels <=> "delete_unlink" \in OpenLabels)
    BY <1>1 DEF Labels, OpenLabels, PutLabels
  <2> QED
    BY <1>1, <2>1, <2>2, <2>3, <2>4, QuietStep
<1>5. CASE Return(p, "untyped")
  BY <1>1, <1>5, ReturnSilently DEF Silent, ErrorCodes, OpenLabels
<1> QED
  BY <1>3, <1>4, <1>5 DEF DeleteExists

LEMMA RefuseStep ==
  ASSUME IInv, NEW p \in Procs, NEW code, Refuse(p, code)
  PROVE  IInv'
<1>1. /\ pc[p] = "idle" /\ calls' = calls + 1 /\ Return(p, code) /\ faults' = faults
      /\ code \in {"execution_gate_closed", "size_limit_exceeded", "invalid_blob_id"}
      /\ UNCHANGED <<execEnabled, op, status, TempFrame, FileFrame>>
  BY DEF Refuse, At, NoFault
<1>2. /\ pc' = [pc EXCEPT ![p] = "idle"] /\ result' = [result EXCEPT ![p] = code]
      /\ pc'[p] = "idle" /\ result'[p] = code /\ pc' = pc
  BY <1>1 DEF Return, IInv, TypeOK
<1>3. code \in Silent
  BY <1>1 DEF Silent, ErrorCodes
<1>4. ASSUME NEW q \in Procs PROVE CallOK(q)'
  <2>1. CASE q = p
    BY <1>2, <1>3, <2>1, SilentAnswers
  <2>2. CASE q # p
    <3>1. result'[q] = result[q]
      BY <1>2, <2>2 DEF IInv, TypeOK
    <3> QED
      BY <1>1, <1>2, <3>1 DEF IInv, CallOK, StatusTrue, AnswerTrue, Here, TempFrame, FileFrame
  <2> QED
    BY <2>1, <2>2
<1>5. TypeOK'
  BY <1>1, <1>2, <1>3 DEF IInv, TypeOK, TempFrame, FileFrame, Silent
<1>6. FilesWhole' /\ GateOK'
  BY <1>1, <1>2 DEF IInv, FilesWhole, GateOK, TempFrame, FileFrame
<1>7. Accounted'
  BY <1>1, <1>2 DEF IInv, Accounted, OpenProcs, Open, TempFrame
<1> QED
  BY <1>4, <1>5, <1>6, <1>7 DEF IInv

LEMMA CallStep ==
  ASSUME IInv, NEW p \in Procs, NEW b \in BlobIds, NEW d \in Data,
         NEW label \in {"put_exists", "get_exists", "delete_exists"},
         Call(p, label, b, d), ~execEnabled => label # "put_exists"
  PROVE  IInv'
<1>1. /\ pc[p] = "idle" /\ calls' = calls + 1 /\ faults' = faults
      /\ op' = [op EXCEPT ![p] = [blob |-> b, data |-> d]]
      /\ seen' = [seen EXCEPT ![p] = {dir[b].data}]
      /\ pc' = [pc EXCEPT ![p] = label] /\ result' = result
      /\ UNCHANGED <<execEnabled, dir, journal, status, temp, tempFiles, lost>>
  BY DEF Call, At, NoFault, Goto, TempFrame
<1>2. label \in Labels
  BY DEF Labels
<1>3. ASSUME NEW q \in Procs PROVE CallOK(q)'
  <2>1. CASE q = p
    <3>1. pc'[q] = label /\ op'[q].blob = b /\ seen'[q] = {dir[b].data}
      BY <1>1, <2>1 DEF IInv, TypeOK
    <3> QED
      BY <1>1, <3>1 DEF CallOK, Here, PutLabels
  <2>2. CASE q # p
    <3>1. pc'[q] = pc[q] /\ op'[q] = op[q] /\ seen'[q] = seen[q]
      BY <1>1, <2>2 DEF IInv, TypeOK
    <3> QED
      BY <1>1, <3>1 DEF IInv, CallOK, StatusTrue, AnswerTrue, Here
  <2> QED
    BY <2>1, <2>2
<1>4. dir[b].data \in Data \cup {NoBlob, Torn}
  BY DEF IInv, TypeOK, Files
<1>5. TypeOK'
  BY <1>1, <1>2, <1>4 DEF IInv, TypeOK
<1>6. FilesWhole' /\ GateOK'
  BY <1>1 DEF IInv, FilesWhole, GateOK, TypeOK, PutLabels
<1>7. Accounted'
  <2>1. Cardinality(OpenProcs') = Cardinality(OpenProcs)
    BY <1>1, OpenCount DEF IInv, TypeOK
  <2> QED
    BY <1>1, <2>1 DEF IInv, Accounted
<1> QED
  BY <1>3, <1>5, <1>6, <1>7 DEF IInv

LEMMA PutMkstempStep ==
  ASSUME IInv, NEW p \in Procs, PutMkstemp(p)
  PROVE  IInv'
<1> DEFINE torn == [data |-> Torn, synced |-> FALSE]
<1>1. /\ pc[p] = "put_mkstemp" /\ UNCHANGED <<CallFrame, FileFrame>> /\ lost' = lost
      /\ faults' \in Nat /\ status' = [status EXCEPT ![p] = status[p]] /\ status[p] \in Statuses
      /\ execEnabled
  BY FaultsAreNat DEF PutMkstemp, At, IInv, TypeOK, GateOK, PutLabels
<1>2. CASE /\ temp' = [temp EXCEPT ![p] = torn] /\ tempFiles' = tempFiles + 1
           /\ Goto(p, "put_write")
  <2>1. /\ pc' = [pc EXCEPT ![p] = "put_write"] /\ pc'[p] = "put_write"
        /\ result' = [result EXCEPT ![p] = result[p]]
    BY <1>1, <1>2 DEF Goto, IInv, TypeOK
  <2>2. torn \in Files /\ "put_write" \in Labels
    BY DEF Files, Labels
  <2>3. status'[p] = status[p] /\ seen' = seen /\ op' = op /\ Here(p)' = Here(p)
    BY <1>1 DEF CallFrame, FileFrame, Here
  <2>4. CallOK(p)'
    BY <1>1, <2>1, <2>3 DEF IInv, CallOK, StatusTrue, PutLabels
  <2>5. Accounted'
    <3>1. Cardinality(OpenProcs) \in Nat /\ Cardinality(OpenProcs') = Cardinality(OpenProcs) + 1
      BY <1>1, <2>1, OpenCount DEF IInv, TypeOK
    <3> QED
      BY <1>1, <1>2, <3>1 DEF IInv, TypeOK, Accounted
  <2>6. tempFiles' \in Nat /\ lost' \in Nat
    BY <1>1, <1>2 DEF IInv, TypeOK
  <2>7. result[p] \in {"none", "deleted"} \cup Statuses \cup ErrorCodes \cup Data \cup {Torn}
    BY DEF IInv, TypeOK
  <2> HIDE DEF torn
  <2> QED
    BY <1>1, <1>2, <2>1, <2>2, <2>4, <2>5, <2>6, <2>7, OwnStep
<1>3. CASE Return(p, "untyped") /\ UNCHANGED <<temp, tempFiles>>
  <2>1. UNCHANGED TempFrame
    BY <1>1, <1>3 DEF TempFrame
  <2> QED
    BY <1>1, <1>3, <2>1, ReturnSilently DEF Silent, ErrorCodes, OpenLabels
<1> QED
  BY <1>2, <1>3 DEF PutMkstemp

(* An error between mkstemp and replace: the temporary file stays for the  *)
(* finally clause.                                                         *)
LEMMA FailStep ==
  ASSUME IInv, NEW p \in Procs, pc[p] \in {"put_write", "put_fsync", "put_replace"}, Fail(p),
         UNCHANGED <<CallFrame, TempFrame, FileFrame, status>>
  PROVE  IInv'
<1>1. /\ pc' = [pc EXCEPT ![p] = "put_cleanup"] /\ pc'[p] = "put_cleanup"
      /\ result' = [result EXCEPT ![p] = result[p]] /\ faults' \in Nat
      /\ status' = [status EXCEPT ![p] = status[p]] /\ status[p] \in Statuses /\ execEnabled
  BY FaultsAreNat DEF Fail, Goto, IInv, TypeOK, GateOK, PutLabels
<1>2. status'[p] = status[p] /\ seen' = seen /\ op' = op /\ Here(p)' = Here(p)
  BY <1>1 DEF CallFrame, FileFrame, Here
<1>3. CallOK(p)'
  BY <1>1, <1>2 DEF IInv, CallOK, StatusTrue, PutLabels
<1>4. result[p] \in {"none", "deleted"} \cup Statuses \cup ErrorCodes \cup Data \cup {Torn}
  BY DEF IInv, TypeOK
<1>5. "put_cleanup" \in Labels /\ (pc[p] \in OpenLabels <=> "put_cleanup" \in OpenLabels)
  BY DEF Labels, OpenLabels
<1> QED
  BY <1>1, <1>3, <1>4, <1>5, QuietStep

LEMMA PutWriteStep ==
  ASSUME IInv, NEW p \in Procs, PutWrite(p)
  PROVE  IInv'
<1>1. /\ pc[p] = "put_write" /\ UNCHANGED <<CallFrame, FileFrame, status, tempFiles, lost>>
      /\ status' = [status EXCEPT ![p] = status[p]] /\ status[p] \in Statuses /\ execEnabled
  BY DEF PutWrite, At, IInv, TypeOK, GateOK, PutLabels
<1>2. CASE temp' = [temp EXCEPT ![p].data = op[p].data] /\ Goto(p, "put_fsync") /\ NoFault
  <2> DEFINE f == [temp[p] EXCEPT !.data = op[p].data]
  <2>1. /\ pc' = [pc EXCEPT ![p] = "put_fsync"] /\ pc'[p] = "put_fsync"
        /\ result' = [result EXCEPT ![p] = result[p]] /\ faults' \in Nat
    BY <1>1, <1>2, FaultsAreNat DEF Goto, IInv, TypeOK
  <2>2. f \in Files /\ f.data = op[p].data /\ "put_fsync" \in Labels
    BY DEF IInv, TypeOK, Files, Labels
  <2>3. temp' = [temp EXCEPT ![p] = f] /\ temp'[p] = f
    BY <1>2 DEF IInv, TypeOK
  <2> HIDE DEF f
  <2>4. status'[p] = status[p] /\ seen' = seen /\ op' = op /\ Here(p)' = Here(p)
    BY <1>1 DEF CallFrame, FileFrame, Here
  <2>5. CallOK(p)'
    BY <1>1, <2>1, <2>2, <2>3, <2>4 DEF IInv, CallOK, StatusTrue, PutLabels
  <2>6. Accounted'
    <3>1. Cardinality(OpenProcs') = Cardinality(OpenProcs)
      BY <1>1, <2>1, OpenCount DEF IInv, TypeOK
    <3> QED
      BY <1>1, <3>1 DEF IInv, Accounted
  <2>7. tempFiles' \in Nat /\ lost' \in Nat
        /\ result[p] \in {"none", "deleted"} \cup Statuses \cup ErrorCodes \cup Data \cup {Torn}
    BY <1>1 DEF IInv, TypeOK
  <2> QED
    BY <1>1, <2>1, <2>2, <2>3, <2>5, <2>6, <2>7, OwnStep
<1>3. CASE Fail(p) /\ UNCHANGED temp
  BY <1>1, <1>3, FailStep DEF TempFrame
<1> QED
  BY <1>2, <1>3 DEF PutWrite

LEMMA PutFsyncStep ==
  ASSUME IInv, NEW p \in Procs, PutFsync(p)
  PROVE  IInv'
<1>1. /\ pc[p] = "put_fsync" /\ UNCHANGED <<CallFrame, FileFrame, status, tempFiles, lost>>
      /\ status' = [status EXCEPT ![p] = status[p]] /\ status[p] \in Statuses /\ execEnabled
  BY DEF PutFsync, At, IInv, TypeOK, GateOK, PutLabels
<1>2. CASE temp' = [temp EXCEPT ![p].synced = TRUE] /\ Goto(p, "put_replace") /\ NoFault
  <2> DEFINE f == [temp[p] EXCEPT !.synced = TRUE]
  <2>1. /\ pc' = [pc EXCEPT ![p] = "put_replace"] /\ pc'[p] = "put_replace"
        /\ result' = [result EXCEPT ![p] = result[p]] /\ faults' \in Nat
    BY <1>1, <1>2, FaultsAreNat DEF Goto, IInv, TypeOK
  <2>2. f \in Files /\ f.data = temp[p].data /\ f.synced /\ "put_replace" \in Labels
    BY DEF IInv, TypeOK, Files, Labels
  <2>3. temp' = [temp EXCEPT ![p] = f] /\ temp'[p] = f
    BY <1>2 DEF IInv, TypeOK
  <2> HIDE DEF f
  <2>4. status'[p] = status[p] /\ seen' = seen /\ op' = op /\ Here(p)' = Here(p)
    BY <1>1 DEF CallFrame, FileFrame, Here
  <2>5. CallOK(p)'
    BY <1>1, <2>1, <2>2, <2>3, <2>4 DEF IInv, CallOK, StatusTrue, PutLabels
  <2>6. Accounted'
    <3>1. Cardinality(OpenProcs') = Cardinality(OpenProcs)
      BY <1>1, <2>1, OpenCount DEF IInv, TypeOK
    <3> QED
      BY <1>1, <3>1 DEF IInv, Accounted
  <2>7. tempFiles' \in Nat /\ lost' \in Nat
        /\ result[p] \in {"none", "deleted"} \cup Statuses \cup ErrorCodes \cup Data \cup {Torn}
    BY <1>1 DEF IInv, TypeOK
  <2> QED
    BY <1>1, <2>1, <2>2, <2>3, <2>5, <2>6, <2>7, OwnStep
<1>3. CASE Fail(p) /\ UNCHANGED temp
  BY <1>1, <1>3, FailStep DEF TempFrame
<1> QED
  BY <1>2, <1>3 DEF PutFsync

LEMMA PutCleanupStep ==
  ASSUME IInv, NEW p \in Procs, PutCleanup(p)
  PROVE  IInv'
<1>1. /\ pc[p] = "put_cleanup" /\ UNCHANGED <<CallFrame, FileFrame, status>>
      /\ temp' = [temp EXCEPT ![p] = NoFile] /\ NoFile \in Files
      /\ status' = [status EXCEPT ![p] = status[p]] /\ status[p] \in Statuses /\ execEnabled
      /\ faults' \in Nat
      /\ tempFiles \in Nat /\ lost \in Nat
  BY FaultsAreNat, WholeFilesAreFiles DEF PutCleanup, At, IInv, TypeOK, GateOK, PutLabels
<1>2. PICK r \in {"write_failed", "untyped"} : Return(p, r)
  BY DEF PutCleanup
<1>3. \/ tempFiles' = tempFiles - 1 /\ lost' = lost
      \/ tempFiles' = tempFiles /\ lost' = lost + 1
  BY DEF PutCleanup
<1>4. /\ pc' = [pc EXCEPT ![p] = "idle"] /\ result' = [result EXCEPT ![p] = r]
      /\ pc'[p] = "idle" /\ result'[p] = r /\ r \in Silent
  BY <1>2 DEF IInv, TypeOK, Return, Silent, ErrorCodes
<1>5. /\ Cardinality(OpenProcs) \in Nat /\ Cardinality(OpenProcs) > 0
      /\ Cardinality(OpenProcs') = Cardinality(OpenProcs) - 1
  BY <1>1, <1>4, OpenCount DEF IInv, TypeOK
<1>6. Accounted' /\ tempFiles' \in Nat /\ lost' \in Nat
  BY <1>1, <1>3, <1>5 DEF IInv, Accounted
<1>7. CallOK(p)'
  BY <1>4, SilentAnswers
<1> QED
  BY <1>1, <1>4, <1>6, <1>7, OwnStep DEF Labels, Silent

(* A death leaves the temporary file of an open put behind.                *)
LEMMA DieStep ==
  ASSUME IInv, NEW p \in Procs, Die(p)
  PROVE  IInv'
<1>1. /\ UNCHANGED <<CallFrame, FileFrame, status, tempFiles>>
      /\ temp' = [temp EXCEPT ![p] = NoFile] /\ NoFile \in Files
      /\ status' = [status EXCEPT ![p] = status[p]] /\ status[p] \in Statuses
      /\ faults' \in Nat
      /\ lost' = lost + (IF Open(p) THEN 1 ELSE 0)
      /\ tempFiles \in Nat /\ lost \in Nat
  BY FaultsAreNat, WholeFilesAreFiles DEF Die, IInv, TypeOK
<1>2. /\ pc' = [pc EXCEPT ![p] = "idle"] /\ result' = [result EXCEPT ![p] = "none"]
      /\ pc'[p] = "idle" /\ result'[p] = "none" /\ "none" \in Silent
  BY DEF Die, IInv, TypeOK, Return, Silent, ErrorCodes
<1>3. /\ Cardinality(OpenProcs) \in Nat
      /\ Open(p) => Cardinality(OpenProcs') = Cardinality(OpenProcs) - 1
      /\ ~Open(p) => Cardinality(OpenProcs') = Cardinality(OpenProcs)
  BY <1>2, OpenCount DEF IInv, TypeOK, Open
<1>4. Accounted' /\ tempFiles' \in Nat /\ lost' \in Nat
  <2>1. CASE Open(p)
    BY <1>1, <1>3, <2>1 DEF IInv, Accounted
  <2>2. CASE ~Open(p)
    BY <1>1, <1>3, <2>2 DEF IInv, Accounted
  <2> QED
    BY <2>1, <2>2
<1>5. CallOK(p)'
  BY <1>2, SilentAnswers
<1>6. ~execEnabled => lost' = 0 /\ "idle" \notin PutLabels
  BY <1>1 DEF IInv, GateOK, Open, PutLabels
<1> QED
  BY <1>1, <1>2, <1>4, <1>5, <1>6, OwnStep DEF Labels, Silent

(* A process changes the file at the path of its call: every call on that  *)
(* path has seen it.                                                       *)
LEMMA PathStep ==
  ASSUME IInv, NEW p \in Procs, pc[p] # "idle", NEW file \in WholeFiles, NEW f \in Files,
         NEW r \in Statuses \cup {"deleted"},
         PutAt(op[p].blob, file), Return(p, r), execEnabled,
         temp' = [temp EXCEPT ![p] = f],
         tempFiles' \in Nat, faults' \in Nat, UNCHANGED <<CallFrame, status, lost>>,
         CallOK(p)', Accounted'
  PROVE  IInv'
<1> DEFINE b == op[p].blob
<1>1. /\ b \in BlobIds /\ file \in Files /\ file.data \in Data \cup {NoBlob, Torn}
      /\ dir' = [dir EXCEPT ![b] = file]
      /\ journal' = [journal EXCEPT ![b] = journal[b] \cup {file}]
      /\ seen' = [q \in Procs |-> IF pc[q] # "idle" /\ op[q].blob = b
                                  THEN seen[q] \cup {file.data} ELSE seen[q]]
  BY WholeFilesAreFiles DEF IInv, TypeOK, PutAt, Files
<1>2. /\ pc' = [pc EXCEPT ![p] = "idle"] /\ result' = [result EXCEPT ![p] = r]
      /\ UNCHANGED <<execEnabled, op, calls, status, lost>>
  BY DEF Return, CallFrame
<1> HIDE DEF b
<1>3. ASSUME NEW q \in Procs, q # p PROVE CallOK(q)'
  <2>1. /\ pc'[q] = pc[q] /\ result'[q] = result[q] /\ temp'[q] = temp[q]
        /\ op' = op /\ status' = status
    BY <1>2, <1>3 DEF IInv, TypeOK
  <2>2. seen[q] \subseteq seen'[q] /\ (pc[q] = "idle" => seen'[q] = seen[q])
    BY <1>1
  <2>3. pc[q] # "idle" => Here(q)'.data \in seen'[q]
    <3>1. SUFFICES ASSUME pc[q] # "idle" PROVE dir'[op[q].blob].data \in seen'[q]
      BY <2>1 DEF Here
    <3>2. op[q].blob \in BlobIds /\ Here(q).data \in seen[q]
      BY <3>1, HereIsSeen
    <3>3. CASE op[q].blob = b
      BY <1>1, <3>1, <3>3 DEF IInv, TypeOK
    <3>4. CASE op[q].blob # b
      BY <1>1, <2>2, <3>2, <3>4 DEF IInv, TypeOK, Here
    <3> QED
      BY <3>3, <3>4
  <2>4. StatusTrue(q) => StatusTrue(q)'
    BY <2>1, <2>2 DEF StatusTrue
  <2>5. pc[q] = "idle" => AnswerTrue(q)'
    BY <2>1, <2>2 DEF IInv, CallOK, AnswerTrue
  <2> QED
    BY <2>1, <2>3, <2>4, <2>5 DEF IInv, CallOK
<1>4. FilesWhole'
  <2>1. SUFFICES ASSUME NEW c \in BlobIds
                 PROVE  dir'[c] \in journal'[c] /\ journal'[c] \subseteq WholeFiles
    BY DEF FilesWhole
  <2>2. CASE c = b
    BY <1>1, <2>2 DEF IInv, TypeOK, FilesWhole
  <2>3. CASE c # b
    BY <1>1, <2>3 DEF IInv, TypeOK, FilesWhole
  <2> QED
    BY <2>2, <2>3
<1>5. TypeOK'
  <2>1. dir' \in [BlobIds -> Files] /\ journal' \in [BlobIds -> SUBSET Files]
    BY <1>1 DEF IInv, TypeOK
  <2>2. seen' \in [Procs -> SUBSET (Data \cup {NoBlob, Torn})]
    BY <1>1 DEF IInv, TypeOK
  <2>3. pc' \in [Procs -> Labels] /\ temp' \in [Procs -> Files]
        /\ result' \in [Procs -> {"none", "deleted"} \cup Statuses \cup ErrorCodes \cup Data \cup {Torn}]
    BY <1>2 DEF IInv, TypeOK, Labels
  <2> QED
    BY <1>2, <2>1, <2>2, <2>3 DEF IInv, TypeOK
<1>6. GateOK'
  BY <1>2 DEF GateOK
<1> QED
  BY <1>3, <1>4, <1>5, <1>6 DEF IInv

LEMMA PutReplaceStep ==
  ASSUME IInv, NEW p \in Procs, PutReplace(p)
  PROVE  IInv'
<1>1. /\ pc[p] = "put_replace" /\ UNCHANGED <<CallFrame, status, lost>> /\ execEnabled
      /\ NoFile \in Files /\ status[p] \in Statuses
  BY WholeFilesAreFiles DEF PutReplace, At, IInv, TypeOK, GateOK, PutLabels
<1>2. CASE /\ PutAt(op[p].blob, temp[p]) /\ temp' = [temp EXCEPT ![p] = NoFile]
           /\ tempFiles' = tempFiles - 1 /\ Return(p, status[p]) /\ NoFault
  <2>1. /\ pc' = [pc EXCEPT ![p] = "idle"] /\ pc'[p] = "idle" /\ result'[p] = status[p]
        /\ op' = op /\ faults' \in Nat
    BY <1>1, <1>2, FaultsAreNat DEF Return, IInv, TypeOK, CallFrame
  <2>2. temp[p] \in WholeFiles
    <3>1. temp[p] \in Files /\ temp[p].data = op[p].data /\ temp[p].synced /\ op[p].data \in Data
      BY <1>1 DEF IInv, TypeOK, CallOK
    <3>2. temp[p].synced = TRUE
      BY <3>1 DEF Files
    <3> QED
      BY <3>1, <3>2 DEF Files, WholeFiles
  <2>3. /\ Cardinality(OpenProcs) \in Nat /\ Cardinality(OpenProcs) > 0
        /\ Cardinality(OpenProcs') = Cardinality(OpenProcs) - 1
    BY <1>1, <2>1, OpenCount DEF IInv, TypeOK
  <2>4. Accounted' /\ tempFiles' \in Nat
    BY <1>1, <1>2, <2>3 DEF IInv, TypeOK, Accounted
  <2>5. StatusTrue(p) /\ seen[p] \subseteq seen'[p]
    BY <1>1, <1>2 DEF IInv, CallOK, PutLabels, PutAt
  <2>6. AnswerTrue(p)'
    BY <2>1, <2>5, LocalFileBlobAssumption DEF AnswerTrue, StatusTrue, Statuses
  <2>7. CallOK(p)'
    BY <2>1, <2>6 DEF CallOK, PutLabels
  <2> QED
    BY <1>1, <1>2, <2>1, <2>2, <2>4, <2>7, PathStep
<1>3. CASE Fail(p) /\ UNCHANGED <<temp, tempFiles, FileFrame>>
  BY <1>1, <1>3, FailStep DEF TempFrame
<1> QED
  BY <1>2, <1>3 DEF PutReplace

LEMMA DeleteUnlinkStep ==
  ASSUME IInv, NEW p \in Procs, DeleteUnlink(p)
  PROVE  IInv'
<1>1. /\ pc[p] = "delete_unlink" /\ UNCHANGED <<CallFrame, TempFrame, status>>
      /\ faults' \in Nat /\ status' = [status EXCEPT ![p] = status[p]] /\ status[p] \in Statuses
  BY FaultsAreNat DEF DeleteUnlink, At, IInv, TypeOK
<1>2. CASE Here(p) # NoFile /\ PutAt(op[p].blob, NoFile) /\ Return(p, "deleted")
  <2>1. /\ pc' = [pc EXCEPT ![p] = "idle"] /\ pc'[p] = "idle" /\ result'[p] = "deleted"
        /\ UNCHANGED <<temp, tempFiles, lost>>
    BY <1>1, <1>2 DEF Return, IInv, TypeOK, TempFrame
  <2>2. temp' = [temp EXCEPT ![p] = temp[p]] /\ temp[p] \in Files /\ tempFiles' \in Nat
    BY <2>1 DEF IInv, TypeOK
  <2>3. execEnabled
    BY <1>1, <1>2, HereIsSeen DEF IInv, GateOK, FilesWhole, Here
  <2>4. CallOK(p)'
    BY <2>1, SilentAnswers DEF Silent, ErrorCodes
  <2>5. Accounted'
    <3>1. Cardinality(OpenProcs') = Cardinality(OpenProcs)
      BY <1>1, <2>1, OpenCount DEF IInv, TypeOK
    <3> QED
      BY <2>1, <3>1 DEF IInv, Accounted
  <2>6. NoFile \in WholeFiles
    BY WholeFilesAreFiles
  <2> QED
    BY <1>1, <1>2, <2>1, <2>2, <2>3, <2>4, <2>5, <2>6, PathStep
<1>3. CASE Return(p, "delete_failed") /\ UNCHANGED FileFrame
  BY <1>1, <1>3, ReturnSilently DEF Silent, ErrorCodes, OpenLabels
<1> QED
  BY <1>2, <1>3 DEF DeleteUnlink

LEMMA WriteBackStep ==
  ASSUME IInv, NEW b \in BlobIds, WriteBack(b)
  PROVE  IInv'
<1>1. /\ journal' = [journal EXCEPT ![b] = {dir[b]}]
      /\ UNCHANGED <<execEnabled, dir, pc, op, status, temp, tempFiles, lost, result, seen,
                     calls, faults>>
  BY DEF WriteBack, TempFrame
<1>2. \A p \in Procs : CallOK(p)'
  BY <1>1 DEF IInv, CallOK, StatusTrue, AnswerTrue, Here
<1>3. \A c \in BlobIds : journal'[c] \in {journal[c], {dir[c]}} /\ dir[c] \in journal[c]
  BY <1>1 DEF IInv, TypeOK, FilesWhole
<1>4. FilesWhole' /\ GateOK'
  BY <1>1, <1>3 DEF IInv, FilesWhole, GateOK
<1>5. TypeOK' /\ Accounted'
  BY <1>1 DEF IInv, TypeOK, Accounted, OpenProcs, Open
<1> QED
  BY <1>2, <1>4, <1>5 DEF IInv

(* After a power cut every path shows a whole file of its journal.         *)
LEMMA AfterPowerCut ==
  ASSUME IInv, PowerCut
  PROVE  \A b \in BlobIds : dir'[b] \in journal[b] /\ dir'[b] \in WholeFiles
<1> SUFFICES ASSUME NEW b \in BlobIds PROVE dir'[b] \in journal[b] /\ dir'[b] \in WholeFiles
  OBVIOUS
<1>1. PICK f \in journal[b] : dir'[b] \in AfterCut(f)
  BY DEF PowerCut
<1>2. f \in WholeFiles
  BY DEF IInv, FilesWhole
<1>3. AfterCut(f) = {f}
  BY <1>2, WholeFilesAreFiles DEF AfterCut
<1> QED
  BY <1>1, <1>2, <1>3

LEMMA PowerCutStep ==
  ASSUME IInv, PowerCut
  PROVE  IInv'
<1>1. /\ journal' = [b \in BlobIds |-> {dir'[b]}]
      /\ pc' = [p \in Procs |-> "idle"] /\ result' = [p \in Procs |-> "none"]
      /\ temp' = [p \in Procs |-> NoFile]
      /\ lost' = lost + Cardinality(OpenProcs)
      /\ UNCHANGED <<execEnabled, op, calls, status, tempFiles, seen>>
      /\ faults' \in Nat
      /\ DOMAIN dir' = BlobIds /\ dir' = [b \in BlobIds |-> dir'[b]]
  BY FaultsAreNat DEF PowerCut, CallFrame, OpenProcs
<1>2. \A b \in BlobIds : dir'[b] \in journal[b] /\ dir'[b] \in WholeFiles /\ dir'[b] \in Files
  BY AfterPowerCut, WholeFilesAreFiles
<1>3. OpenProcs' = {} /\ Cardinality(OpenProcs') = 0 /\ Cardinality(OpenProcs) \in Nat
  <2>1. OpenProcs' = {}
    BY <1>1 DEF OpenProcs, Open
  <2>2. Cardinality(OpenProcs') = 0
    BY <2>1, FS_EmptySet
  <2>3. IsFiniteSet(OpenProcs)
    BY LocalFileBlobAssumption, FS_Subset DEF OpenProcs
  <2> QED
    BY <2>1, <2>2, <2>3, FS_CardinalityType
<1>4. ASSUME NEW p \in Procs PROVE CallOK(p)'
  <2>1. pc'[p] = "idle" /\ result'[p] = "none" /\ "none" \in Silent
    BY <1>1 DEF Silent, ErrorCodes
  <2> QED
    BY <2>1, SilentAnswers
<1>5. FilesWhole'
  BY <1>1, <1>2 DEF FilesWhole
<1>6. Accounted'
  BY <1>1, <1>3 DEF IInv, TypeOK, Accounted
<1>7. GateOK'
  <2>1. SUFFICES ASSUME ~execEnabled
                 PROVE  /\ \A p \in Procs : pc'[p] \notin PutLabels
                        /\ \A b \in BlobIds : journal'[b] = {NoFile}
                        /\ lost' = 0
    BY <1>1 DEF GateOK
  <2>2. OpenProcs = {}
    BY <2>1 DEF IInv, GateOK, OpenProcs, Open, PutLabels
  <2>3. Cardinality(OpenProcs) = 0
    BY <2>2, FS_EmptySet
  <2>4. \A b \in BlobIds : journal'[b] = {NoFile}
    BY <1>1, <1>2, <2>1 DEF IInv, GateOK
  <2> QED
    BY <1>1, <2>1, <2>3, <2>4 DEF IInv, GateOK, PutLabels
<1>8. TypeOK'
  <2>1. dir' \in [BlobIds -> Files] /\ journal' \in [BlobIds -> SUBSET Files]
    BY <1>1, <1>2
  <2>2. NoFile \in Files
    BY WholeFilesAreFiles
  <2> QED
    BY <1>1, <1>3, <2>1, <2>2 DEF IInv, TypeOK, Labels
<1> QED
  BY <1>4, <1>5, <1>6, <1>7, <1>8 DEF IInv

LEMMA NextIInv == IInv /\ [Next]_vars => IInv'
<1> SUFFICES ASSUME IInv, [Next]_vars PROVE IInv'
  OBVIOUS
<1>1. CASE UNCHANGED vars
  <2>1. UNCHANGED <<execEnabled, dir, journal, pc, op, status, temp, tempFiles, lost, result,
                    seen, calls, faults>>
    BY <1>1 DEF vars
  <2>2. \A p \in Procs : CallOK(p)'
    BY <2>1 DEF IInv, CallOK, StatusTrue, AnswerTrue, Here
  <2>3. FilesWhole' /\ GateOK' /\ TypeOK' /\ Accounted'
    BY <2>1 DEF IInv, FilesWhole, GateOK, TypeOK, Accounted, OpenProcs, Open
  <2> QED
    BY <2>2, <2>3 DEF IInv
<1>2. ASSUME NEW p \in Procs, NEW b \in BlobIds, NEW d \in Data, StartPut(p, b, d) PROVE IInv'
  BY <1>2, CallStep DEF StartPut
<1>3. ASSUME NEW p \in Procs, NEW b \in BlobIds, StartGet(p, b) \/ StartDelete(p, b) PROVE IInv'
  <2>1. op[p].data \in Data
    BY DEF IInv, TypeOK
  <2> QED
    BY <1>3, <2>1, CallStep DEF StartGet, StartDelete
<1>4. ASSUME NEW p \in Procs, NEW code \in ErrorCodes, Refuse(p, code) PROVE IInv'
  BY <1>4, RefuseStep
<1>5. ASSUME NEW p \in Procs,
             \/ PutExists(p) \/ PutRead(p) \/ PutMkstemp(p) \/ PutWrite(p) \/ PutFsync(p)
             \/ PutReplace(p) \/ PutCleanup(p)
             \/ GetExists(p) \/ GetRead(p) \/ DeleteExists(p) \/ DeleteUnlink(p)
             \/ Die(p)
      PROVE  IInv'
  BY <1>5, PutExistsStep, PutReadStep, PutMkstempStep, PutWriteStep, PutFsyncStep,
     PutReplaceStep, PutCleanupStep, GetExistsStep, GetReadStep, DeleteExistsStep,
     DeleteUnlinkStep, DieStep
<1>6. ASSUME NEW b \in BlobIds, WriteBack(b) PROVE IInv'
  BY <1>6, WriteBackStep
<1> QED
  BY <1>1, <1>2, <1>3, <1>4, <1>5, <1>6, PowerCutStep DEF Next

LEMMA Invariance == Spec => []IInv
BY InitIInv, NextIInv, PTL DEF Spec

-----------------------------------------------------------------------------
(* Theorems                                                                *)

(* The state is what the code's types say.                                 *)
THEOREM TypeCorrect == Spec => []TypeOK
<1>1. IInv => TypeOK
  BY DEF IInv
<1> QED
  BY <1>1, Invariance, PTL

(* For any number of processes, blobs, errors, deaths and power cuts, no   *)
(* blob path ever shows a part of a file.                                  *)
THEOREM BlobsAreWhole == Spec => []NoTornBlob
<1>1. IInv => NoTornBlob
  BY WholeFilesAreFiles DEF IInv, FilesWhole, NoTornBlob
<1> QED
  BY <1>1, Invariance, PTL

(* No path through put_blob leaks a temporary file: each is that of a put  *)
(* under way, or was left by a death or a failed unlink.                   *)
THEOREM TempFilesCounted == Spec => []TempFilesAccountedFor
<1>1. IInv => TempFilesAccountedFor
  BY DEF IInv, Accounted, OpenProcs, TempFilesAccountedFor
<1> QED
  BY <1>1, Invariance, PTL

(* What a call answers was true of the path while it ran.                  *)
THEOREM AnswersTrue == Spec => []AnswersWereTrue
<1>1. IInv => AnswersWereTrue
  BY DEF IInv, CallOK, At, AnswersWereTrue
<1> QED
  BY <1>1, Invariance, PTL

(* Behind a closed gate nothing is written, whatever is called.            *)
THEOREM ClosedGate == Spec => []ClosedGateWritesNothing
<1>1. IInv => ClosedGateWritesNothing
  <2> SUFFICES ASSUME IInv, ~execEnabled
               PROVE  dir = [b \in BlobIds |-> NoFile] /\ tempFiles = 0
    BY DEF ClosedGateWritesNothing
  <2>1. \A b \in BlobIds : dir[b] = NoFile
    BY DEF IInv, FilesWhole, GateOK
  <2>2. OpenProcs = {}
    BY DEF IInv, GateOK, OpenProcs, Open, PutLabels
  <2>3. tempFiles = 0
    BY <2>2, FS_EmptySet DEF IInv, GateOK, Accounted
  <2> QED
    BY <2>1, <2>3 DEF IInv, TypeOK
<1> QED
  BY <1>1, Invariance, PTL

(* A replacement or a removal is one change of the abstract store.         *)
LEMMA PutAtIsChange ==
  ASSUME IInv, NEW b \in BlobIds, NEW file, file.data \in Data \cup {NoBlob}, PutAt(b, file)
  PROVE  Abstract!Next
<1>1. /\ dir' = [dir EXCEPT ![b] = file] /\ journal' = [journal EXCEPT ![b] = journal[b] \cup {file}]
      /\ DOMAIN dir = BlobIds /\ DOMAIN journal = BlobIds
  BY DEF PutAt, IInv, TypeOK
<1>2. Abstract!Change(b, file.data)
  <2>1. \A c \in BlobIds : dir'[c].data = IF c = b THEN file.data ELSE dir[c].data
    BY <1>1
  <2>2. \A c \in BlobIds : {f.data : f \in journal'[c]} =
                             IF c = b THEN {f.data : f \in journal[c]} \cup {file.data}
                             ELSE {f.data : f \in journal[c]}
    BY <1>1
  <2> QED
    BY <2>1, <2>2 DEF Abstract!Change
<1> QED
  BY <1>2 DEF Abstract!Next, Abstract!Values

(* The system calls, with their errors, deaths and power cuts, implement   *)
(* the abstract store: a blob changes only as a whole.                     *)
THEOREM ImplementsBlobStore == Spec => BlobStoreImplemented
<1>1. Init => Abstract!Init
  BY DEF Init, Abstract!Init, NoFile
<1>2. IInv /\ [Next]_vars => [Abstract!Next]_<<[b \in BlobIds |-> dir[b].data],
                                              [b \in BlobIds |-> {f.data : f \in journal[b]}]>>
  <2> SUFFICES ASSUME IInv, [Next]_vars
               PROVE  Abstract!Next \/ UNCHANGED <<dir, journal>>
    OBVIOUS
  <2>1. CASE UNCHANGED vars
    BY <2>1 DEF vars
  <2>2. ASSUME NEW p \in Procs, NEW b \in BlobIds,
               \/ \E d \in Data : StartPut(p, b, d)
               \/ StartGet(p, b) \/ StartDelete(p, b)
        PROVE  UNCHANGED <<dir, journal>>
    BY <2>2 DEF StartPut, StartGet, StartDelete, Call
  <2>3. ASSUME NEW p \in Procs, NEW code, Refuse(p, code) PROVE UNCHANGED <<dir, journal>>
    BY <2>3 DEF Refuse, FileFrame
  <2>4. ASSUME NEW p \in Procs,
               \/ PutExists(p) \/ PutRead(p) \/ PutMkstemp(p) \/ PutWrite(p) \/ PutFsync(p)
               \/ PutCleanup(p) \/ GetExists(p) \/ GetRead(p) \/ DeleteExists(p) \/ Die(p)
        PROVE  UNCHANGED <<dir, journal>>
    BY <2>4 DEF PutExists, PutRead, PutMkstemp, PutWrite, PutFsync, PutCleanup, GetExists,
                GetRead, DeleteExists, Die, FileFrame
  <2>5. ASSUME NEW p \in Procs, PutReplace(p)
        PROVE  Abstract!Next \/ UNCHANGED <<dir, journal>>
    <3>1. op[p].blob \in BlobIds /\ temp[p].data \in Data
      BY <2>5 DEF PutReplace, At, IInv, TypeOK, CallOK
    <3> QED
      BY <2>5, <3>1, PutAtIsChange DEF PutReplace, FileFrame
  <2>6. ASSUME NEW p \in Procs, DeleteUnlink(p)
        PROVE  Abstract!Next \/ UNCHANGED <<dir, journal>>
    <3>1. op[p].blob \in BlobIds /\ NoFile.data \in Data \cup {NoBlob}
      BY DEF IInv, TypeOK, NoFile
    <3> QED
      BY <2>6, <3>1, PutAtIsChange DEF DeleteUnlink, FileFrame
  <2>7. ASSUME NEW b \in BlobIds, WriteBack(b) PROVE Abstract!Next
    <3>1. /\ dir' = dir /\ journal' = [journal EXCEPT ![b] = {dir[b]}]
          /\ DOMAIN dir = BlobIds /\ DOMAIN journal = BlobIds
      BY <2>7 DEF WriteBack, IInv, TypeOK
    <3>2. \A c \in BlobIds : {f.data : f \in journal'[c]} =
                               IF c = b THEN {dir[b].data} ELSE {f.data : f \in journal[c]}
      BY <3>1
    <3> QED
      BY <3>1, <3>2 DEF Abstract!Flush, Abstract!Next
  <2>8. CASE PowerCut
    <3>1. \A b \in BlobIds : dir'[b] \in journal[b] /\ dir'[b] \in WholeFiles
      BY <2>8, AfterPowerCut
    <3>2. /\ journal' = [b \in BlobIds |-> {dir'[b]}]
          /\ \A b \in BlobIds : {f.data : f \in journal'[b]} = {dir'[b].data}
      BY <2>8 DEF PowerCut
    <3>3. \A b \in BlobIds : /\ dir'[b].data \in Data \cup {NoBlob}
                             /\ dir'[b].data \in {f.data : f \in journal[b]}
      BY <3>1 DEF WholeFiles
    <3> QED
      BY <3>2, <3>3 DEF Abstract!PowerFailure, Abstract!Next, Abstract!Values
  <2> QED
    BY <2>1, <2>2, <2>3, <2>4, <2>5, <2>6, <2>7, <2>8 DEF Next
<1> QED
  BY <1>1, <1>2, Invariance, PTL DEF Spec, BlobStoreImplemented, Abstract!Spec
=============================================================================
