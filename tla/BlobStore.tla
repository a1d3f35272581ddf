------------------------------ MODULE BlobStore ------------------------------
(***************************************************************************)
(* What a blob storage adapter promises its callers: under every blob id   *)
(* there is nothing or one complete value that some put was given, and it  *)
(* changes only as a whole.  A power failure may bring back an earlier     *)
(* complete value that had not been flushed out yet.                       *)
(***************************************************************************)
CONSTANTS BlobIds, Data, NoBlob

VARIABLES
  store,   \* [blob id -> the value under it]
  kept     \* [blob id -> the values a power failure may leave under it]

Values == Data \cup {NoBlob}

Init ==
  /\ store = [b \in BlobIds |-> NoBlob]
  /\ kept = [b \in BlobIds |-> {NoBlob}]

Change(b, value) ==
  /\ store' = [store EXCEPT ![b] = value]
  /\ kept' = [kept EXCEPT ![b] = @ \cup {value}]

Flush(b) ==
  /\ kept' = [kept EXCEPT ![b] = {store[b]}]
  /\ UNCHANGED store

PowerFailure ==
  /\ store' \in [BlobIds -> Values]
  /\ \A b \in BlobIds : store'[b] \in kept[b]
  /\ kept' = [b \in BlobIds |-> {store'[b]}]

Next ==
  \/ \E b \in BlobIds, value \in Values : Change(b, value)
  \/ \E b \in BlobIds : Flush(b)
  \/ PowerFailure

Spec == Init /\ [][Next]_<<store, kept>>
=============================================================================
