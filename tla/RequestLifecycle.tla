--------------------------- MODULE RequestLifecycle ---------------------------
(***************************************************************************)
(* What CommandOrchestrator.execute promises of a request, whatever        *)
(* adapters are behind it: the manifest is kept before anything is sent,   *)
(* nothing is sent again while an earlier attempt may still count, never   *)
(* more often than the policy allows, and the answer says no more than     *)
(* the provider did.  How blobs are written, which exception ends an       *)
(* attempt and where a process dies is left open.                          *)
(***************************************************************************)
EXTENDS Naturals, Sequences, FiniteSets

CONSTANTS Workers, Commands

VARIABLES
  limit,      \* the attempts a request has, the same for all
  received,   \* the number of requests received
  phase,      \* [worker -> how far it is with its request]
  number,     \* [worker -> the number of its request]
  doing,      \* [worker -> the command of its request]
  kept,       \* [worker -> the hashes of the manifests it keeps]
  answer,     \* [worker -> what it answered]
  ledger      \* what was sent to the provider, and what became of it

vars == <<limit, received, phase, number, doing, kept, answer, ledger>>

NoAnswer == [outcome |-> "none", tx |-> 0]
Error == [outcome |-> "error", tx |-> 0]
Refused == [outcome |-> "refused", tx |-> 0]
Receipt(tx) == [outcome |-> "receipt", tx |-> tx]

(* The places of the ledger that worker w's request has, and those of them *)
(* whose outcome the request may not pass over.                            *)
Own(w) == {i \in DOMAIN ledger : ledger[i].req = number[w]}
Standing(w) == {i \in Own(w) : ledger[i].fate = "standing"}

Init ==
  /\ limit \in Nat
  /\ received = 0
  /\ phase = [w \in Workers |-> "idle"]
  /\ number = [w \in Workers |-> 0]
  /\ doing \in [Workers -> Commands]
  /\ kept = [w \in Workers |-> {}]
  /\ answer = [w \in Workers |-> NoAnswer]
  /\ ledger = <<>>

Accept(w, c) ==
  /\ phase[w] \in {"idle", "answered"}
  /\ received' = received + 1
  /\ number' = [number EXCEPT ![w] = received + 1]
  /\ doing' = [doing EXCEPT ![w] = c]
  /\ phase' = [phase EXCEPT ![w] = "received"]
  /\ answer' = [answer EXCEPT ![w] = NoAnswer]
  /\ UNCHANGED <<limit, kept, ledger>>

Keep(w) ==
  /\ phase[w] = "received"
  /\ kept' = [kept EXCEPT ![w] = @ \cup {doing[w].hash}]
  /\ phase' = [phase EXCEPT ![w] = "kept"]
  /\ UNCHANGED <<limit, received, number, doing, answer, ledger>>

(* Every earlier attempt was given up, and there is one left.              *)
Send(w) ==
  /\ phase[w] = "kept"
  /\ Standing(w) = {}
  /\ Cardinality(Own(w)) < limit
  /\ ledger' = Append(ledger, [req |-> number[w], cmd |-> doing[w], state |-> "in_flight",
                               fate |-> "standing"])
  /\ UNCHANGED <<limit, received, phase, number, doing, kept, answer>>

Say(w, a) ==
  /\ phase' = [phase EXCEPT ![w] = "answered"]
  /\ answer' = [answer EXCEPT ![w] = a]

(* The attempt that stands failed for the moment.  The request may try     *)
(* again, or ends with an error.                                           *)
GiveUp(w) ==
  /\ phase[w] = "kept"
  /\ \E i \in Standing(w) : ledger' = [ledger EXCEPT ![i].fate = "given_up"]
  /\ Say(w, Error) \/ UNCHANGED <<phase, answer>>
  /\ UNCHANGED <<limit, received, number, doing, kept>>

(* A receipt names an attempt of the request that the provider accepted,   *)
(* or nothing was sent at all; "refused" is said only when no attempt that *)
(* stands can still be accepted; an error says nothing.                    *)
Answer(w) ==
  /\ phase[w] \in {"received", "kept"}
  /\ \/ Say(w, Error)
     \/ /\ phase[w] = "kept"
        /\ \/ Own(w) = {} /\ Say(w, Receipt(0))
           \/ \E i \in Standing(w) : ledger[i].state = "accepted" /\ Say(w, Receipt(i))
           \/ (\A i \in Standing(w) : ledger[i].state = "refused") /\ Say(w, Refused)
  /\ UNCHANGED <<limit, received, number, doing, kept, ledger>>

(* The provider accepts or refuses, waited for or not.                     *)
Decide(i, verdict) ==
  /\ ledger[i].state = "in_flight"
  /\ ledger' = [ledger EXCEPT ![i].state = verdict]
  /\ UNCHANGED <<limit, received, phase, number, doing, kept, answer>>

(* The process dies with all it keeps; what it sent stands.                *)
Die(w) ==
  /\ phase' = [phase EXCEPT ![w] = "idle"]
  /\ kept' = [kept EXCEPT ![w] = {}]
  /\ answer' = [answer EXCEPT ![w] = NoAnswer]
  /\ UNCHANGED <<limit, received, number, doing, ledger>>

Next ==
  \/ \E w \in Workers : Keep(w) \/ Send(w) \/ GiveUp(w) \/ Answer(w) \/ Die(w)
  \/ \E w \in Workers, c \in Commands : Accept(w, c)
  \/ \E i \in DOMAIN ledger, verdict \in {"accepted", "refused"} : Decide(i, verdict)

Spec == Init /\ [][Next]_vars
===============================================================================
