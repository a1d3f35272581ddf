----------------------------- MODULE Operations -----------------------------
(***************************************************************************)
(* What an operator runs beside the requests of clients: the process, from *)
(* its settings to its readiness (Startup), and the diagnosis script of    *)
(* scripts/run_ai_core_diagnostics.py (UpstreamProbe).  The two share no   *)
(* state and no call, so that one of them at a time is enough: "shift"     *)
(* says which, for the whole of a behaviour, and the state of the other    *)
(* stays at one value.                                                     *)
(***************************************************************************)
EXTENDS Startup, UpstreamProbe

VARIABLE shift
vars == <<startupVars, probeVars, shift>>

Init == /\ StartupInit /\ ProbeInit
        /\ \/ shift = "service" /\ upstream = "healthy"
           \/ shift = "diagnosis" /\ \A p \in Paths : disk[p] = "absent"

Next ==
  \/ shift = "service" /\ StartupNext /\ UNCHANGED <<probeVars, shift>>
  \/ shift = "diagnosis" /\ ProbeNext /\ UNCHANGED <<startupVars, shift>>

Spec == Init /\ [][Next]_vars

TypeOK == StartupTypeOK /\ ProbeTypeOK
=============================================================================
