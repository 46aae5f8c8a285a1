---------------------------- MODULE SessionContract ---------------------------
(***************************************************************************)
(* What the daemon promises the clients of a session, without saying how:  *)
(* a session is live once and ends once, its verdict outlives the daemon,  *)
(* and control goes from hand to hand under the host's precedence. The     *)
(* death and the restart of the daemon are not events of this              *)
(* specification: at most they end live sessions.                          *)
(***************************************************************************)
EXTENDS SessionLifecycle

CONSTANTS Sessions, Clients, NoClient

VARIABLES
    phase,   \* what a client would be told about the session
    holder,  \* the client in control, or NoClient
    lane     \* "Remote" while a remote client is in control, else "Host"

contractVars == <<phase, holder, lane>>

Phases == {"new", "live", "Exited", "Error", "gone"}

\* A failed launch goes straight to Error. "gone" is an id that was cleared, or
\* lost with the daemon before it had a record.
PhaseStep(s) ==
    \/ phase'[s] = phase[s]
    \/ phase[s] = "new"  /\ phase'[s] \in {"live", "Error"}
    \/ phase[s] = "live" /\ phase'[s] \in {"Exited", "Error", "gone"}
    \/ IsTerminalStatus(phase[s]) /\ phase'[s] = "gone"

\* Control changes hands by a claim on a live session, which a remote holder
\* only loses to the host, or goes back to the host with no client.
ControlStep(s) ==
    \/ holder'[s] = holder[s] /\ lane'[s] = lane[s]
    \/ holder'[s] = NoClient /\ lane'[s] = "Host"
    \/ /\ holder'[s] \in Clients
       /\ phase[s] = "live" /\ phase'[s] = "live"
       /\ lane[s] = "Remote" => lane'[s] = "Host"

ContractInit ==
    /\ phase  = [s \in Sessions |-> "new"]
    /\ holder = [s \in Sessions |-> NoClient]
    /\ lane   = [s \in Sessions |-> "Host"]

ContractNext == \A s \in Sessions : PhaseStep(s) /\ ControlStep(s)

ContractSpec == ContractInit /\ [][ContractNext]_contractVars
===============================================================================
