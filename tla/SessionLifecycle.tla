--------------------------- MODULE SessionLifecycle ---------------------------
(***************************************************************************)
(* The session state machine: src/src/session/session_lifecycle.cpp, the   *)
(* guard that SessionRecord::TryTransition puts on every status change,    *)
(* and the two classifications of a status that the rest of the daemon     *)
(* makes its decisions on.                                                 *)
(***************************************************************************)

Statuses == {"Created", "Starting", "Running", "AwaitingInput", "Exited", "Error"}

\* The table of session_lifecycle.cpp. Exited and Error have no successor.
IsValidTransition(current, next) ==
    \/ current = "Created"       /\ next = "Starting"
    \/ current = "Starting"      /\ next \in {"Running", "Error"}
    \/ current = "Running"       /\ next \in {"AwaitingInput", "Exited", "Error"}
    \/ current = "AwaitingInput" /\ next \in {"Running", "Exited", "Error"}

\* The status after TryTransition: an invalid request is refused.
TryTransition(current, next) ==
    IF IsValidTransition(current, next) THEN next ELSE current

IsInteractiveStatus(status) == status \in {"Running", "AwaitingInput"}

IsTerminalStatus(status) == status \in {"Exited", "Error"}

\* What a persisted status becomes when the daemon comes back without the PTY.
NormalizeRecoveredStatus(status) ==
    IF IsTerminalStatus(status) THEN status ELSE "Exited"
===============================================================================
