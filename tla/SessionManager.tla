---------------------------- MODULE SessionManager ----------------------------
(***************************************************************************)
(* vibe::service::SessionManager with the parts it owns: one SessionEntry  *)
(* per session, the SessionRuntime and PosixPtyProcess behind a PTY        *)
(* session, the ManagedLogProcess behind a log session, the operating      *)
(* system's view of the child processes, and the session store.            *)
(*                                                                         *)
(* Every handler of the daemon runs to completion on its one io thread, so *)
(* a call of a SessionManager method is one action. What interleaves with  *)
(* it are the child processes, which end when they like, and the death of  *)
(* the daemon itself.                                                      *)
(*                                                                         *)
(* Abstractions. Output, terminal contents, tags, names and timestamps are *)
(* left out: no decision modelled here reads them. A session id is a       *)
(* member of Sessions and is issued once (MakeSessionId takes a clock and  *)
(* 64 random bits, and retries while FindEntry knows the id).              *)
(***************************************************************************)
EXTENDS SessionLifecycle

CONSTANTS
    Sessions,         \* session ids
    Clients,          \* client ids that can ask for control
    Privileged,       \* the clients of the "local-controller-" and "remote-controller-" lanes
    NoClient,         \* controller_client_id == std::nullopt
    NoRecord,         \* the store has no record of the session
    StoreCanFail,     \* may a write of the session store fail (its result is ignored)?
    TerminateCanFail  \* may kill or waitpid fail in Terminate?

ASSUME ManagerAssumption ==
    /\ Privileged \subseteq Clients
    /\ NoClient \notin Clients
    /\ NoRecord \notin Statuses
    /\ StoreCanFail \in BOOLEAN
    /\ TerminateCanFail \in BOOLEAN

VARIABLES
    daemon,   \* "up", "stopped" (Shutdown has run, the process is about to end) or "down"
    issued,   \* the ids MakeSessionId has handed out
    entry,    \* sessions_: one record per id, NoEntry when there is none
    child,    \* external: the session's process as the operating system sees it
    stored    \* the status in the session store, or NoRecord

vars == <<daemon, issued, entry, child, stored>>

ControllerKinds == {"None", "Host", "Remote"}

\* What stands behind an entry: a SessionRuntime ("pty"), a ManagedLogProcess
\* ("log"), or only a snapshot ("record": failed creates and recovered ones).
Backings == {"none", "pty", "log", "record"}

Entries == [backing  : Backings,
            status   : Statuses,
            pid      : BOOLEAN,  \* SessionRuntime::pid_ or ManagedLogProcess::pid_ is set
            fd       : BOOLEAN,  \* PosixPtyProcess still has pid_ and master_fd_
            kind     : ControllerKinds,
            client   : Clients \cup {NoClient},
            recovered: BOOLEAN]

NoEntry == [backing |-> "none", status |-> "Created", pid |-> FALSE, fd |-> FALSE,
            kind |-> "None", client |-> NoClient, recovered |-> FALSE]

\* "exited" and "failed" are zombies: ended with code 0 or not, not yet waited for.
\* "orphan" runs on after the daemon that forked it is gone.
ChildStates == {"none", "running", "exited", "failed", "orphan"}
Unreaped == {"running", "exited", "failed"}
Zombie == {"exited", "failed"}

Present(s) == entry[s].backing # "none"

HasControl(s, c) ==
    Present(s) /\ entry[s].client = c /\ entry[s].kind # "None"

HasPrivilegedController(s) ==
    Present(s) /\ entry[s].kind # "None" /\ entry[s].client \in Privileged

ResetControllerState(e) == [e EXCEPT !.client = NoClient, !.kind = "Host"]

\* PersistEntry for the sessions in touched. UpsertSessionRecord replaces the
\* record or, when the write fails, leaves the old one; nobody looks at the result.
PersistEntries(touched, newEntry) ==
    \E written \in (IF StoreCanFail THEN SUBSET touched ELSE {touched}) :
        stored' = [s \in Sessions |->
                      IF s \in written THEN newEntry[s].status ELSE stored[s]]

PersistEntry(s, newEntry) == PersistEntries({s}, newEntry)
-------------------------------------------------------------------------------
Init ==
    /\ daemon = "up"
    /\ issued = {}
    /\ entry  = [s \in Sessions |-> NoEntry]
    /\ child  = [s \in Sessions |-> "none"]
    /\ stored = [s \in Sessions |-> NoRecord]

\* external: the session's process ends by itself, cleanly or not.
ChildExits(s) ==
    /\ child[s] = "running"
    /\ \E end \in Zombie : child' = [child EXCEPT ![s] = end]
    /\ UNCHANGED <<daemon, issued, entry, stored>>

\* CreateSession when SessionRuntime::Start succeeds.
CreateSession(s) ==
    /\ daemon = "up"
    /\ s \notin issued
    /\ LET status == TryTransition(TryTransition("Created", "Starting"), "Running")
           e      == [backing |-> "pty", status |-> status, pid |-> TRUE, fd |-> TRUE,
                      kind |-> "Host", client |-> NoClient, recovered |-> FALSE]
       IN  /\ entry' = [entry EXCEPT ![s] = e]
           /\ child' = [child EXCEPT ![s] = "running"]
           /\ PersistEntry(s, entry')
    /\ issued' = issued \cup {s}
    /\ UNCHANGED daemon

\* CreateSession when the command is empty, the environment cannot be resolved,
\* there is no PTY, or Start fails (then the pushed entry is popped again):
\* RecordCreateFailureSession leaves an Error record nobody controls.
CreateSessionFails(s) ==
    /\ daemon = "up"
    /\ s \notin issued
    /\ entry' = [entry EXCEPT ![s] =
                    [backing |-> "record", status |-> "Error", pid |-> FALSE, fd |-> FALSE,
                     kind |-> "None", client |-> NoClient, recovered |-> FALSE]]
    /\ PersistEntry(s, entry')
    /\ issued' = issued \cup {s}
    /\ UNCHANGED <<daemon, child>>

\* CreateLogSession of a command that starts (the HTTP handler requires a
\* command). The entry is not persisted. A failing start erases the entry.
CreateLogSession(s) ==
    /\ daemon = "up"
    /\ s \notin issued
    /\ entry' = [entry EXCEPT ![s] =
                    [backing |-> "log", status |-> "Running", pid |-> TRUE, fd |-> FALSE,
                     kind |-> "Host", client |-> NoClient, recovered |-> FALSE]]
    /\ child' = [child EXCEPT ![s] = "running"]
    /\ issued' = issued \cup {s}
    /\ UNCHANGED <<daemon, stored>>
-------------------------------------------------------------------------------
\* PollExit reaps a zombie; only a process still on record (pid_ # 0) is waited for.
PollExits(s) == entry[s].pid /\ child[s] \in Zombie

ExitStatus(s) == IF child[s] = "exited" THEN "Exited" ELSE "Error"

\* The entry after PollSession: SessionRuntime::PollOnce and HandleExit for a
\* PTY, where the exit closes the PTY and goes through TryTransition; a plain
\* assignment for a log process. The controller is left as it was.
PollSessionEntry(s) ==
    CASE entry[s].backing = "pty" /\ PollExits(s) ->
            LET status == TryTransition(entry[s].status, ExitStatus(s))
            IN  [entry[s] EXCEPT !.status = status, !.fd = FALSE,
                                 !.pid = (status = entry[s].status)]
      [] entry[s].backing = "log" /\ PollExits(s) ->
            [entry[s] EXCEPT !.status = ExitStatus(s), !.pid = FALSE]
      [] OTHER -> entry[s]

PollSessionChild(s) ==
    IF entry[s].backing \in {"pty", "log"} /\ PollExits(s) THEN "none" ELSE child[s]

\* Mutant: a PTY session is not persisted when its process has ended.
PersistsLogsOnly(s) == entry[s].backing = "log" /\ PollExits(s)

\* A polled PTY session is persisted every time, a log session when it ends.
PollSessionPersists(s) ==
    \/ entry[s].backing = "pty"
    \/ entry[s].backing = "log" /\ PollExits(s)

\* A poll of some sessions in one turn of the io thread.
PollEntries(polled) ==
    /\ entry' = [s \in Sessions |-> IF s \in polled THEN PollSessionEntry(s) ELSE entry[s]]
    /\ child' = [s \in Sessions |-> IF s \in polled THEN PollSessionChild(s) ELSE child[s]]
    /\ PersistEntries({s \in polled : PollSessionPersists(s)}, entry')

\* PollSession: a readable watcher or the controller of the session.
PollSession(s) ==
    /\ daemon = "up"
    /\ Present(s)
    /\ PollEntries({s})
    /\ UNCHANGED <<daemon, issued>>

\* Mutant: log sessions are left out of the periodic poll.
PollAllTakesPtyOnly(s) == entry[s].backing = "pty" /\ ~HasPrivilegedController(s)

\* PollAll skips what has no process object and what a privileged controller drives.
PollAllTakes(s) ==
    /\ entry[s].backing \in {"pty", "log"}
    /\ ~HasPrivilegedController(s)

PollAll ==
    /\ daemon = "up"
    /\ PollEntries({s \in Sessions : PollAllTakes(s)})
    /\ UNCHANGED <<daemon, issued>>
-------------------------------------------------------------------------------
\* RequestControl's decision: free for anyone while the host holds it, by
\* default or through a client; a remote controller yields only to a host claim.
GrantsControl(s, k) ==
    \/ entry[s].kind \in {"Host", "None"}
    \/ entry[s].kind = "Remote" /\ k = "Host"

\* Mutant: control of a session that has ended is granted.
RequestControlOfEnded(s, c, k) ==
    /\ daemon = "up"
    /\ Present(s)
    /\ k # "None"
    /\ GrantsControl(s, k)
    /\ entry' = [entry EXCEPT ![s] = [entry[s] EXCEPT !.client = c, !.kind = k]]
    /\ UNCHANGED <<daemon, issued, child, stored>>

RequestControl(s, c, k) ==
    /\ daemon = "up"
    /\ Present(s)
    /\ IsInteractiveStatus(entry[s].status)
    /\ k # "None"
    /\ GrantsControl(s, k)
    /\ entry' = [entry EXCEPT ![s] = [entry[s] EXCEPT !.client = c, !.kind = k]]
    /\ UNCHANGED <<daemon, issued, child, stored>>

ReleaseControl(s, c) ==
    /\ daemon = "up"
    /\ HasControl(s, c)
    /\ entry' = [entry EXCEPT ![s] = ResetControllerState(entry[s])]
    /\ UNCHANGED <<daemon, issued, child, stored>>

\* UpdateSessionGroupTags persists whatever the entry is, a log session too.
UpdateSessionGroupTags(s) ==
    /\ daemon = "up"
    /\ Present(s)
    /\ PersistEntry(s, entry)
    /\ UNCHANGED <<daemon, issued, entry, child>>
-------------------------------------------------------------------------------
\* Mutant: the early return for a session that has ended is missing.
NeedsTerminateAlways(s) == entry[s].backing \in {"pty", "log"}

\* A session with a process to terminate (Created and Starting are statuses only
\* inside CreateSession).
NeedsTerminate(s) ==
    entry[s].backing \in {"pty", "log"} /\ ~IsTerminalStatus(entry[s].status)

\* Mutant: the pid of a process that was waited for is kept.
ShutdownKeepsPid(e) == [e EXCEPT !.fd = FALSE, !.status = TryTransition(e.status, "Exited")]

\* The entry once the process is terminated: SessionRuntime::Shutdown goes
\* through TryTransition, for a log process the status is assigned.
ShutdownEntry(e) ==
    [e EXCEPT !.pid = FALSE, !.fd = FALSE,
              !.status = IF e.backing = "pty" THEN TryTransition(e.status, "Exited")
                                              ELSE "Exited"]

\* StopSession of a session that has already ended.
StopEndedSession(s) ==
    /\ daemon = "up"
    /\ Present(s)
    /\ IsTerminalStatus(entry[s].status)
    /\ entry' = [entry EXCEPT ![s] = ResetControllerState(entry[s])]
    /\ PersistEntry(s, entry')
    /\ UNCHANGED <<daemon, issued, child>>

\* StopSession of a live session whose process is terminated. Terminate fails on
\* a PosixPtyProcess that has no process any more.
StopSession(s) ==
    /\ daemon = "up"
    /\ NeedsTerminate(s)
    /\ entry[s].backing = "pty" => entry[s].fd
    /\ entry' = [entry EXCEPT ![s] = ResetControllerState(ShutdownEntry(entry[s]))]
    /\ child' = [child EXCEPT ![s] = "none"]
    /\ PersistEntry(s, entry')
    /\ UNCHANGED <<daemon, issued>>

\* StopSession of a live session when Terminate fails: a refused kill changes
\* nothing, a failing last waitpid leaves the killed process a zombie. The entry
\* stays as it is either way.
StopSessionFails(s) ==
    /\ daemon = "up"
    /\ TerminateCanFail
    /\ NeedsTerminate(s)
    /\ child[s] = "running"
    /\ child' = [child EXCEPT ![s] = "failed"]
    /\ UNCHANGED <<daemon, issued, entry, stored>>

\* ClearInactiveSessions erases every entry that is not interactive, removes its
\* record, and runs ~PosixPtyProcess, which terminates a process still on record.
Inactive(s) == Present(s) /\ ~IsInteractiveStatus(entry[s].status)

\* Mutant: the record of a cleared session stays in the store.
ClearKeepsRecords ==
    /\ daemon = "up"
    /\ entry' = [s \in Sessions |-> IF Inactive(s) THEN NoEntry ELSE entry[s]]
    /\ UNCHANGED <<daemon, issued, child, stored>>

ClearInactiveSessions ==
    /\ daemon = "up"
    /\ entry' = [s \in Sessions |-> IF Inactive(s) THEN NoEntry ELSE entry[s]]
    /\ child' = [s \in Sessions |-> IF Inactive(s) /\ (entry[s].fd \/ entry[s].pid)
                                    THEN "none" ELSE child[s]]
    /\ \E removed \in (IF StoreCanFail THEN SUBSET Sessions ELSE {Sessions}) :
          stored' = [s \in Sessions |-> IF Inactive(s) /\ s \in removed THEN NoRecord ELSE stored[s]]
    /\ UNCHANGED <<daemon, issued>>
-------------------------------------------------------------------------------
\* Mutant: the controller is not reset.
ShutdownKeepsController(s, terminated) ==
    IF NeedsTerminate(s) /\ terminated THEN ShutdownEntry(entry[s]) ELSE entry[s]

\* One turn of the loop in SessionManager::Shutdown. A PTY session whose process
\* cannot be terminated is skipped (the continue); a log session in that case
\* still loses its controller.
ShutdownStep(s, terminated) ==
    CASE NeedsTerminate(s) /\ terminated -> ResetControllerState(ShutdownEntry(entry[s]))
      [] NeedsTerminate(s) /\ ~terminated ->
            IF entry[s].backing = "pty" THEN entry[s] ELSE ResetControllerState(entry[s])
      [] Present(s) /\ ~NeedsTerminate(s) -> ResetControllerState(entry[s])
      [] OTHER -> entry[s]

\* The entries the loop persists: a PTY that is down, and any other that changed.
ShutdownPersists(s, terminated) ==
    \/ entry[s].backing = "pty" /\ (IsTerminalStatus(entry[s].status) \/ terminated)
    \/ entry[s].backing \in {"log", "record"} /\ ShutdownStep(s, terminated) # entry[s]

Shutdown ==
    /\ daemon = "up"
    /\ \E ended \in (IF TerminateCanFail THEN SUBSET Sessions ELSE {Sessions}) :
          /\ entry' = [s \in Sessions |-> ShutdownStep(s, s \in ended)]
          /\ child' = [s \in Sessions |-> IF NeedsTerminate(s) /\ s \in ended
                                          THEN "none" ELSE child[s]]
          /\ PersistEntries({s \in Sessions : ShutdownPersists(s, s \in ended)}, entry')
    /\ daemon' = "stopped"
    /\ UNCHANGED issued

\* The daemon process ends, after Shutdown or by a crash: memory is gone, what
\* still runs is nobody's child.
DaemonEnds ==
    /\ daemon \in {"up", "stopped"}
    /\ daemon' = "down"
    /\ entry' = [s \in Sessions |-> NoEntry]
    /\ child' = [s \in Sessions |-> IF child[s] \in {"running", "orphan"} THEN "orphan" ELSE "none"]
    /\ UNCHANGED <<issued, stored>>

\* A new daemon: HttpServer::Run calls LoadPersistedSessions before it serves.
LoadPersistedSessions ==
    /\ daemon = "down"
    /\ daemon' = "up"
    /\ entry' = [s \in Sessions |->
                    IF stored[s] = NoRecord THEN NoEntry
                    ELSE [backing |-> "record", status |-> NormalizeRecoveredStatus(stored[s]),
                          pid |-> FALSE, fd |-> FALSE, kind |-> "Host", client |-> NoClient,
                          recovered |-> TRUE]]
    /\ UNCHANGED <<issued, child, stored>>
-------------------------------------------------------------------------------
SessionNext(s) ==
    \/ CreateSession(s)
    \/ CreateSessionFails(s)
    \/ CreateLogSession(s)
    \/ PollSession(s)
    \/ \E c \in Clients, k \in ControllerKinds : RequestControl(s, c, k)
    \/ \E c \in Clients : ReleaseControl(s, c)
    \/ UpdateSessionGroupTags(s)
    \/ StopEndedSession(s)
    \/ StopSession(s)
    \/ StopSessionFails(s)
    \/ ChildExits(s)

Next ==
    \/ \E s \in Sessions : SessionNext(s)
    \/ PollAll
    \/ ClearInactiveSessions
    \/ Shutdown
    \/ DaemonEnds
    \/ LoadPersistedSessions

Spec == Init /\ [][Next]_vars

\* The maintenance timer of SessionPump::DoPoll rearms itself every time it
\* fires, whatever PollAll did, so a running daemon keeps polling.
FairSpec == Spec /\ WF_vars(PollAll)
-------------------------------------------------------------------------------
\* Type invariant: the entries, the processes behind them and the store.
TypeOK ==
    /\ daemon \in {"up", "stopped", "down"}
    /\ issued \in SUBSET Sessions
    /\ entry \in [Sessions -> Entries]
    /\ child \in [Sessions -> ChildStates]
    /\ stored \in [Sessions -> Statuses \cup {NoRecord}]

\* RequestControl reads *controller_client_id without a test when the controller
\* is remote and the claim is not the host's: a remote controller always has a
\* client. And a controller is only ever recorded for a session with a process
\* object behind it, so a record of a dead session cannot be held by anyone.
ControllerOK ==
    \A s \in Sessions :
        /\ entry[s].kind = "Remote" => entry[s].client # NoClient
        /\ entry[s].client # NoClient => entry[s].backing \in {"pty", "log"}
        /\ entry[s].kind = "None" => entry[s].backing \in {"none", "record"}

\* The books and the operating system agree about processes. A pid on record
\* (the one Terminate would signal) is a child not yet waited for, so it cannot
\* have been given to another process; a child not yet waited for is on record,
\* so nothing keeps running or stays a zombie behind the daemon's back; and the
\* session is interactive exactly as long. SessionRuntime and PosixPtyProcess,
\* which each keep a pid, never disagree.
OwnershipOK ==
    daemon = "up" =>
        \A s \in Sessions :
            /\ entry[s].pid <=> child[s] \in Unreaped
            /\ entry[s].pid <=> Present(s) /\ IsInteractiveStatus(entry[s].status)
            /\ entry[s].fd  <=> entry[s].backing = "pty" /\ entry[s].pid

\* A crash at any moment, followed by a restart, tells the same story: an ended
\* session comes back with the status it ended with, a PTY session comes back,
\* and a session that was cleared or never existed does not.
CrashSafe ==
    daemon # "down" /\ ~StoreCanFail =>
        \A s \in Sessions :
            /\ Present(s) /\ entry[s].backing # "log" => stored[s] # NoRecord
            /\ Present(s) /\ IsTerminalStatus(entry[s].status) =>
                  stored[s] # NoRecord /\ NormalizeRecoveredStatus(stored[s]) = entry[s].status
            /\ ~Present(s) => stored[s] = NoRecord

\* SessionManager::Shutdown finishes every session whose process it could end
\* (ended, recorded as ended, controlled by nobody) and leaves a PTY session
\* whose process it could not end as it was, pid included.
ShutdownOK ==
    daemon = "stopped" /\ ~StoreCanFail =>
        \A s \in Sessions :
            Present(s) =>
                \/ /\ IsTerminalStatus(entry[s].status)
                   /\ IsTerminalStatus(stored[s]) \/ entry[s].recovered
                   /\ entry[s].client = NoClient
                   /\ child[s] \in {"none", "orphan"}
                \/ entry[s].pid /\ TerminateCanFail

\* A session that has ended stays ended, with the same verdict, until its entry
\* is cleared or the daemon goes down: no poll, stop, claim or shutdown revives it.
TerminalIsFinal ==
    [][\A s \in Sessions :
          Present(s) /\ IsTerminalStatus(entry[s].status) /\ Present(s)'
              => entry'[s].status = entry[s].status]_vars

\* A remote controller of a live session can be followed only by the host: by a
\* host claim, or because control was given up, or because the session ended.
\* Another remote client never takes it over.
RemoteNotStolen ==
    [][\A s \in Sessions :
          entry[s].kind = "Remote" /\ entry'[s].kind = "Remote"
              => entry'[s].client = entry[s].client]_vars

\* The end of a process is noticed, unless a privileged controller has taken the
\* polling of the session over.
ExitNoticed ==
    \A s \in Sessions :
        (daemon = "up" /\ child[s] \in Zombie)
            ~> (~entry[s].pid \/ HasPrivilegedController(s) \/ daemon # "up")

\* What a client would be told: by the running daemon from its entry, and while
\* there is none by the one that will come up and read the store.
VisiblePhase(s) ==
    CASE s \notin issued -> "new"
      [] daemon # "down" /\ s \in issued /\ ~Present(s) -> "gone"
      [] daemon # "down" /\ s \in issued /\ Present(s) ->
            IF IsInteractiveStatus(entry[s].status) THEN "live" ELSE entry[s].status
      [] daemon = "down" /\ s \in issued ->
            IF stored[s] = NoRecord THEN "gone" ELSE NormalizeRecoveredStatus(stored[s])

Contract == INSTANCE SessionContract WITH
    phase  <- [s \in Sessions |-> VisiblePhase(s)],
    holder <- [s \in Sessions |-> entry[s].client],
    lane   <- [s \in Sessions |-> IF entry[s].kind = "Remote" THEN "Remote" ELSE "Host"]

\* SessionManager with a store whose writes succeed implements the contract,
\* through crashes and restarts.
ImplementsContract == Contract!ContractSpec
===============================================================================
