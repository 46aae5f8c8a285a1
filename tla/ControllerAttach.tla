--------------------------- MODULE ControllerAttach ---------------------------
(***************************************************************************)
(* Who drives one PTY session: the connections of http_server.cpp and the  *)
(* SessionManager calls their handlers make.                               *)
(*                                                                         *)
(*   Locals   LocalControllerSession: `sentrits attach` over the Unix      *)
(*            socket. Claims control as the host, becomes an observer when *)
(*            a remote takes over, and takes control back when it is free. *)
(*   Remotes  RemoteControllerWebSocketSession: claims control when it     *)
(*            opens and closes once it has lost it.                        *)
(*   Viewers  WebSocketSession: the observer socket, which may ask for     *)
(*            control and give it back.                                    *)
(*                                                                         *)
(* Local and remote controllers are privileged: while one of them holds    *)
(* control, PollAll and the readable watchers leave the session to it, and *)
(* it polls from its own wait on a duplicate of the PTY's descriptor.      *)
(*                                                                         *)
(* A handler runs to completion on the io thread, so it is one action,     *)
(* with every manager call it makes. Between two handlers of a connection  *)
(* anything else may run: has_control_ is then only what the connection    *)
(* last knew.                                                              *)
(*                                                                         *)
(* Abstractions. The PTY is as SessionManager's invariant OwnershipOK has  *)
(* it: its descriptor is open exactly as long as the session is live. The  *)
(* bytes are left out, and so is the length of a write queue: writing says *)
(* that it is not empty (StreamDelivery has the bytes and the queues). So  *)
(* are the viewports, which only decide how output is drawn. Input that is *)
(* written and a resize that succeeds change nothing here; they appear     *)
(* where they fail, are refused, or come with a claim of control.          *)
(***************************************************************************)
EXTENDS SessionLifecycle

CONSTANTS
    Locals, Remotes, Viewers,  \* connections, each used once
    NoClient,                  \* no client
    Faults                     \* which of these may fail, in some behaviours: "resize", the
                               \* ioctl on an open PTY, and "dup", for want of descriptors

Clients == Locals \cup Remotes \cup Viewers
Privileged == Locals \cup Remotes

ASSUME AttachAssumption ==
    /\ Locals \cap Remotes = {} /\ Locals \cap Viewers = {} /\ Remotes \cap Viewers = {}
    /\ NoClient \notin Clients
    /\ Faults \subseteq {"resize", "dup"}

VARIABLES
    status,    \* the session's status, or "gone" once it is cleared
    control,   \* controller_kind and controller_client_id of its entry
    child,     \* external: "running", ended but not waited for ("exited", "failed"), or "reaped"
    tty,       \* external: held, some process has the terminal open; output, bytes wait in it;
               \* faults, the calls that may fail
    conn,      \* the connections
    watcher    \* SessionPump has a readable watcher for the session

vars == <<status, control, child, tty, conn, watcher>>

\* "granted": the OK of a local handshake is being written. "refused": the
\* refusal is. A connection starts out as "idle".
ConnPhases == {"idle", "granted", "refused", "open", "closed"}

Conns == [phase  : ConnPhases,
          has    : BOOLEAN,   \* has_control_
          wait   : BOOLEAN,   \* pty_readable_ is there and its wait armed
          writing: BOOLEAN,   \* write_in_progress_
          closing: BOOLEAN,   \* close_after_writes_
          told   : BOOLEAN]   \* exit_event_sent_

NewConn == [phase |-> "idle", has |-> FALSE, wait |-> FALSE,
            writing |-> FALSE, closing |-> FALSE, told |-> FALSE]

HostControl == [kind |-> "Host", client |-> NoClient]

Live == IsInteractiveStatus(status)

HasControl(c) == control.client = c

HasPrivilegedController == control.client \in Privileged

Attached(c) == conn[c].phase = "open"
-------------------------------------------------------------------------------
Init ==
    /\ status = "Running"
    /\ control = HostControl
    /\ child = "running"
    /\ \E faults \in SUBSET Faults : tty = [held |-> TRUE, output |-> FALSE, faults |-> faults]
    /\ conn = [c \in Clients |-> NewConn]
    /\ watcher = FALSE

\* external: the program in the session. Its descendants may keep the terminal
\* open after it has ended.
ChildWrites ==
    /\ tty.held
    /\ tty' = [tty EXCEPT !.output = TRUE]
    /\ UNCHANGED <<status, control, child, conn, watcher>>

ChildExits ==
    /\ child = "running"
    /\ \E end \in {"exited", "failed"}, held \in BOOLEAN :
          child' = end /\ tty' = [tty EXCEPT !.held = held]
    /\ UNCHANGED <<status, control, conn, watcher>>

TtyReleased ==
    /\ child # "running"
    /\ tty.held
    /\ tty' = [tty EXCEPT !.held = FALSE]
    /\ UNCHANGED <<status, control, child, conn, watcher>>

\* What wakes a wait on the PTY: bytes, or the hangup.
Readable == tty.output \/ ~tty.held
-------------------------------------------------------------------------------
\* PollSession: drain the PTY, then waitpid.
PolledStatus ==
    IF Live /\ child \in {"exited", "failed"}
    THEN TryTransition(status, IF child = "exited" THEN "Exited" ELSE "Error")
    ELSE status

\* Mutant: a poll that drains the PTY and does not ask for the exit.
PollSessionDrains ==
    /\ tty' = [tty EXCEPT !.output = FALSE]
    /\ UNCHANGED <<status, child>>

PollSession ==
    /\ status' = PolledStatus
    /\ child' = IF Live /\ child # "running" THEN "reaped" ELSE child
    /\ tty' = IF Live THEN [tty EXCEPT !.output = FALSE] ELSE tty

\* Mutant: a remote controller gives way to anyone.
GrantsAnyone(k) == Live /\ k \in {"Host", "Remote"}

\* RequestControl: whether it is granted. A remote controller yields to the host.
Grants(k) == Live /\ (control.kind = "Host" \/ k = "Host")

\* ReleaseControl: what is left of control when c lets go.
ReleaseControl(c) == IF HasControl(c) THEN HostControl ELSE control

\* StopSession, which both ends the process and takes the control away.
StopSession ==
    /\ status' = IF Live THEN TryTransition(status, "Exited") ELSE status
    /\ child' = IF Live THEN "reaped" ELSE child
    /\ control' = HostControl
    /\ IF Live THEN \E held \in BOOLEAN : tty' = [tty EXCEPT !.held = tty.held /\ held]
               ELSE UNCHANGED tty

\* ForceClose: the wait and the socket are gone, and the control the connection
\* knows to hold is released.
ClosedConn == [NewConn EXCEPT !.phase = "closed"]

\* Mutant: a connection is closed and its control stays with it.
ForceCloseKeepsControl(c) ==
    /\ conn' = [conn EXCEPT ![c] = ClosedConn]
    /\ UNCHANGED control

ForceClose(c) ==
    /\ conn' = [conn EXCEPT ![c] = ClosedConn]
    /\ control' = IF conn[c].has THEN ReleaseControl(c) ELSE control

\* SyncReadableDescriptor and ArmReadableWait when the PTY is live or not.
Armed(live, armed) == IF ~live THEN {FALSE}
                      ELSE IF armed \/ "dup" \notin tty.faults THEN {TRUE} ELSE BOOLEAN
-------------------------------------------------------------------------------
\* HandleHandshake: claim control as the host and size the PTY. Only then is the
\* answer written.
LocalHandshake(c) ==
    /\ conn[c].phase = "idle"
    /\ IF Live
       THEN /\ control' = [kind |-> "Host", client |-> c]
            /\ \/ conn' = [conn EXCEPT ![c] = [NewConn EXCEPT !.phase = "granted", !.has = TRUE]]
               \/ /\ "resize" \in tty.faults
                  /\ conn' = [conn EXCEPT ![c] = [NewConn EXCEPT !.phase = "refused", !.has = TRUE]]
       ELSE /\ conn' = [conn EXCEPT ![c] = [NewConn EXCEPT !.phase = "refused"]]
            /\ UNCHANGED control
    /\ UNCHANGED <<status, child, tty, watcher>>

\* Mutant: the connection is served and its wait never armed.
LocalServedWithoutWait(c) ==
    /\ conn[c].phase = "granted"
    /\ conn' = [conn EXCEPT ![c] = [conn[c] EXCEPT !.phase = "open", !.writing = TRUE]]
    /\ UNCHANGED <<status, control, child, tty, watcher>>

\* WriteHandshakeResponse's completion after a success: serve the connection.
LocalHandshakeDone(c) ==
    /\ conn[c].phase = "granted"
    /\ \E wait \in Armed(Live, FALSE) :
          conn' = [conn EXCEPT ![c] = [conn[c] EXCEPT !.phase = "open", !.writing = TRUE,
                                                      !.wait = wait]]
    /\ UNCHANGED <<status, control, child, tty, watcher>>

\* The refusal of a handshake is written: close.
LocalRefused(c) ==
    /\ conn[c].phase = "refused"
    /\ ForceClose(c)
    /\ UNCHANGED <<status, child, tty, watcher>>

\* Frame 'C', EnsureControlForInput: the user takes control back by hand.
LocalClaim(c) ==
    /\ Attached(c)
    /\ ~(conn[c].has /\ HasControl(c))
    /\ IF Live
       THEN /\ control' = [kind |-> "Host", client |-> c]
            /\ \/ conn' = [conn EXCEPT ![c].has = TRUE]
               \/ "resize" \in tty.faults /\ conn' = [conn EXCEPT ![c].has = FALSE]
       ELSE /\ conn' = [conn EXCEPT ![c].has = FALSE]
            /\ UNCHANGED control
    /\ UNCHANGED <<status, child, tty, watcher>>

\* Frames 'I' and 'R': without control nothing is written or resized. A write to
\* the PTY can fail or fall short at any time, and a resize fails once it is closed.
LocalFrame(c) ==
    /\ Attached(c)
    /\ \/ /\ ~(conn[c].has /\ HasControl(c))
          /\ conn' = [conn EXCEPT ![c].has = FALSE]
          /\ UNCHANGED control
       \/ /\ conn[c].has /\ HasControl(c)
          /\ ForceClose(c)
    /\ UNCHANGED <<status, child, tty, watcher>>

\* The wait callback: poll, learn about control, take it back when nobody has
\* it, then queue raw output as the controller or the viewport as an observer.
LocalReadable(c) ==
    LET knows  == conn[c].has /\ HasControl(c)
        claims == ~knows /\ IsInteractiveStatus(PolledStatus) /\ control = HostControl
        has    == knows \/ claims
        lost   == conn[c].has /\ ~has
        ending == conn[c].closing \/ ~IsInteractiveStatus(PolledStatus)
    IN  /\ Attached(c) /\ conn[c].wait /\ Readable
        /\ PollSession
        /\ \E queued \in (IF lost THEN {TRUE} ELSE BOOLEAN),
              wait \in Armed(IsInteractiveStatus(PolledStatus), TRUE) :
              LET writing == conn[c].writing \/ queued
                  closes  == ~wait /\ ending /\ ~writing
              IN  /\ conn' = [conn EXCEPT ![c] =
                                 IF closes THEN ClosedConn
                                 ELSE [conn[c] EXCEPT !.has = has, !.closing = ending,
                                                      !.writing = writing, !.wait = wait]]
                  /\ control' = IF claims THEN [kind |-> "Host", client |-> c]
                                ELSE IF closes /\ has THEN ReleaseControl(c) ELSE control
        /\ UNCHANGED watcher
-------------------------------------------------------------------------------
\* RemoteControllerWebSocketSession::Start once the socket is accepted.
RemoteAccepted(c) ==
    /\ conn[c].phase = "idle"
    /\ IF Grants("Remote")
       THEN /\ control' = [kind |-> "Remote", client |-> c]
            /\ \E wait \in Armed(Live, FALSE) :
                  conn' = [conn EXCEPT ![c] = [NewConn EXCEPT !.phase = "open", !.has = TRUE,
                                                              !.writing = TRUE, !.wait = wait]]
       ELSE /\ conn' = [conn EXCEPT ![c] = [NewConn EXCEPT !.phase = "refused", !.writing = TRUE,
                                                           !.closing = TRUE]]
            /\ UNCHANGED control
    /\ UNCHANGED <<status, child, tty, watcher>>

\* HandleBinaryFrame: input. A failing write only marks the connection for closing.
RemoteInput(c) ==
    /\ Attached(c)
    /\ \/ /\ ~(conn[c].has /\ HasControl(c))
          /\ conn' = [conn EXCEPT ![c].writing = TRUE, ![c].closing = TRUE]
       \/ /\ conn[c].has /\ HasControl(c)
          /\ conn' = [conn EXCEPT ![c].closing = TRUE]
    /\ UNCHANGED <<status, control, child, tty, watcher>>

\* HandleTextFrame, terminal.resize: whoever has control.
RemoteResize(c) ==
    /\ Attached(c)
    /\ ~Live \/ "resize" \in tty.faults
    /\ ForceClose(c)
    /\ UNCHANGED <<status, child, tty, watcher>>

\* HandleTextFrame, session.stop, of a session that is still listed.
RemoteStop(c) ==
    /\ Attached(c)
    /\ status # "gone"
    /\ StopSession
    /\ UNCHANGED <<conn, watcher>>

\* HandleTextFrame, session.control.release. Nobody holding control counts as
\* released; somebody else holding it, like any other bad frame, closes.
RemoteRelease(c) ==
    /\ Attached(c)
    /\ \/ /\ status # "gone" /\ control.client \in {c, NoClient}
          /\ control' = ReleaseControl(c)
          /\ conn' = [conn EXCEPT ![c].has = FALSE, ![c].writing = TRUE, ![c].closing = TRUE]
       \/ ForceClose(c)
    /\ UNCHANGED <<status, child, tty, watcher>>

\* Mutant: the loss of control is noted, nobody is told and nothing closed.
NotifiedQuietly(c) == IF conn[c].has THEN [conn[c] EXCEPT !.has = HasControl(c)] ELSE conn[c]

\* SendPendingOutput of a remote controller, given the state after a poll.
Notified(c) ==
    LET r == conn[c] IN
    CASE ~Attached(c) -> r
      [] Attached(c) /\ status' = "gone" ->
            IF r.writing THEN [r EXCEPT !.closing = TRUE] ELSE ClosedConn
      [] Attached(c) /\ status' # "gone" /\ r.has /\ ~HasControl(c) ->
            [r EXCEPT !.has = FALSE, !.writing = TRUE, !.closing = TRUE]
      [] Attached(c) /\ IsTerminalStatus(status') /\ ~r.told /\ ~(r.has /\ ~HasControl(c)) ->
            [r EXCEPT !.told = TRUE, !.writing = TRUE, !.closing = TRUE]
      [] OTHER -> r

\* The wait callback of a remote controller: poll, flush, notify, rearm.
RemoteReadable(c) ==
    /\ Attached(c) /\ conn[c].wait /\ Readable
    /\ PollSession
    /\ \E queued \in BOOLEAN, wait \in Armed(IsInteractiveStatus(PolledStatus), TRUE) :
          LET r == [Notified(c) EXCEPT !.writing = @ \/ queued, !.wait = wait]
              closes == Notified(c).phase = "closed" \/ (~wait /\ r.closing /\ ~r.writing)
          IN  /\ conn' = [conn EXCEPT ![c] = IF closes THEN ClosedConn ELSE r]
              /\ control' = IF closes /\ conn[c].has THEN ReleaseControl(c) ELSE control
    /\ UNCHANGED <<watcher>>
-------------------------------------------------------------------------------
\* WebSocketSession: open, session.control.request, release, resize, input, stop.
ViewerOpen(c) ==
    /\ conn[c].phase = "idle"
    /\ status # "gone"
    /\ conn' = [conn EXCEPT ![c].phase = "open"]
    /\ UNCHANGED <<status, control, child, tty, watcher>>

ViewerRequest(c, k) ==
    /\ Attached(c)
    /\ Grants(k)
    /\ control' = [kind |-> k, client |-> c]
    /\ UNCHANGED <<status, child, tty, conn, watcher>>

ViewerRelease(c) ==
    /\ Attached(c)
    /\ HasControl(c)
    /\ control' = ReleaseControl(c)
    /\ UNCHANGED <<status, child, tty, conn, watcher>>

ViewerStop(c) ==
    /\ Attached(c)
    /\ HasControl(c)
    /\ StopSession
    /\ UNCHANGED <<conn, watcher>>

\* The end of the read loop, or ForceClose: control is released unasked.
ViewerCloses(c) ==
    /\ Attached(c)
    /\ conn' = [conn EXCEPT ![c] = ClosedConn]
    /\ control' = ReleaseControl(c)
    /\ UNCHANGED <<status, child, tty, watcher>>
-------------------------------------------------------------------------------
\* The end of a write, after which a connection marked for closing is closed; or
\* the end of the connection, whoever ends it.
WriteDone(c) ==
    /\ conn[c].writing
    /\ IF conn[c].closing THEN ForceClose(c)
       ELSE conn' = [conn EXCEPT ![c].writing = FALSE] /\ UNCHANGED control
    /\ UNCHANGED <<status, child, tty, watcher>>

Disconnect(c) ==
    /\ conn[c].phase \in {"granted", "refused", "open"}
    /\ ForceClose(c)
    /\ UNCHANGED <<status, child, tty, watcher>>

\* POST /stop, POST /sessions/clear-inactive.
RestStop ==
    /\ status # "gone"
    /\ StopSession
    /\ UNCHANGED <<conn, watcher>>

ClearInactiveSessions ==
    /\ IsTerminalStatus(status)
    /\ status' = "gone"
    /\ control' = HostControl
    /\ UNCHANGED <<child, tty, conn, watcher>>

\* NotifySessionClients and the loop of DoPoll: every registered connection. One
\* that is closed here has nothing to release, for the session is gone.
NotifyClients ==
    conn' = [c \in Clients |-> IF c \in Remotes THEN Notified(c) ELSE conn[c]]

\* SessionPump::DoPoll: PollAll passes over a session a privileged controller
\* drives; then the clients are notified and the watchers brought up to date.
DoPoll ==
    /\ IF HasPrivilegedController THEN UNCHANGED <<status, child, tty>> ELSE PollSession
    /\ NotifyClients
    /\ \E watched \in (IF "dup" \in tty.faults /\ ~watcher THEN BOOLEAN ELSE {TRUE}) :
          watcher' = /\ watched
                     /\ \E c \in Remotes \cup Viewers : conn'[c].phase = "open"
                     /\ ~HasPrivilegedController
                     /\ IsInteractiveStatus(status')
    /\ UNCHANGED control

\* The readable watcher of SessionPump.
WatcherReadable ==
    /\ watcher /\ Readable
    /\ PollSession
    /\ NotifyClients
    /\ watcher' = IsInteractiveStatus(status')
    /\ UNCHANGED control
-------------------------------------------------------------------------------
LocalNext(c) ==
    \/ LocalHandshake(c)
    \/ LocalHandshakeDone(c)
    \/ LocalRefused(c)
    \/ LocalClaim(c)
    \/ LocalFrame(c)
    \/ LocalReadable(c)
    \/ WriteDone(c)
    \/ Disconnect(c)

RemoteNext(c) ==
    \/ RemoteAccepted(c)
    \/ RemoteInput(c)
    \/ RemoteResize(c)
    \/ RemoteStop(c)
    \/ RemoteRelease(c)
    \/ RemoteReadable(c)
    \/ WriteDone(c)
    \/ Disconnect(c)

ViewerNext(c) ==
    \/ ViewerOpen(c)
    \/ \E k \in {"Host", "Remote"} : ViewerRequest(c, k)
    \/ ViewerRelease(c)
    \/ ViewerStop(c)
    \/ ViewerCloses(c)

SystemNext ==
    \/ ChildWrites
    \/ ChildExits
    \/ TtyReleased
    \/ RestStop
    \/ ClearInactiveSessions
    \/ DoPoll
    \/ WatcherReadable

Next ==
    \/ \E c \in Locals : LocalNext(c)
    \/ \E c \in Remotes : RemoteNext(c)
    \/ \E c \in Viewers : ViewerNext(c)
    \/ SystemNext

Spec == Init /\ [][Next]_vars

\* The io thread runs every handler that stays ready, the timer of DoPoll rearms
\* itself, and a peer takes or breaks a write sooner or later.
FairSpec ==
    /\ Spec
    /\ WF_vars(DoPoll)
    /\ WF_vars(WatcherReadable)
    /\ \A c \in Locals : /\ WF_vars(LocalHandshakeDone(c))
                         /\ WF_vars(LocalRefused(c))
                         /\ WF_vars(LocalReadable(c))
                         /\ WF_vars(WriteDone(c))
    /\ \A c \in Remotes : WF_vars(RemoteReadable(c)) /\ WF_vars(WriteDone(c))
-------------------------------------------------------------------------------
\* Type invariant: the session, its terminal and every connection.
TypeOK ==
    /\ status \in Statuses \cup {"gone"}
    /\ control \in [kind : {"Host", "Remote"}, client : Clients \cup {NoClient}]
    /\ child \in {"running", "exited", "failed", "reaped"}
    /\ tty \in [held : BOOLEAN, output : BOOLEAN, faults : SUBSET Faults]
    /\ conn \in [Clients -> Conns]
    /\ watcher \in BOOLEAN

\* A privileged client that has control is a connection that knows it has, so
\* its end gives the control back. Otherwise PollAll and the watchers would pass
\* over the session for a client that is not there.
NoControlLeak ==
    "resize" \notin tty.faults =>
        \A c \in Privileged : HasControl(c) => conn[c].has

\* The session of a privileged controller is polled by that controller: its wait
\* is armed from the moment it is served until the session has ended.
DriverPolls ==
    "dup" \notin tty.faults =>
        \A c \in Privileged : Attached(c) /\ Live => conn[c].wait

\* The end of the program is noticed once the terminal is hung up, whoever comes,
\* drives and goes meanwhile, unless control is in the hands of a client that has
\* no wait on the PTY: by NoControlLeak and DriverPolls that takes a failing resize
\* or a failing dup.
ExitNoticed ==
    (child # "running" /\ ~tty.held)
        ~> (~Live \/ \E c \in Privileged : /\ HasControl(c) /\ ~conn[c].wait
                                            /\ conn[c].phase \in {"open", "closed"})

\* A remote controller does not outlive its session or its control: it is told, and
\* closed when it has been. A `sentrits attach` that has its wait ends with the session.
ConnectionsClosed ==
    /\ \A c \in Remotes : (Attached(c) /\ ~(Live /\ HasControl(c))) ~> ~Attached(c)
    /\ \A c \in Locals : (Attached(c) /\ conn[c].wait /\ ~Live /\ ~tty.held) ~> ~Attached(c)

Contract == INSTANCE SessionContract WITH
    Sessions <- {"s"},
    phase  <- [s \in {"s"} |-> IF Live THEN "live" ELSE status],
    holder <- [s \in {"s"} |-> control.client],
    lane   <- [s \in {"s"} |-> control.kind]

\* Whatever the connections do, the session lives and ends once and control goes
\* from hand to hand as the contract says.
KeepsContract == [][Contract!ContractNext]_(Contract!contractVars)
===============================================================================
