------------------------- MODULE ControllerAttachProofs -------------------------
(***************************************************************************)
(* Who drives a session, for any number of connections: control does not   *)
(* leak, the driver polls, and the contract of a session is kept. Then the *)
(* other end of an attachment, the client of `sentrits attach`.            *)
(***************************************************************************)
EXTENDS ControllerAttach, AttachClient, SequenceTheorems, TLAPS

\* What NoControlLeak and DriverPolls need besides themselves: a session that is
\* gone has no controller (so a connection closed for that reason has nothing to
\* give back), and a connection not yet served has nothing.
Reached == {"Running", "AwaitingInput", "Exited", "Error", "gone"}

StatusOK == status \in Reached /\ (status = "gone" => control = HostControl)

ConnOK(c) ==
    /\ conn[c].phase = "idle" => ~conn[c].has
    /\ "resize" \notin tty.faults /\ c \in Privileged => (HasControl(c) => conn[c].has)
    /\ "dup" \notin tty.faults /\ c \in Privileged => (Attached(c) /\ Live => conn[c].wait)

Inv == TypeOK /\ StatusOK /\ \A c \in Clients : ConnOK(c)

\* One step of the session, whatever the action: it ends at most, and is cleared
\* only when it has; control is kept, given up, or claimed of a live session.
SessionMove ==
    /\ status' \in Reached
    /\ child' \in {"running", "exited", "failed", "reaped"}
    /\ tty' \in [held : BOOLEAN, output : BOOLEAN, faults : SUBSET Faults]
    /\ tty'.faults = tty.faults
    /\ watcher' \in BOOLEAN
    /\ \/ status' = status
       \/ Live /\ IsTerminalStatus(status')
       \/ IsTerminalStatus(status) /\ status' = "gone" /\ control' = HostControl

ControlMove ==
    \/ control' = control
    \/ control' = HostControl
    \/ /\ Live /\ IsInteractiveStatus(status')
       /\ control' \in [kind : {"Host", "Remote"}, client : Clients]
       /\ control.kind = "Remote" => control'.kind = "Host"

\* The step of a handler of connection c: no other connection changes.
ActorMove(c) ==
    /\ conn' \in [Clients -> Conns]
    /\ \A r \in Clients \ {c} : conn'[r] = conn[r]
    /\ control'.client \in {control.client, NoClient, c}
    /\ ConnOK(c)'

LEMMA LiveFacts ==
    ASSUME StatusOK, SessionMove
    PROVE  Live' => Live
BY DEF StatusOK, SessionMove, Live, IsInteractiveStatus, IsTerminalStatus

LEMMA StepKeeps ==
    ASSUME Inv, SessionMove, ControlMove, conn' \in [Clients -> Conns],
           \A c \in Clients : ConnOK(c)'
    PROVE  Inv'
<1>1. TypeOK'
  BY AttachAssumption DEF Inv, TypeOK, SessionMove, ControlMove, HostControl, Reached, Statuses
<1>2. StatusOK'
  BY DEF Inv, StatusOK, SessionMove, ControlMove, Live, IsInteractiveStatus, IsTerminalStatus
<1> QED
  BY <1>1, <1>2 DEF Inv

\* A connection that is left alone stays as safe as it was.
LEMMA OthersKept ==
    ASSUME Inv, SessionMove, NEW r \in Clients, conn'[r] = conn[r],
           control'.client = r => control.client = r
    PROVE  ConnOK(r)'
<1>1. Live' => Live
  BY LiveFacts DEF Inv
<1> QED
  BY <1>1 DEF Inv, ConnOK, SessionMove, HasControl, Attached

LEMMA ActorKeeps ==
    ASSUME Inv, SessionMove, ControlMove, NEW c \in Clients, ActorMove(c)
    PROVE  Inv'
<1>1. ASSUME NEW r \in Clients \ {c} PROVE ConnOK(r)'
  BY AttachAssumption, OthersKept DEF ActorMove
<1>2. \A r \in Clients : ConnOK(r)'
  BY <1>1 DEF ActorMove
<1> QED
  BY <1>2, StepKeeps DEF ActorMove

\* A handler that only touches the connection and the controller.
LEMMA QuietMove ==
    ASSUME Inv, UNCHANGED <<status, child, tty, watcher>>
    PROVE  SessionMove
BY DEF Inv, TypeOK, StatusOK, SessionMove

LEMMA PollMove ==
    ASSUME Inv, PollSession, watcher' \in BOOLEAN
    PROVE  /\ SessionMove /\ status' = PolledStatus
           /\ status' = "gone" => status = "gone"
           /\ IsInteractiveStatus(status') => Live /\ status' = status
<1>1. PolledStatus = status \/ (Live /\ PolledStatus \in {"Exited", "Error"})
  BY DEF PolledStatus, TryTransition, Live, IsInteractiveStatus, IsValidTransition
<1>2. status' = PolledStatus
  BY DEF PollSession
<1>3. child' \in {"running", "exited", "failed", "reaped"}
  BY DEF PollSession, Inv, TypeOK
<1>4. tty' \in [held : BOOLEAN, output : BOOLEAN, faults : SUBSET Faults] /\ tty'.faults = tty.faults
  BY DEF PollSession, Inv, TypeOK
<1> QED
  BY <1>1, <1>2, <1>3, <1>4
     DEF Inv, StatusOK, SessionMove, Reached, IsTerminalStatus, Live, IsInteractiveStatus

LEMMA StopMove ==
    ASSUME Inv, StopSession, UNCHANGED <<conn, watcher>>
    PROVE  Inv' /\ SessionMove /\ ControlMove
<1>1. Live => TryTransition(status, "Exited") = "Exited"
  BY DEF TryTransition, Live, IsInteractiveStatus, IsValidTransition
<1>2. tty' \in [held : BOOLEAN, output : BOOLEAN, faults : SUBSET Faults] /\ tty'.faults = tty.faults
  BY DEF StopSession, Inv, TypeOK
<1>3. SessionMove
  BY <1>1, <1>2 DEF StopSession, Inv, TypeOK, StatusOK, SessionMove, Reached, IsTerminalStatus
<1>4. ControlMove
  BY DEF StopSession, ControlMove
<1>5. ASSUME NEW r \in Clients PROVE ConnOK(r)'
  BY <1>3, OthersKept, AttachAssumption DEF StopSession, HostControl
<1> QED
  BY <1>3, <1>4, <1>5, StepKeeps DEF Inv, TypeOK

LEMMA ConnTypes == NewConn \in Conns /\ ClosedConn \in Conns /\ ClosedConn.phase = "closed"
BY DEF NewConn, ClosedConn, Conns, ConnPhases

\* A connection that ends gives back the control it has.
LEMMA CloseMove ==
    ASSUME Inv, NEW c \in Clients, ForceClose(c), SessionMove
    PROVE  Inv' /\ ControlMove
<1>1. ControlMove
  BY DEF ForceClose, ReleaseControl, ControlMove
<1>2. conn' \in [Clients -> Conns] /\ conn'[c] = ClosedConn /\ \A r \in Clients \ {c} : conn'[r] = conn[r]
  BY ConnTypes DEF ForceClose, Inv, TypeOK
<1>3. control'.client \in {control.client, NoClient}
  BY DEF ForceClose, ReleaseControl, HostControl
<1>4. "resize" \notin tty.faults /\ c \in Privileged => control'.client # c
  <2> SUFFICES ASSUME "resize" \notin tty.faults, c \in Privileged PROVE control'.client # c
    OBVIOUS
  <2>1. control.client = c => conn[c].has
    BY DEF Inv, ConnOK, HasControl
  <2> QED
    BY <2>1, AttachAssumption DEF ForceClose, ReleaseControl, HasControl, HostControl
<1>5. ConnOK(c)'
  BY <1>2, <1>4, ConnTypes DEF ConnOK, HasControl, Attached, SessionMove
<1> QED
  BY <1>1, <1>2, <1>3, <1>5, ActorKeeps DEF ActorMove
-------------------------------------------------------------------------------
(* The local controller *)

LEMMA LocalHandshakeMove ==
    ASSUME Inv, NEW c \in Locals, LocalHandshake(c)
    PROVE  Inv' /\ SessionMove /\ ControlMove
<1>0. c \in Clients /\ c \in Privileged
  BY DEF Clients, Privileged
<1>1. SessionMove
  BY QuietMove DEF LocalHandshake
<1>2. ControlMove
  BY <1>0 DEF LocalHandshake, ControlMove, Live
<1>3. PICK x \in Conns :
         /\ conn' = [conn EXCEPT ![c] = x]
         /\ \/ Live /\ control'.client = c /\ x.has /\ x.phase \in {"granted", "refused"}
            \/ control' = control /\ ~x.has /\ x.phase = "refused"
  <2> DEFINE granted == [NewConn EXCEPT !.phase = "granted", !.has = TRUE]
             failed  == [NewConn EXCEPT !.phase = "refused", !.has = TRUE]
             refused == [NewConn EXCEPT !.phase = "refused"]
  <2>1. granted \in Conns /\ granted.has /\ granted.phase = "granted"
    BY DEF NewConn, Conns, ConnPhases
  <2>2. failed \in Conns /\ failed.has /\ failed.phase = "refused"
    BY DEF NewConn, Conns, ConnPhases
  <2>3. refused \in Conns /\ ~refused.has /\ refused.phase = "refused"
    BY DEF NewConn, Conns, ConnPhases
  <2>4. \/ Live /\ control'.client = c /\ conn' = [conn EXCEPT ![c] = granted]
        \/ Live /\ control'.client = c /\ conn' = [conn EXCEPT ![c] = failed]
        \/ control' = control /\ conn' = [conn EXCEPT ![c] = refused]
    BY DEF LocalHandshake
  <2> HIDE DEF granted, failed, refused
  <2> QED
    BY <2>1, <2>2, <2>3, <2>4
<1>4. /\ conn' \in [Clients -> Conns] /\ conn'[c] = x /\ \A r \in Clients \ {c} : conn'[r] = conn[r]
      /\ ~conn[c].has
  BY <1>0, <1>3 DEF LocalHandshake, Inv, TypeOK, ConnOK
<1>5. ConnOK(c)'
  BY <1>0, <1>1, <1>3, <1>4 DEF ConnOK, Inv, HasControl, Attached, SessionMove
<1> QED
  BY <1>0, <1>1, <1>2, <1>3, <1>4, <1>5, ActorKeeps DEF ActorMove

LEMMA LocalHandshakeDoneMove ==
    ASSUME Inv, NEW c \in Locals, LocalHandshakeDone(c)
    PROVE  Inv' /\ SessionMove /\ ControlMove
<1>0. c \in Clients /\ c \in Privileged
  BY DEF Clients, Privileged
<1>1. SessionMove
  BY QuietMove DEF LocalHandshakeDone
<1>2. ControlMove /\ control' = control
  BY DEF LocalHandshakeDone, ControlMove
<1>3. PICK wait \in Armed(Live, FALSE) :
         conn' = [conn EXCEPT ![c] = [conn[c] EXCEPT !.phase = "open", !.writing = TRUE, !.wait = wait]]
  BY DEF LocalHandshakeDone
<1>4. wait \in BOOLEAN /\ ("dup" \notin tty.faults /\ Live => wait)
  BY <1>3 DEF Armed
<1>5. conn[c] \in Conns /\ conn[c].phase = "granted" /\ status' = status
  BY <1>0 DEF LocalHandshakeDone, Inv, TypeOK
<1>6. conn' \in [Clients -> Conns] /\ \A r \in Clients \ {c} : conn'[r] = conn[r]
  BY <1>0, <1>3, <1>4, <1>5 DEF Inv, TypeOK, Conns, ConnPhases
<1>7. conn'[c].has = conn[c].has /\ conn'[c].phase = "open" /\ conn'[c].wait = wait
  BY <1>0, <1>3, <1>5 DEF Conns, Inv, TypeOK
<1>8. ConnOK(c)'
  BY <1>0, <1>1, <1>2, <1>4, <1>5, <1>7 DEF ConnOK, Inv, HasControl, Attached, Live, SessionMove
<1> QED
  BY <1>0, <1>1, <1>2, <1>6, <1>8, ActorKeeps DEF ActorMove

LEMMA LocalClaimMove ==
    ASSUME Inv, NEW c \in Locals, LocalClaim(c)
    PROVE  Inv' /\ SessionMove /\ ControlMove
<1>0. c \in Clients /\ c \in Privileged /\ conn[c] \in Conns
  BY DEF Clients, Privileged, Inv, TypeOK
<1>1. SessionMove /\ status' = status /\ tty' = tty
  BY QuietMove DEF LocalClaim
<1>2. ControlMove
  BY <1>0 DEF LocalClaim, ControlMove, Live
<1>3. /\ conn' \in [Clients -> Conns] /\ \A r \in Clients \ {c} : conn'[r] = conn[r]
      /\ conn'[c].phase = conn[c].phase /\ conn'[c].wait = conn[c].wait
      /\ conn[c].phase = "open"
  <2>1. PICK h \in BOOLEAN : conn' = [conn EXCEPT ![c].has = h]
    BY DEF LocalClaim
  <2> QED
    BY <1>0, <2>1 DEF LocalClaim, Inv, TypeOK, Conns, Attached
<1>4. \/ control'.client = c /\ (conn'[c].has \/ "resize" \in tty.faults)
      \/ control' = control /\ ~(conn[c].has /\ HasControl(c))
  BY <1>0 DEF LocalClaim, Inv, TypeOK, Conns
<1>5. ConnOK(c)'
  BY <1>0, <1>1, <1>3, <1>4 DEF ConnOK, Inv, HasControl, Attached, Live
<1> QED
  BY <1>0, <1>1, <1>2, <1>3, <1>4, <1>5, ActorKeeps DEF ActorMove

LEMMA LocalFrameMove ==
    ASSUME Inv, NEW c \in Locals, LocalFrame(c)
    PROVE  Inv' /\ SessionMove /\ ControlMove
<1>0. c \in Clients /\ c \in Privileged /\ conn[c] \in Conns
  BY DEF Clients, Privileged, Inv, TypeOK
<1>1. SessionMove /\ status' = status /\ tty' = tty
  BY QuietMove DEF LocalFrame
<1>2. CASE ForceClose(c)
  BY <1>0, <1>1, <1>2, CloseMove
<1>3. CASE /\ ~(conn[c].has /\ HasControl(c))
           /\ conn' = [conn EXCEPT ![c].has = FALSE]
           /\ UNCHANGED control
  <2>1. /\ conn' \in [Clients -> Conns] /\ \A r \in Clients \ {c} : conn'[r] = conn[r]
        /\ conn'[c].phase = conn[c].phase /\ conn'[c].wait = conn[c].wait
        /\ conn[c].phase = "open"
    BY <1>0, <1>3 DEF LocalFrame, Inv, TypeOK, Conns, Attached
  <2>2. ConnOK(c)'
    BY <1>0, <1>1, <1>3, <2>1 DEF ConnOK, Inv, HasControl, Attached, Live
  <2>3. ControlMove
    BY <1>3 DEF ControlMove
  <2> QED
    BY <1>0, <1>1, <1>3, <2>1, <2>2, <2>3, ActorKeeps DEF ActorMove
<1> QED
  BY <1>2, <1>3 DEF LocalFrame

\* The wait callback. It claims only while the session lives, and then its wait is
\* armed again, so it never closes with the control it has just taken.
LEMMA LocalReadableMove ==
    ASSUME Inv, NEW c \in Locals, LocalReadable(c)
    PROVE  Inv' /\ SessionMove /\ ControlMove
<1>0. c \in Clients /\ c \in Privileged /\ conn[c] \in Conns
  BY DEF Clients, Privileged, Inv, TypeOK
<1> DEFINE knows  == conn[c].has /\ HasControl(c)
           claims == ~knows /\ IsInteractiveStatus(PolledStatus) /\ control = HostControl
           has    == knows \/ claims
           ending == conn[c].closing \/ ~IsInteractiveStatus(PolledStatus)
<1>1. /\ SessionMove /\ status' = PolledStatus
      /\ IsInteractiveStatus(PolledStatus) => Live /\ status' = status
  BY PollMove DEF LocalReadable, Inv, TypeOK
<1>2. PICK queued \in BOOLEAN, wait \in Armed(IsInteractiveStatus(PolledStatus), TRUE) :
         LET writing == conn[c].writing \/ queued
             closes  == ~wait /\ ending /\ ~writing
         IN  /\ conn' = [conn EXCEPT ![c] =
                            IF closes THEN ClosedConn
                            ELSE [conn[c] EXCEPT !.has = has, !.closing = ending,
                                                 !.writing = writing, !.wait = wait]]
             /\ control' = IF claims THEN [kind |-> "Host", client |-> c]
                           ELSE IF closes /\ has THEN ReleaseControl(c) ELSE control
  <2>1. \A x : x \in (IF conn[c].has /\ ~has THEN {TRUE} ELSE BOOLEAN) => x \in BOOLEAN
    OBVIOUS
  <2> QED
    BY <2>1 DEF LocalReadable
<1> DEFINE writing == conn[c].writing \/ queued
           closes  == ~wait /\ ending /\ ~writing
<1>3. wait \in BOOLEAN /\ (IsInteractiveStatus(PolledStatus) => wait)
  BY <1>2 DEF Armed
<1>4. /\ conn' \in [Clients -> Conns] /\ \A r \in Clients \ {c} : conn'[r] = conn[r]
      /\ conn'[c] = IF closes THEN ClosedConn
                    ELSE [conn[c] EXCEPT !.has = has, !.closing = ending,
                                         !.writing = writing, !.wait = wait]
  <2>1. (IF closes THEN ClosedConn
         ELSE [conn[c] EXCEPT !.has = has, !.closing = ending, !.writing = writing, !.wait = wait])
        \in Conns
    <3>1. has \in BOOLEAN /\ ending \in BOOLEAN /\ writing \in BOOLEAN
      OBVIOUS
    <3> HIDE DEF has, ending, writing, closes
    <3> QED
      BY <1>0, <1>3, <3>1, ConnTypes, ZenonT(60) DEF Conns
  <2> HIDE DEF closes, has, ending, writing
  <2>2. conn' = [conn EXCEPT ![c] = IF closes THEN ClosedConn
                    ELSE [conn[c] EXCEPT !.has = has, !.closing = ending,
                                         !.writing = writing, !.wait = wait]]
    BY <1>2 DEF closes, writing
  <2> QED
    BY <1>0, <2>1, <2>2 DEF Inv, TypeOK
<1>5. control' = IF claims THEN [kind |-> "Host", client |-> c]
                 ELSE IF closes /\ has THEN ReleaseControl(c) ELSE control
  BY <1>2
<1>6. claims => ~closes /\ Live /\ IsInteractiveStatus(status')
  BY <1>1, <1>3
<1>7. ControlMove /\ control'.client \in {control.client, NoClient, c}
  BY <1>0, <1>5, <1>6 DEF ControlMove, ReleaseControl, HostControl
<1>9. "resize" \notin tty.faults /\ HasControl(c) => knows
  BY <1>0 DEF Inv, ConnOK
<1>11. closes /\ "resize" \notin tty.faults => control'.client # c
  BY <1>5, <1>6, <1>9, AttachAssumption DEF ReleaseControl, HasControl, HostControl, Clients
<1>12. ConnOK(c)'
  <2>1. conn[c].phase = "open" /\ tty'.faults = tty.faults
    BY <1>1 DEF LocalReadable, Attached, SessionMove
  <2>2. CASE closes
    BY <1>4, <1>11, <2>1, <2>2, ConnTypes DEF ConnOK, HasControl, Attached
  <2>3. CASE ~closes
    <3>1. conn'[c].has = has /\ conn'[c].wait = wait /\ conn'[c].phase = conn[c].phase
      BY <1>0, <1>4, <2>3 DEF Conns
    <3>2. "resize" \notin tty.faults /\ control'.client = c => has
      BY <1>5, <1>9, <2>3 DEF HasControl
    <3> QED
      BY <1>1, <1>3, <2>1, <3>1, <3>2 DEF ConnOK, HasControl, Attached, Live
  <2> QED
    BY <2>2, <2>3
<1> QED
  BY <1>0, <1>1, <1>4, <1>7, <1>12, ActorKeeps DEF ActorMove
-------------------------------------------------------------------------------
(* The remote controller *)

LEMMA RemoteAcceptedMove ==
    ASSUME Inv, NEW c \in Remotes, RemoteAccepted(c)
    PROVE  Inv' /\ SessionMove /\ ControlMove
<1>0. c \in Clients /\ c \in Privileged
  BY DEF Clients, Privileged
<1>1. SessionMove /\ status' = status /\ tty' = tty
  BY QuietMove DEF RemoteAccepted
<1>g. Grants("Remote") => Live /\ control.kind = "Host"
  BY DEF Grants
<1>2. ControlMove
  <2>1. CASE Grants("Remote")
    <3>1. control' = [kind |-> "Remote", client |-> c]
      BY <2>1 DEF RemoteAccepted
    <3> QED
      BY <1>0, <1>1, <1>g, <2>1, <3>1 DEF ControlMove, Live
  <2>2. CASE ~Grants("Remote")
    BY <2>2 DEF RemoteAccepted, ControlMove
  <2> QED
    BY <2>1, <2>2
<1>3. PICK x \in Conns :
         /\ conn' = [conn EXCEPT ![c] = x]
         /\ \/ /\ control'.client = c /\ x.has /\ x.phase = "open"
               /\ "dup" \notin tty.faults => x.wait
            \/ control' = control /\ ~x.has /\ x.phase = "refused"
  <2> DEFINE open(wait) == [NewConn EXCEPT !.phase = "open", !.has = TRUE,
                                           !.writing = TRUE, !.wait = wait]
             refused == [NewConn EXCEPT !.phase = "refused", !.writing = TRUE, !.closing = TRUE]
  <2>1. \A wait \in BOOLEAN : /\ open(wait) \in Conns /\ open(wait).has
                              /\ open(wait).phase = "open" /\ open(wait).wait = wait
    BY DEF NewConn, Conns, ConnPhases
  <2>2. refused \in Conns /\ ~refused.has /\ refused.phase = "refused"
    BY DEF NewConn, Conns, ConnPhases
  <2>3. \/ /\ Live /\ control'.client = c
           /\ \E wait \in Armed(Live, FALSE) : conn' = [conn EXCEPT ![c] = open(wait)]
        \/ control' = control /\ conn' = [conn EXCEPT ![c] = refused]
    <3>1. CASE Grants("Remote")
      <4>1. control' = [kind |-> "Remote", client |-> c]
        BY <3>1 DEF RemoteAccepted
      <4>2. \E wait \in Armed(Live, FALSE) : conn' = [conn EXCEPT ![c] = open(wait)]
        BY <3>1 DEF RemoteAccepted
      <4> QED
        BY <1>g, <3>1, <4>1, <4>2
    <3>2. CASE ~Grants("Remote")
      BY <3>2 DEF RemoteAccepted
    <3> QED
      BY <3>1, <3>2
  <2>4. Live => \A wait \in Armed(Live, FALSE) : wait \in BOOLEAN /\ ("dup" \notin tty.faults => wait)
    BY DEF Armed
  <2> HIDE DEF open, refused
  <2> QED
    BY <2>1, <2>2, <2>3, <2>4
<1>4. /\ conn' \in [Clients -> Conns] /\ conn'[c] = x /\ \A r \in Clients \ {c} : conn'[r] = conn[r]
      /\ ~conn[c].has
  BY <1>0, <1>3 DEF RemoteAccepted, Inv, TypeOK, ConnOK
<1>5. ConnOK(c)'
  BY <1>0, <1>1, <1>3, <1>4 DEF ConnOK, Inv, HasControl, Attached
<1> QED
  BY <1>0, <1>1, <1>2, <1>3, <1>4, <1>5, ActorKeeps DEF ActorMove

\* A connection whose flags writing and closing change, and nothing else.
LEMMA FlagsMove ==
    ASSUME Inv, NEW c \in Clients, UNCHANGED <<status, control, child, tty, watcher>>,
           NEW x \in Conns, conn' = [conn EXCEPT ![c] = x],
           x.phase = conn[c].phase, x.has = conn[c].has, x.wait = conn[c].wait
    PROVE  Inv' /\ SessionMove /\ ControlMove
<1>1. SessionMove
  BY QuietMove
<1>2. ControlMove
  BY DEF ControlMove
<1>3. conn' \in [Clients -> Conns] /\ conn'[c] = x /\ \A r \in Clients \ {c} : conn'[r] = conn[r]
  BY DEF Inv, TypeOK
<1>4. ConnOK(c)'
  BY <1>3 DEF ConnOK, Inv, HasControl, Attached, Live
<1> QED
  BY <1>1, <1>2, <1>3, <1>4, ActorKeeps DEF ActorMove

LEMMA RemoteInputMove ==
    ASSUME Inv, NEW c \in Remotes, RemoteInput(c)
    PROVE  Inv' /\ SessionMove /\ ControlMove
<1>0. c \in Clients /\ conn[c] \in Conns /\ UNCHANGED <<status, control, child, tty, watcher>>
  BY DEF Clients, Inv, TypeOK, RemoteInput
<1>1. PICK x : conn' = [conn EXCEPT ![c] = x] /\ x \in {[conn[c] EXCEPT !.writing = TRUE, !.closing = TRUE],
                                                       [conn[c] EXCEPT !.closing = TRUE]}
  <2>1. \/ conn' = [conn EXCEPT ![c].writing = TRUE, ![c].closing = TRUE]
        \/ conn' = [conn EXCEPT ![c].closing = TRUE]
    BY DEF RemoteInput
  <2>2. [conn EXCEPT ![c].writing = TRUE, ![c].closing = TRUE]
         = [conn EXCEPT ![c] = [conn[c] EXCEPT !.writing = TRUE, !.closing = TRUE]]
    BY <1>0 DEF Inv, TypeOK
  <2> QED
    BY <2>1, <2>2
<1>2. x \in Conns /\ x.phase = conn[c].phase /\ x.has = conn[c].has /\ x.wait = conn[c].wait
  BY <1>0, <1>1 DEF Conns
<1> QED
  BY <1>0, <1>1, <1>2, FlagsMove

LEMMA RemoteResizeMove ==
    ASSUME Inv, NEW c \in Remotes, RemoteResize(c)
    PROVE  Inv' /\ SessionMove /\ ControlMove
<1>1. SessionMove
  BY QuietMove DEF RemoteResize
<1> QED
  BY <1>1, CloseMove DEF RemoteResize, Clients

LEMMA RemoteReleaseMove ==
    ASSUME Inv, NEW c \in Remotes, RemoteRelease(c)
    PROVE  Inv' /\ SessionMove /\ ControlMove
<1>0. c \in Clients /\ conn[c] \in Conns
  BY DEF Clients, Inv, TypeOK
<1>1. SessionMove /\ status' = status /\ tty' = tty
  BY QuietMove DEF RemoteRelease
<1>2. CASE ForceClose(c)
  BY <1>0, <1>1, <1>2, CloseMove
<1>3. CASE /\ status # "gone" /\ control.client \in {c, NoClient}
           /\ control' = ReleaseControl(c)
           /\ conn' = [conn EXCEPT ![c].has = FALSE, ![c].writing = TRUE, ![c].closing = TRUE]
  <2>1. control'.client = NoClient /\ ControlMove
    BY <1>3 DEF ReleaseControl, HasControl, HostControl, ControlMove
  <2> DEFINE x == [conn[c] EXCEPT !.has = FALSE, !.writing = TRUE, !.closing = TRUE]
  <2>2. x \in Conns /\ x.phase = conn[c].phase /\ x.wait = conn[c].wait
    BY <1>0 DEF Conns
  <2>3. conn' = [conn EXCEPT ![c] = x]
    BY <1>0, <1>3 DEF Inv, TypeOK
  <2> HIDE DEF x
  <2>4. conn' \in [Clients -> Conns] /\ conn'[c] = x /\ \A r \in Clients \ {c} : conn'[r] = conn[r]
    BY <1>0, <2>2, <2>3 DEF Inv, TypeOK
  <2>5. conn[c].phase = "open"
    BY DEF RemoteRelease, Attached
  <2>6. ConnOK(c)'
    BY <1>0, <1>1, <2>1, <2>2, <2>4, <2>5, AttachAssumption DEF ConnOK, Inv, HasControl, Attached, Live
  <2> QED
    BY <1>0, <1>1, <2>1, <2>4, <2>6, ActorKeeps DEF ActorMove
<1> QED
  BY <1>2, <1>3 DEF RemoteRelease

\* A notified connection is closed because the session is gone, or stays, and
\* forgets its control only when it has lost it.
LEMMA NotifiedIs ==
    ASSUME Inv, NEW c \in Clients
    PROVE  /\ Notified(c) \in Conns
           /\ \/ Notified(c) = ClosedConn /\ status' = "gone"
              \/ /\ Notified(c).phase = conn[c].phase /\ Notified(c).wait = conn[c].wait
                 /\ \/ Notified(c).has = conn[c].has
                    \/ ~Notified(c).has /\ ~HasControl(c) /\ conn[c].phase = "open"
<1>0. conn[c] \in Conns
  BY DEF Inv, TypeOK
<1>1. \/ Notified(c) = conn[c]
      \/ Notified(c) = ClosedConn /\ status' = "gone"
      \/ Notified(c) = [conn[c] EXCEPT !.closing = TRUE]
      \/ /\ Notified(c) = [conn[c] EXCEPT !.has = FALSE, !.writing = TRUE, !.closing = TRUE]
         /\ ~HasControl(c) /\ conn[c].phase = "open"
      \/ Notified(c) = [conn[c] EXCEPT !.told = TRUE, !.writing = TRUE, !.closing = TRUE]
  BY DEF Notified, Attached
<1> QED
  BY <1>0, <1>1, ConnTypes DEF Conns

LEMMA NotifyMove ==
    ASSUME Inv, SessionMove, UNCHANGED control, NotifyClients,
           status' = "gone" => status = "gone"
    PROVE  Inv' /\ ControlMove
<1>1. ControlMove
  BY DEF ControlMove
<1>2. conn' \in [Clients -> Conns]
  BY NotifiedIs DEF NotifyClients, Inv, TypeOK
<1>3. ASSUME NEW c \in Clients PROVE ConnOK(c)'
  <2>1. CASE conn'[c] = conn[c]
    BY <2>1, OthersKept
  <2>2. CASE conn'[c] = Notified(c)
    <3>1. CASE Notified(c) = ClosedConn /\ status' = "gone"
      <4>1. control'.client # c
        BY <3>1, AttachAssumption DEF Inv, StatusOK, HostControl
      <4> QED
        BY <2>2, <3>1, <4>1, ConnTypes DEF ConnOK, HasControl, Attached
    <3>2. CASE /\ Notified(c).phase = conn[c].phase /\ Notified(c).wait = conn[c].wait
               /\ \/ Notified(c).has = conn[c].has
                  \/ ~Notified(c).has /\ ~HasControl(c) /\ conn[c].phase = "open"
      <4>1. Live' => Live
        BY LiveFacts DEF Inv
      <4> QED
        BY <2>2, <3>2, <4>1 DEF ConnOK, Inv, HasControl, Attached, SessionMove
    <3> QED
      BY <3>1, <3>2, NotifiedIs
  <2> QED
    BY <2>1, <2>2 DEF NotifyClients
<1> QED
  BY <1>1, <1>2, <1>3, StepKeeps

LEMMA RemoteReadableMove ==
    ASSUME Inv, NEW c \in Remotes, RemoteReadable(c)
    PROVE  Inv' /\ SessionMove /\ ControlMove
<1>0. c \in Clients /\ c \in Privileged /\ conn[c] \in Conns /\ conn[c].phase = "open"
  BY DEF Clients, Privileged, Inv, TypeOK, RemoteReadable, Attached
<1>1. /\ SessionMove /\ status' = PolledStatus
      /\ IsInteractiveStatus(PolledStatus) => Live /\ status' = status
  BY PollMove DEF RemoteReadable, Inv, TypeOK
<1>2. PICK queued \in BOOLEAN, wait \in Armed(IsInteractiveStatus(PolledStatus), TRUE) :
         LET r == [Notified(c) EXCEPT !.writing = @ \/ queued, !.wait = wait]
             closes == Notified(c).phase = "closed" \/ (~wait /\ r.closing /\ ~r.writing)
         IN  /\ conn' = [conn EXCEPT ![c] = IF closes THEN ClosedConn ELSE r]
             /\ control' = IF closes /\ conn[c].has THEN ReleaseControl(c) ELSE control
  BY DEF RemoteReadable
<1> DEFINE r == [Notified(c) EXCEPT !.writing = @ \/ queued, !.wait = wait]
           closes == Notified(c).phase = "closed" \/ (~wait /\ r.closing /\ ~r.writing)
<1>3. wait \in BOOLEAN /\ (IsInteractiveStatus(PolledStatus) => wait)
  BY <1>2 DEF Armed
<1>4. r \in Conns /\ r.phase = Notified(c).phase /\ r.has = Notified(c).has /\ r.wait = wait
  BY <1>0, <1>2, <1>3, NotifiedIs DEF Conns
<1>5. /\ conn' = [conn EXCEPT ![c] = IF closes THEN ClosedConn ELSE r]
      /\ control' = IF closes /\ conn[c].has THEN ReleaseControl(c) ELSE control
  BY <1>2
<1>c. Notified(c).phase = "closed" => closes
  OBVIOUS
<1> HIDE DEF r, closes
<1>6. /\ conn' \in [Clients -> Conns] /\ \A x \in Clients \ {c} : conn'[x] = conn[x]
      /\ conn'[c] = IF closes THEN ClosedConn ELSE r
  BY <1>0, <1>4, <1>5, ConnTypes DEF Inv, TypeOK
<1>7. ControlMove /\ control'.client \in {control.client, NoClient, c}
  BY <1>5 DEF ControlMove, ReleaseControl, HostControl
<1>8. "resize" \notin tty.faults /\ HasControl(c) => conn[c].has
  BY <1>0 DEF Inv, ConnOK
<1>9. ConnOK(c)'
  <2>1. CASE closes
    <3>1. "resize" \notin tty.faults => control'.client # c
      BY <1>0, <1>5, <1>8, <2>1, AttachAssumption DEF ReleaseControl, HasControl, HostControl
    <3> QED
      BY <1>1, <1>6, <2>1, <3>1, ConnTypes DEF ConnOK, HasControl, Attached, SessionMove
  <2>2. CASE ~closes
    <3>1. Notified(c) # ClosedConn
      BY <1>c, <2>2, ConnTypes
    <3>2. /\ Notified(c).phase = conn[c].phase
          /\ \/ Notified(c).has = conn[c].has
             \/ ~Notified(c).has /\ ~HasControl(c)
      BY <1>0, <3>1, NotifiedIs
    <3> QED
      BY <1>0, <1>1, <1>3, <1>4, <1>5, <1>6, <1>8, <2>2, <3>2
         DEF ConnOK, HasControl, Attached, SessionMove, Live
  <2> QED
    BY <2>1, <2>2
<1> QED
  BY <1>0, <1>1, <1>6, <1>7, <1>9, ActorKeeps DEF ActorMove
-------------------------------------------------------------------------------
(* The observer socket, the writes, the daemon and the program *)

LEMMA ViewerMove ==
    ASSUME Inv, NEW c \in Viewers, ViewerNext(c)
    PROVE  Inv' /\ SessionMove /\ ControlMove
<1>0. c \in Clients /\ conn[c] \in Conns /\ c \notin Privileged
  BY AttachAssumption DEF Clients, Privileged, Inv, TypeOK
<1>1. CASE ViewerOpen(c)
  <2>1. SessionMove /\ ControlMove /\ control' = control
    BY <1>1, QuietMove DEF ViewerOpen, ControlMove
  <2>2. /\ conn' \in [Clients -> Conns] /\ \A r \in Clients \ {c} : conn'[r] = conn[r]
        /\ conn'[c].phase = "open"
    BY <1>0, <1>1 DEF ViewerOpen, Inv, TypeOK, Conns, ConnPhases
  <2>3. ConnOK(c)'
    BY <1>0, <2>2 DEF ConnOK
  <2> QED
    BY <1>0, <2>1, <2>2, <2>3, ActorKeeps DEF ActorMove
<1>2. ASSUME NEW k \in {"Host", "Remote"}, ViewerRequest(c, k) PROVE Inv' /\ SessionMove /\ ControlMove
  <2>1. SessionMove
    BY <1>2, QuietMove DEF ViewerRequest
  <2>2. ControlMove /\ control'.client = c
    BY <1>0, <1>2 DEF ViewerRequest, Grants, ControlMove, Live
  <2>3. conn' \in [Clients -> Conns] /\ \A r \in Clients : conn'[r] = conn[r]
    BY <1>2 DEF ViewerRequest, Inv, TypeOK
  <2>4. ConnOK(c)'
    BY <1>0, <2>3 DEF ConnOK, Inv
  <2> QED
    BY <1>0, <2>1, <2>2, <2>3, <2>4, ActorKeeps DEF ActorMove
<1>3. CASE ViewerRelease(c)
  <2>1. SessionMove
    BY <1>3, QuietMove DEF ViewerRelease
  <2>2. ControlMove /\ control'.client \in {control.client, NoClient}
    BY <1>3 DEF ViewerRelease, ReleaseControl, HostControl, ControlMove
  <2>3. conn' \in [Clients -> Conns] /\ \A r \in Clients : conn'[r] = conn[r]
    BY <1>3 DEF ViewerRelease, Inv, TypeOK
  <2>4. ConnOK(c)'
    BY <1>0, <2>3 DEF ConnOK, Inv
  <2> QED
    BY <1>0, <2>1, <2>2, <2>3, <2>4, ActorKeeps DEF ActorMove
<1>4. CASE ViewerStop(c)
  BY <1>4, StopMove DEF ViewerStop
<1>5. CASE ViewerCloses(c)
  <2>1. SessionMove
    BY <1>5, QuietMove DEF ViewerCloses
  <2>2. ControlMove /\ control'.client \in {control.client, NoClient}
    BY <1>5 DEF ViewerCloses, ReleaseControl, HostControl, ControlMove
  <2>3. /\ conn' \in [Clients -> Conns] /\ \A r \in Clients \ {c} : conn'[r] = conn[r]
        /\ conn'[c] = ClosedConn
    BY <1>0, <1>5, ConnTypes DEF ViewerCloses, Inv, TypeOK
  <2>4. ConnOK(c)'
    BY <1>0, <2>3, ConnTypes DEF ConnOK
  <2> QED
    BY <1>0, <2>1, <2>2, <2>3, <2>4, ActorKeeps DEF ActorMove
<1> QED
  BY <1>1, <1>2, <1>3, <1>4, <1>5 DEF ViewerNext

LEMMA WriteDoneMove ==
    ASSUME Inv, NEW c \in Clients, WriteDone(c)
    PROVE  Inv' /\ SessionMove /\ ControlMove
<1>1. CASE conn[c].closing
  <2>1. SessionMove
    BY QuietMove DEF WriteDone
  <2> QED
    BY <1>1, <2>1, CloseMove DEF WriteDone
<1>2. CASE ~conn[c].closing
  <2> DEFINE x == [conn[c] EXCEPT !.writing = FALSE]
  <2>1. x \in Conns /\ x.phase = conn[c].phase /\ x.has = conn[c].has /\ x.wait = conn[c].wait
    BY ZenonT(60) DEF Conns, Inv, TypeOK
  <2>2. conn' = [conn EXCEPT ![c] = x] /\ UNCHANGED <<status, control, child, tty, watcher>>
    BY <1>2 DEF WriteDone
  <2> HIDE DEF x
  <2> QED
    BY <2>1, <2>2, FlagsMove
<1> QED
  BY <1>1, <1>2

LEMMA DisconnectMove ==
    ASSUME Inv, NEW c \in Clients, Disconnect(c)
    PROVE  Inv' /\ SessionMove /\ ControlMove
<1>1. SessionMove
  BY QuietMove DEF Disconnect
<1> QED
  BY <1>1, CloseMove DEF Disconnect

LEMMA SystemMove ==
    ASSUME Inv, SystemNext
    PROVE  Inv' /\ SessionMove /\ ControlMove
<1>a. ASSUME SessionMove, UNCHANGED <<control, conn>> PROVE Inv' /\ SessionMove /\ ControlMove
  <2>1. ControlMove
    BY <1>a DEF ControlMove
  <2>2. ASSUME NEW c \in Clients PROVE ConnOK(c)'
    BY <1>a, OthersKept
  <2> QED
    BY <1>a, <2>1, <2>2, StepKeeps DEF Inv, TypeOK
<1>1. CASE ChildWrites
  <2>1. SessionMove
    BY <1>1 DEF ChildWrites, Inv, TypeOK, StatusOK, SessionMove
  <2> QED
    BY <1>1, <1>a, <2>1 DEF ChildWrites
<1>2. CASE ChildExits
  <2>1. SessionMove
    BY <1>2 DEF ChildExits, Inv, TypeOK, StatusOK, SessionMove
  <2> QED
    BY <1>2, <1>a, <2>1 DEF ChildExits
<1>3. CASE TtyReleased
  <2>1. SessionMove
    BY <1>3 DEF TtyReleased, Inv, TypeOK, StatusOK, SessionMove
  <2> QED
    BY <1>3, <1>a, <2>1 DEF TtyReleased
<1>4. CASE RestStop
  BY <1>4, StopMove DEF RestStop
<1>5. CASE ClearInactiveSessions
  <2>1. SessionMove
    BY <1>5 DEF ClearInactiveSessions, Inv, TypeOK, SessionMove, Reached
  <2>2. ControlMove
    BY <1>5 DEF ClearInactiveSessions, ControlMove
  <2>3. ASSUME NEW c \in Clients PROVE ConnOK(c)'
    BY <1>5, <2>1, OthersKept, AttachAssumption DEF ClearInactiveSessions, HostControl
  <2> QED
    BY <1>5, <2>1, <2>2, <2>3, StepKeeps DEF ClearInactiveSessions, Inv, TypeOK
<1>6. CASE DoPoll
  <2>0. watcher' \in BOOLEAN /\ NotifyClients /\ UNCHANGED control
    BY <1>6 DEF DoPoll
  <2>1. SessionMove /\ (status' = "gone" => status = "gone")
    <3>1. CASE HasPrivilegedController
      BY <1>6, <2>0, <3>1 DEF DoPoll, Inv, TypeOK, StatusOK, SessionMove
    <3>2. CASE ~HasPrivilegedController
      BY <1>6, <2>0, <3>2, PollMove DEF DoPoll
    <3> QED
      BY <3>1, <3>2
  <2> QED
    BY <2>0, <2>1, NotifyMove
<1>7. CASE WatcherReadable
  <2>0. watcher' \in BOOLEAN /\ NotifyClients /\ UNCHANGED control
    BY <1>7 DEF WatcherReadable, IsInteractiveStatus
  <2>1. SessionMove /\ (status' = "gone" => status = "gone")
    BY <1>7, <2>0, PollMove DEF WatcherReadable
  <2> QED
    BY <2>0, <2>1, NotifyMove
<1> QED
  BY <1>1, <1>2, <1>3, <1>4, <1>5, <1>6, <1>7 DEF SystemNext
-------------------------------------------------------------------------------
LEMMA InvInit == Init => Inv
<1> SUFFICES ASSUME Init PROVE Inv
  OBVIOUS
<1>1. TypeOK
  <2>1. tty \in [held : BOOLEAN, output : BOOLEAN, faults : SUBSET Faults]
    BY DEF Init
  <2>2. conn \in [Clients -> Conns]
    BY ConnTypes DEF Init
  <2> QED
    BY <2>1, <2>2 DEF Init, TypeOK, HostControl, Statuses
<1>2. StatusOK
  BY DEF Init, StatusOK, Reached
<1>3. \A c \in Clients : ConnOK(c)
  BY AttachAssumption DEF Init, ConnOK, NewConn, HostControl, HasControl, Attached
<1> QED
  BY <1>1, <1>2, <1>3 DEF Inv

LEMMA NextMove ==
    ASSUME Inv, Next
    PROVE  Inv' /\ SessionMove /\ ControlMove
<1>1. ASSUME NEW c \in Locals, LocalNext(c) PROVE Inv' /\ SessionMove /\ ControlMove
  <2>0. c \in Clients
    BY DEF Clients
  <2>1. CASE LocalRefused(c)
    <3>1. SessionMove
      BY <2>1, QuietMove DEF LocalRefused
    <3> QED
      BY <2>0, <2>1, <3>1, CloseMove DEF LocalRefused
  <2> QED
    BY <1>1, <2>0, <2>1, LocalHandshakeMove, LocalHandshakeDoneMove, LocalClaimMove, LocalFrameMove,
       LocalReadableMove, WriteDoneMove, DisconnectMove DEF LocalNext
<1>2. ASSUME NEW c \in Remotes, RemoteNext(c) PROVE Inv' /\ SessionMove /\ ControlMove
  <2>0. c \in Clients
    BY DEF Clients
  <2>1. CASE RemoteStop(c)
    BY <2>1, StopMove DEF RemoteStop
  <2> QED
    BY <1>2, <2>0, <2>1, RemoteAcceptedMove, RemoteInputMove, RemoteResizeMove, RemoteReleaseMove,
       RemoteReadableMove, WriteDoneMove, DisconnectMove DEF RemoteNext
<1> QED
  BY <1>1, <1>2, ViewerMove, SystemMove DEF Next

LEMMA InvNext == Inv /\ [Next]_vars => Inv'
<1>1. ASSUME Inv, UNCHANGED vars PROVE Inv'
  BY <1>1 DEF vars, Inv, TypeOK, StatusOK, ConnOK, HasControl, Attached, Live
<1> QED
  BY <1>1, NextMove

\* Every reachable state is well typed, for any number of connections.
THEOREM TypeCorrect == Spec => []TypeOK
<1>1. Inv => TypeOK
  BY DEF Inv
<1> QED
  BY <1>1, InvInit, InvNext, PTL DEF Spec

\* As long as no resize fails, a privileged client that has control is a
\* connection that knows it has, whoever comes, claims, loses and goes meanwhile.
THEOREM ControlDoesNotLeak == Spec => []NoControlLeak
<1>1. Inv => NoControlLeak
  BY DEF Inv, ConnOK, NoControlLeak, Clients, Privileged
<1> QED
  BY <1>1, InvInit, InvNext, PTL DEF Spec

\* As long as no descriptor is refused, a local or remote controller that is
\* served waits on the PTY until the session has ended.
THEOREM DriverAlwaysPolls == Spec => []DriverPolls
<1>1. Inv => DriverPolls
  BY DEF Inv, ConnOK, DriverPolls, Clients, Privileged
<1> QED
  BY <1>1, InvInit, InvNext, PTL DEF Spec

\* Every step of every connection, of the program and of the daemon's timers is a
\* step the contract of a session allows.
THEOREM ContractKept == Spec => KeepsContract
<1>1. Inv /\ [Next]_vars => [Contract!ContractNext]_(Contract!contractVars)
  <2>1. ASSUME Inv, Next PROVE Contract!ContractNext
    <3>1. SessionMove /\ ControlMove
      BY <2>1, NextMove
    <3> DEFINE ph == IF Live THEN "live" ELSE status
    <3>2. \/ ph' = ph
          \/ ph = "live" /\ ph' \in {"Exited", "Error", "gone"}
          \/ IsTerminalStatus(ph) /\ ph' = "gone"
      BY <2>1, <3>1 DEF SessionMove, Inv, StatusOK, Reached, Live, IsInteractiveStatus, IsTerminalStatus
    <3>3. \/ control'.client = control.client /\ control'.kind = control.kind
          \/ control'.client = NoClient /\ control'.kind = "Host"
          \/ /\ control'.client \in Clients /\ ph = "live" /\ ph' = "live"
             /\ control.kind = "Remote" => control'.kind = "Host"
      BY <3>1 DEF ControlMove, HostControl, Live
    <3> HIDE DEF ph
    <3>4. \A s \in {"s"} : Contract!PhaseStep(s)
      BY <3>2 DEF Contract!PhaseStep, Contract!IsTerminalStatus, IsTerminalStatus, ph
    <3>5. \A s \in {"s"} : Contract!ControlStep(s)
      BY <3>3 DEF Contract!ControlStep, ph
    <3> QED
      BY <3>4, <3>5 DEF Contract!ContractNext
  <2>2. UNCHANGED vars => UNCHANGED Contract!contractVars
    BY DEF vars, Contract!contractVars, Live
  <2> QED
    BY <2>1, <2>2
<1> QED
  BY <1>1, InvInit, InvNext, PTL DEF Spec, KeepsContract
-------------------------------------------------------------------------------
(***************************************************************************)
(* The other end of an attachment: `sentrits attach`. A client that holds  *)
(* the control knows it, whatever others do, whatever the terminal does,   *)
(* and however its two threads and the server race.                        *)
(***************************************************************************)
Kinds == {"host", "remote"}
Controllers == [kind : Kinds, client : {"none", "me", "other"}]
Events == [type : {"updated"}, kind : Kinds, client : BOOLEAN] \cup [type : {"exited"}]
Commands ==
    [type : {"request", "input", "release", "close"}] \cup [type : {"resize"}, size : Sizes]
Places == {"top", "request", "mark", "resize", "select", "close", "closing", "join", "done"}

\* The types, with the messages and the places of the main loop.
Types ==
    /\ kind \in Kinds
    /\ main \in [pc : Places, has : BOOLEAN, size : Sizes, sync : BOOLEAN]
    /\ belief \in [has : BOOLEAN, pending : BOOLEAN, kind : Kinds \cup {"none"}, client : BOOLEAN]
    /\ reader \in {"reading", "ended"}
    /\ flags \in [stop : BOOLEAN, failed : BOOLEAN]
    /\ terminal \in [size : Sizes, signal : BOOLEAN, eof : BOOLEAN]
    /\ toServer \in Seq(Commands) /\ toClient \in Seq(Events)
    /\ link \in {"open", "closed", "lost"}
    /\ session \in [controller : Controllers, size : Sizes, running : BOOLEAN]
    /\ socket \in [controller : Controllers, running : BOOLEAN]

\* The control that is mine is of my kind.
MyKind == session.controller.client = "me" => session.controller.kind = kind

\* What the server told last is the last that is under way or, if nothing is, what the
\* client took in last.
Tells(e) == e = [type |-> "updated", kind |-> socket.controller.kind, client |-> socket.controller.client # "none"]

Updates == {i \in 1..Len(toClient) : toClient[i].type = "updated"}

LastTold ==
    \/ \E i \in Updates : Tells(toClient[i]) /\ \A j \in Updates : j <= i
    \/ /\ Updates = {}
       /\ belief.kind = socket.controller.kind /\ belief.client = (socket.controller.client # "none")

\* A thread that takes no events any more has said that the client is to stop.
StopSaid ==
    /\ main.pc \in {"close", "closing", "join", "done"} => flags.stop
    /\ reader = "ended" => flags.stop
    /\ flags.failed => flags.stop

\* Somebody of the client's own kind in control is taken for the client itself.
BeliefOK == belief.kind = kind /\ belief.client => belief.has

ClientInv ==
    /\ Types /\ MyKind /\ StopSaid /\ BeliefOK
    /\ link = "open" /\ ~flags.stop => LastTold
-------------------------------------------------------------------------------
LEMMA ClientInvInit == ClientInit => ClientInv
<1> SUFFICES ASSUME ClientInit PROVE ClientInv
  OBVIOUS
<1>1. PICK c \in {Nobody, [kind |-> "remote", client |-> "other"]} :
        /\ session = [controller |-> c, size |-> 2, running |-> TRUE]
        /\ socket = [controller |-> c, running |-> TRUE]
        /\ toClient = <<[type |-> "updated", kind |-> c.kind, client |-> c.client # "none"]>>
  BY DEF ClientInit
<1>2. c \in Controllers /\ c.client # "me"
  BY DEF Controllers, Nobody, Kinds
<1>3. [type |-> "updated", kind |-> c.kind, client |-> c.client # "none"] \in Events
  BY <1>2 DEF Events, Controllers
<1>4. Types
  BY <1>1, <1>2, <1>3, SizesAssumption DEF ClientInit, Types, Kinds, Places, Commands
<1>5. MyKind
  BY <1>1, <1>2 DEF MyKind
<1>6. LastTold
  <2>1. 1 \in Updates /\ Tells(toClient[1]) /\ \A j \in Updates : j <= 1
    BY <1>1 DEF Updates, Tells
  <2> QED
    BY <2>1 DEF LastTold
<1> QED
  BY <1>4, <1>5, <1>6 DEF ClientInv, ClientInit, StopSaid, BeliefOK, Kinds
-------------------------------------------------------------------------------
(* What the server tells *)

Sessions == [controller : Controllers, size : Sizes, running : BOOLEAN]

LEMMA Joined ==
    ASSUME NEW e, NEW x
    PROVE  <<e>> \o <<x>> = <<e, x>> /\ <<e>> \o <<>> = <<e>>
<1>1. <<e>> \in Seq({e, x}) /\ <<x>> \in Seq({e, x}) /\ <<e, x>> \in Seq({e, x})
  OBVIOUS
<1>2. /\ <<e>> \o <<x>> \in Seq({e, x}) /\ Len(<<e>> \o <<x>>) = 2
      /\ (<<e>> \o <<x>>)[1] = e /\ (<<e>> \o <<x>>)[2] = x
  BY <1>1
<1>3. <<e>> \o <<x>> = <<e, x>>
  <2>1. Len(<<e>> \o <<x>>) = Len(<<e, x>>)
    BY <1>2
  <2>2. \A i \in 1..Len(<<e>> \o <<x>>) : (<<e>> \o <<x>>)[i] = <<e, x>>[i]
    BY <1>2
  <2> QED
    BY <1>1, <1>2, <2>1, <2>2, SeqEqual, Zenon
<1>4. <<e>> \o <<>> = <<e>>
  BY <1>1
<1> QED
  BY <1>3, <1>4

LEMMA StatusEventsAre ==
    ASSUME Types, NEW s \in Sessions
    PROVE  LET e == [type |-> "updated", kind |-> s.controller.kind, client |-> s.controller.client # "none"]
           IN  \/ StatusEvents(s) = <<>> /\ socket = [controller |-> s.controller, running |-> s.running]
               \/ StatusEvents(s) = <<e>>
               \/ StatusEvents(s) = <<e, [type |-> "exited"]>>
<1> DEFINE e == [type |-> "updated", kind |-> s.controller.kind, client |-> s.controller.client # "none"]
           x == [type |-> "exited"]
<1>1. CASE socket = [controller |-> s.controller, running |-> s.running]
  <2>1. ~(socket.running /\ ~s.running)
    BY <1>1
  <2>2. StatusEvents(s) = <<>> \o <<>>
    BY <1>1, <2>1 DEF StatusEvents
  <2> QED
    BY <1>1, <2>2
<1>2. CASE socket # [controller |-> s.controller, running |-> s.running]
  <2>1. StatusEvents(s) = <<e>> \o (IF socket.running /\ ~s.running THEN <<x>> ELSE <<>>)
    BY <1>2 DEF StatusEvents
  <2> HIDE DEF e, x
  <2>2. StatusEvents(s) = <<e>> \/ StatusEvents(s) = <<e, x>>
    BY <2>1, Joined
  <2> QED
    BY <2>2 DEF e, x
<1> QED
  BY <1>1, <1>2

\* After QueueStatusEvents the last thing told is what the session then is.
LEMMA Queued ==
    ASSUME Types, NEW s \in Sessions, QueueStatusEvents(s), belief' = belief
    PROVE  /\ session' = s /\ socket' \in [controller : Controllers, running : BOOLEAN]
           /\ toClient' \in Seq(Events)
           /\ LastTold => LastTold'
<1> DEFINE e == [type |-> "updated", kind |-> s.controller.kind, client |-> s.controller.client # "none"]
           x == [type |-> "exited"]
<1>1. session' = s /\ socket' = [controller |-> s.controller, running |-> s.running]
  BY DEF QueueStatusEvents
<1>2. e \in Events /\ x \in Events
  BY DEF Events, Sessions, Controllers
<1>3. toClient' = toClient \o StatusEvents(s) /\ toClient \in Seq(Events)
  BY DEF QueueStatusEvents, Types
<1>4. \/ StatusEvents(s) = <<>> /\ socket' = socket
      \/ StatusEvents(s) = <<e>>
      \/ StatusEvents(s) = <<e, x>>
  BY <1>1, StatusEventsAre
<1>5. e.type = "updated" /\ x.type = "exited"
  OBVIOUS
<1>6. \A f : f = e => Tells(f)'
  BY <1>1 DEF Tells
<1> HIDE DEF e, x
<1>7. CASE StatusEvents(s) = <<>> /\ socket' = socket
  <2>1. toClient' = toClient
    BY <1>3, <1>7
  <2> QED
    BY <1>1, <1>3, <1>7, <2>1 DEF LastTold, Updates, Tells, Sessions
<1>8. CASE StatusEvents(s) = <<e>>
  <2>1. /\ toClient' \in Seq(Events) /\ Len(toClient') = Len(toClient) + 1
        /\ toClient'[Len(toClient) + 1] = e
    BY <1>2, <1>3, <1>8
  <2>2. Len(toClient) + 1 \in Updates' /\ \A j \in Updates' : j <= Len(toClient) + 1
    BY <1>3, <1>5, <2>1 DEF Updates
  <2> QED
    BY <1>1, <1>6, <2>1, <2>2 DEF LastTold, Sessions
<1>9. CASE StatusEvents(s) = <<e, x>>
  <2>1. /\ toClient' \in Seq(Events) /\ Len(toClient') = Len(toClient) + 2
        /\ toClient'[Len(toClient) + 1] = e /\ toClient'[Len(toClient) + 2] = x
    BY <1>2, <1>3, <1>9
  <2>2. Len(toClient) + 1 \in Updates' /\ \A j \in Updates' : j <= Len(toClient) + 1
    BY <1>3, <1>5, <2>1 DEF Updates
  <2> QED
    BY <1>1, <1>6, <2>1, <2>2 DEF LastTold, Sessions
<1> QED
  BY <1>4, <1>7, <1>8, <1>9

\* The server's part of the state, after a command that it rejects or answers.
LEMMA ServerKeeps ==
    ASSUME ClientInv, NEW s \in Sessions, s.controller.client = "me" => s.controller.kind = kind,
           QueueStatusEvents(s),
           UNCHANGED <<kind, main, belief, reader, flags, terminal>>,
           toServer' \in Seq(Commands), link' = link
    PROVE  ClientInv'
<1>1. Types /\ belief' = belief
  BY DEF ClientInv
<1>2. /\ session' = s /\ socket' \in [controller : Controllers, running : BOOLEAN]
      /\ toClient' \in Seq(Events)
      /\ LastTold => LastTold'
  BY <1>1, Queued
<1>3. Types'
  BY <1>1, <1>2 DEF Types, Sessions
<1> QED
  BY <1>2, <1>3 DEF ClientInv, MyKind, StopSaid, BeliefOK

\* A step that tells nothing and takes nothing in.
LEMMA QuietKeeps ==
    ASSUME ClientInv, Types', MyKind', StopSaid', UNCHANGED <<kind, socket, toClient>>,
           belief'.has = belief.has, belief'.kind = belief.kind, belief'.client = belief.client,
           link' = "open" => link = "open", ~flags'.stop => ~flags.stop
    PROVE  ClientInv'
<1>1. LastTold => LastTold'
  BY DEF LastTold, Updates, Tells
<1> QED
  BY <1>1 DEF ClientInv, BeliefOK
-------------------------------------------------------------------------------
(* The steps of the server and of others *)

LEMMA PumpKeeps ==
    ASSUME ClientInv, Pump
    PROVE  ClientInv'
<1>1. session \in Sessions /\ (session.controller.client = "me" => session.controller.kind = kind)
  BY DEF ClientInv, Types, Sessions, MyKind
<1> QED
  BY <1>1, ServerKeeps DEF Pump, clientVars, ClientInv, Types

LEMMA ReleasedIs ==
    ASSUME Types
    PROVE  /\ Released(session) \in Sessions
           /\ Released(session).controller.client # "me"
BY DEF Types, Sessions, Released, Nobody, Controllers, Kinds

LEMMA HandleClientCommandKeeps ==
    ASSUME ClientInv, HandleClientCommand
    PROVE  ClientInv'
<1>1. Types /\ MyKind /\ StopSaid /\ toServer # <<>> /\ toServer \in Seq(Commands)
  BY DEF ClientInv, Types, HandleClientCommand
<1>2. PICK c \in Commands : c = Head(toServer)
  BY <1>1
<1>3. toServer' \in Seq(Commands)
  BY <1>1 DEF HandleClientCommand
<1>4. session \in Sessions /\ UNCHANGED <<kind, main, belief, reader, flags, terminal>>
  BY <1>1 DEF Types, Sessions, HandleClientCommand, clientVars
<1>5. c.type # "close" => link' = link
  BY <1>2 DEF HandleClientCommand
<1>6. CASE c.type # "close" /\ Rejected
  BY <1>1, <1>3, <1>4, <1>5, <1>6, QuietKeeps DEF Rejected, Types, MyKind, StopSaid
<1>7. ASSUME c.type # "close", NEW s \in Sessions, s.controller.client = "me" => s.controller.kind = kind,
             QueueStatusEvents(s)
      PROVE  ClientInv'
  BY <1>3, <1>4, <1>5, <1>7, ServerKeeps
<1>8. CASE c.type = "request"
  <2>1. \/ Rejected
        \/ QueueStatusEvents([session EXCEPT !.controller = [kind |-> kind, client |-> "me"]])
    BY <1>2, <1>8 DEF HandleClientCommand
  <2>2. PICK s : s = [session EXCEPT !.controller = [kind |-> kind, client |-> "me"]]
    OBVIOUS
  <2>3. s \in Sessions /\ s.controller = [kind |-> kind, client |-> "me"]
    BY <1>1, <1>4, <2>2 DEF Sessions, Controllers, Types
  <2>4. s.controller.client = "me" => s.controller.kind = kind
    BY <2>3
  <2> QED
    BY <1>6, <1>7, <1>8, <2>1, <2>2, <2>3, <2>4
<1>9. CASE c.type = "resize"
  <2>1. c.size \in Sizes
    BY <1>9 DEF Commands
  <2>2. Rejected \/ QueueStatusEvents(session) \/ QueueStatusEvents([session EXCEPT !.size = c.size])
    BY <1>2, <1>9 DEF HandleClientCommand
  <2>3. PICK s : s = [session EXCEPT !.size = c.size]
    OBVIOUS
  <2>4. s \in Sessions /\ s.controller = session.controller
    BY <1>4, <2>1, <2>3 DEF Sessions
  <2> QED
    BY <1>1, <1>4, <1>6, <1>7, <1>9, <2>2, <2>3, <2>4 DEF MyKind
<1>10. CASE c.type = "input"
  BY <1>2, <1>6, <1>10 DEF HandleClientCommand
<1>11. CASE c.type = "release"
  <2>1. Rejected \/ QueueStatusEvents(Released(session))
    BY <1>2, <1>11 DEF HandleClientCommand
  <2> QED
    BY <1>1, <1>6, <1>7, <1>11, <2>1, ReleasedIs
<1>12. CASE c.type = "close"
  <2>1. session' = Released(session) /\ UNCHANGED <<socket, toClient>> /\ link' = "closed"
    BY <1>2, <1>12 DEF HandleClientCommand
  <2>2. Types' /\ MyKind' /\ StopSaid'
    BY <1>1, <1>3, <1>4, <2>1, ReleasedIs DEF Types, MyKind, StopSaid, Sessions
  <2> QED
    BY <1>4, <2>1, <2>2, QuietKeeps
<1> QED
  BY <1>8, <1>9, <1>10, <1>11, <1>12 DEF Commands

LEMMA ConnectionLostKeeps ==
    ASSUME ClientInv, ConnectionLost
    PROVE  ClientInv'
<1>1. Types /\ UNCHANGED <<kind, main, belief, reader, flags, terminal, socket>>
  BY DEF ClientInv, ConnectionLost, clientVars
<1>2. toClient' \in Seq(Events)
  BY <1>1 DEF ConnectionLost, Types
<1>3. Types'
  BY <1>1, <1>2, ReleasedIs DEF ConnectionLost, Types, Sessions
<1>4. MyKind'
  BY <1>1, ReleasedIs DEF ConnectionLost, MyKind
<1> QED
  BY <1>1, <1>3, <1>4 DEF ClientInv, ConnectionLost, StopSaid, BeliefOK

LEMMA EnvironmentKeeps ==
    ASSUME ClientInv, Environment
    PROVE  ClientInv'
<1>1. Types /\ MyKind /\ StopSaid
  BY DEF ClientInv
<1>2. ASSUME session' \in Sessions, session'.controller.client = "me" => session'.controller.kind = kind,
             UNCHANGED <<clientVars, wireVars, socket>>
      PROVE  ClientInv'
  <2>1. /\ UNCHANGED <<kind, main, belief, reader, flags, terminal>>
        /\ UNCHANGED <<toServer, toClient, link, socket>>
    BY <1>2 DEF clientVars, wireVars
  <2>2. Types'
    BY <1>1, <1>2, <2>1 DEF Types, Sessions
  <2>3. MyKind' /\ StopSaid'
    BY <1>1, <1>2, <2>1 DEF MyKind, StopSaid
  <2> QED
    BY <2>1, <2>2, <2>3, QuietKeeps
<1>3. ASSUME NEW how \in {"host", "remote"}, OtherTakes(how) PROVE ClientInv'
  <2>1. PICK c \in Controllers : c = [kind |-> how, client |-> "other"]
    BY DEF Controllers, Kinds
  <2>2. session' \in Sessions /\ session'.controller = c
    BY <1>1, <1>3, <2>1 DEF OtherTakes, Types, Sessions
  <2> QED
    BY <1>2, <1>3, <2>1, <2>2 DEF OtherTakes
<1>4. CASE OtherReleases
  <2>0. Nobody \in Controllers /\ Nobody.client = "none"
    BY DEF Controllers, Kinds, Nobody
  <2>1. PICK c \in Controllers : c = Nobody /\ c.client = "none"
    BY <2>0
  <2>2. session' \in Sessions /\ session'.controller = c
    BY <1>1, <1>4, <2>1 DEF OtherReleases, Types, Sessions
  <2> QED
    BY <1>2, <1>4, <2>1, <2>2 DEF OtherReleases
<1>5. CASE SessionExits
  <2>1. session' \in Sessions /\ session'.controller = session.controller
    BY <1>1, <1>5 DEF SessionExits, Types, Sessions
  <2> QED
    BY <1>1, <1>2, <1>5, <2>1 DEF SessionExits, MyKind
<1>6. CASE EndOfInput
  <2>1. terminal' \in [size : Sizes, signal : BOOLEAN, eof : BOOLEAN]
    BY <1>1, <1>6 DEF EndOfInput, Types
  <2>2. Types' /\ MyKind' /\ StopSaid'
    BY <1>1, <1>6, <2>1 DEF EndOfInput, Types, MyKind, StopSaid, wireVars, serverVars
  <2> QED
    BY <1>6, <2>2, QuietKeeps DEF EndOfInput, wireVars, serverVars
<1>7. ASSUME NEW size \in Sizes, Resized(size) PROVE ClientInv'
  <2>1. Types' /\ MyKind' /\ StopSaid'
    BY <1>1, <1>7, ZenonT(60) DEF Resized, Types, MyKind, StopSaid, wireVars, serverVars
  <2> QED
    BY <1>7, <2>1, QuietKeeps DEF Resized, wireVars, serverVars
<1> QED
  BY <1>3, <1>4, <1>5, <1>6, <1>7, ConnectionLostKeeps DEF Environment
-------------------------------------------------------------------------------
(* The steps of the client *)

\* The last update goes on being the last one when an event is taken in, or it is
\* the one that is taken in.
LEMMA Taken ==
    ASSUME Types, LastTold, toClient # <<>>, toClient' = Tail(toClient), UNCHANGED socket,
           Head(toClient).type = "updated" =>
               belief'.kind = Head(toClient).kind /\ belief'.client = Head(toClient).client,
           Head(toClient).type # "updated" => belief' = belief
    PROVE  LastTold'
<1>1. toClient \in Seq(Events) /\ Len(toClient) > 0 /\ Head(toClient) = toClient[1]
  BY DEF Types
<1>2. Len(toClient') = Len(toClient) - 1 /\ \A i \in 1..(Len(toClient) - 1) : toClient'[i] = toClient[i + 1]
  BY <1>1
<1>3. Updates' = {i \in 1..(Len(toClient) - 1) : i + 1 \in Updates}
  BY <1>1, <1>2 DEF Updates
<1>4. \A e : Tells(e)' <=> Tells(e)
  BY DEF Tells
<1>5. ASSUME NEW i \in Updates, Tells(toClient[i]), \A j \in Updates : j <= i
      PROVE  LastTold'
  <2>1. CASE i > 1
    <3>1. i - 1 \in Updates' /\ toClient'[i - 1] = toClient[i]
      BY <1>1, <1>2, <1>3, <1>5, <2>1 DEF Updates
    <3>2. \A j \in Updates' : j <= i - 1
      BY <1>1, <1>3, <1>5 DEF Updates
    <3> QED
      BY <1>4, <1>5, <3>1, <3>2 DEF LastTold
  <2>2. CASE i = 1
    <3>1. Updates' = {}
      BY <1>1, <1>3, <1>5, <2>2 DEF Updates
    <3>2. Tells(Head(toClient)) /\ Head(toClient).type = "updated"
      BY <1>1, <1>5, <2>2 DEF Updates
    <3> QED
      BY <3>1, <3>2 DEF LastTold, Tells
  <2> QED
    BY <1>1, <2>1, <2>2 DEF Updates
<1>6. CASE /\ Updates = {}
           /\ belief.kind = socket.controller.kind /\ belief.client = (socket.controller.client # "none")
  <2>1. Updates' = {} /\ Head(toClient).type # "updated"
    BY <1>1, <1>3, <1>6 DEF Updates
  <2> QED
    BY <1>6, <2>1 DEF LastTold
<1> QED
  BY <1>5, <1>6 DEF LastTold

LEMMA Believed ==
    ASSUME Types, NEW e \in Events, e.type = "updated"
    PROVE  LET b == HandleServerMessage(e)
           IN  /\ b \in [has : BOOLEAN, pending : BOOLEAN, kind : Kinds \cup {"none"}, client : BOOLEAN]
               /\ b.kind = e.kind /\ b.client = e.client
               /\ b.kind = kind /\ b.client => b.has
<1>1. e.kind \in Kinds /\ e.client \in BOOLEAN
  BY DEF Events
<1> QED
  BY <1>1 DEF HandleServerMessage, Types, Kinds

LEMMA ReaderReadsKeeps ==
    ASSUME ClientInv, ReaderReads
    PROVE  ClientInv'
<1>1. Types /\ MyKind /\ StopSaid /\ toClient # <<>>
  BY DEF ClientInv, ReaderReads
<1>2. PICK e \in Events : e = Head(toClient)
  BY <1>1 DEF Types
<1>3. toClient' \in Seq(Events)
  BY <1>1 DEF ReaderReads, Types
<1>4. UNCHANGED <<kind, main, terminal, toServer, link, session, socket>>
  BY DEF ReaderReads, serverVars
<1>5. belief' = IF e.type = "updated" THEN HandleServerMessage(e) ELSE belief
  BY <1>2 DEF ReaderReads
<1>6. /\ flags' \in [stop : BOOLEAN, failed : BOOLEAN] /\ flags'.failed = flags.failed
      /\ flags.stop => flags'.stop /\ reader' = "ended"
      /\ reader' \in {"reading", "ended"} /\ (reader' = "ended" => flags'.stop)
  BY <1>1 DEF ReaderReads, Types
<1>7. BeliefOK' /\ belief' \in [has : BOOLEAN, pending : BOOLEAN, kind : Kinds \cup {"none"}, client : BOOLEAN]
  BY <1>1, <1>4, <1>5, Believed DEF ClientInv, BeliefOK, Types
<1>8. Types' /\ MyKind' /\ StopSaid'
  BY <1>1, <1>3, <1>4, <1>6, <1>7 DEF Types, MyKind, StopSaid
<1>9. LastTold => LastTold'
  BY <1>1, <1>2, <1>4, <1>5, Believed, Taken DEF ReaderReads
<1> QED
  BY <1>4, <1>6, <1>7, <1>8, <1>9 DEF ClientInv

LEMMA ReaderFindsEndKeeps ==
    ASSUME ClientInv, ReaderFindsEnd
    PROVE  ClientInv'
<1>1. Types /\ MyKind /\ StopSaid
  BY DEF ClientInv
<1>2. PICK failed \in BOOLEAN : flags' = [stop |-> TRUE, failed |-> failed]
  BY DEF ReaderFindsEnd
<1>3. /\ reader' = "ended"
      /\ UNCHANGED <<kind, main, belief, terminal, toServer, toClient, link, session, socket>>
  BY DEF ReaderFindsEnd, wireVars, serverVars
<1>4. Types' /\ MyKind' /\ StopSaid'
  BY <1>1, <1>2, <1>3 DEF Types, MyKind, StopSaid
<1> QED
  BY <1>2, <1>3, <1>4, QuietKeeps

MainType == [pc : Places, has : BOOLEAN, size : Sizes, sync : BOOLEAN]
Over == {"close", "closing", "join", "done"}

\* A step of the main loop: it may write, and it may say that the client is to stop.
LEMMA MainKeeps ==
    ASSUME ClientInv, main' \in MainType, toServer' \in Seq(Commands),
           UNCHANGED <<kind, reader, toClient, link, serverVars>>,
           belief' \in {belief, [belief EXCEPT !.pending = TRUE]},
           terminal' \in {terminal, [terminal EXCEPT !.signal = FALSE]},
           flags' \in {flags, [flags EXCEPT !.stop = TRUE]},
           main'.pc \in Over => flags'.stop
    PROVE  ClientInv'
<1>1. Types /\ MyKind /\ StopSaid
  BY DEF ClientInv
<1>2. /\ belief' \in [has : BOOLEAN, pending : BOOLEAN, kind : Kinds \cup {"none"}, client : BOOLEAN]
      /\ belief'.has = belief.has /\ belief'.kind = belief.kind /\ belief'.client = belief.client
  BY <1>1, ZenonT(60) DEF Types
<1>3. terminal' \in [size : Sizes, signal : BOOLEAN, eof : BOOLEAN]
  BY <1>1 DEF Types
<1>4. /\ flags' \in [stop : BOOLEAN, failed : BOOLEAN] /\ flags'.failed = flags.failed
      /\ flags.stop => flags'.stop
  BY <1>1 DEF Types
<1>5. UNCHANGED <<kind, reader, toClient, link, session, socket>>
  BY DEF serverVars
<1>6. Types'
  BY <1>1, <1>2, <1>3, <1>4, <1>5 DEF Types, MainType
<1>7. MyKind' /\ StopSaid'
  BY <1>1, <1>4, <1>5 DEF MyKind, StopSaid, Over
<1> QED
  BY <1>2, <1>4, <1>5, <1>6, <1>7, QuietKeeps

LEMMA AtIs ==
    ASSUME Types, NEW pc \in Places
    PROVE  At(pc) \in MainType /\ At(pc).pc = pc
BY DEF Types, At, MainType

\* What a write does, whether the connection takes it or not.
LEMMA WritesIs ==
    ASSUME Types, NEW c \in Commands, NEW next \in MainType, next.pc \notin Over, StopSaid,
           Writes(c, next)
    PROVE  /\ main' \in MainType /\ toServer' \in Seq(Commands)
           /\ flags' \in {flags, [flags EXCEPT !.stop = TRUE]}
           /\ main'.pc \in Over => flags'.stop
<1>1. toServer \in Seq(Commands) /\ Append(toServer, c) \in Seq(Commands)
  BY DEF Types
<1>2. CASE link = "open"
  BY <1>1, <1>2 DEF Writes
<1>3. CASE link # "open"
  <2>1. At("join") \in MainType
    BY AtIs DEF Places
  <2>2. [flags EXCEPT !.stop = TRUE].stop = TRUE
    BY DEF Types
  <2> QED
    BY <1>1, <1>3, <2>1, <2>2 DEF Writes
<1> QED
  BY <1>2, <1>3

LEMMA MainStepKeeps ==
    ASSUME ClientInv, Main
    PROVE  ClientInv'
<1>1. Types /\ StopSaid /\ toServer \in Seq(Commands) /\ main \in MainType
  BY DEF ClientInv, Types, MainType
<1>2. CASE MainTop
  <2>1. /\ UNCHANGED <<kind, belief, reader, flags, terminal, toServer, toClient, link, serverVars>>
    BY <1>2 DEF MainTop, wireVars
  <2>2. main' \in MainType /\ (main'.pc \in Over => flags.stop)
    BY <1>1, <1>2 DEF MainTop, MainType, Places, Over, StopSaid, Types
  <2> QED
    BY <1>1, <2>1, <2>2, MainKeeps
<1>3. CASE MainRequests
  <2>1. PICK c \in Commands : c = [type |-> "request"]
    BY DEF Commands
  <2>2. PICK next \in MainType : next = At("mark") /\ next.pc \notin Over
    BY <1>1, AtIs DEF Places, Over
  <2>3. Writes(c, next)
    BY <1>3, <2>1, <2>2 DEF MainRequests
  <2> QED
    BY <1>1, <1>3, <2>2, <2>3, WritesIs, MainKeeps DEF MainRequests
<1>4. CASE MainMarks
  <2>1. main' \in MainType /\ main'.pc \notin Over
    BY <1>1, <1>4, AtIs DEF MainMarks, Places, Over
  <2> QED
    BY <1>1, <1>4, <2>1, MainKeeps DEF MainMarks, wireVars
<1>5. CASE MainSize
  <2>1. PICK size \in Sizes, news \in BOOLEAN :
           \/ Writes([type |-> "resize", size |-> size], [main EXCEPT !.size = size, !.sync = FALSE, !.pc = "select"])
           \/ Silently([main EXCEPT !.size = size, !.sync = news, !.pc = "select"])
    <3> DEFINE n == main.sync \/ (terminal.signal /\ terminal.size # main.size)
               z == IF terminal.signal THEN terminal.size ELSE main.size
    <3>1. n \in BOOLEAN /\ z \in Sizes
      BY <1>1 DEF Types
    <3>2. \/ Writes([type |-> "resize", size |-> z], [main EXCEPT !.size = z, !.sync = FALSE, !.pc = "select"])
          \/ Silently([main EXCEPT !.size = z, !.sync = n, !.pc = "select"])
      BY <1>5 DEF MainSize
    <3> HIDE DEF n, z
    <3> QED
      BY <3>1, <3>2
  <2>2. \A b \in BOOLEAN : LET next == [main EXCEPT !.size = size, !.sync = b, !.pc = "select"]
                           IN  next \in MainType /\ next.pc \notin Over
    BY <1>1 DEF MainType, Places, Over
  <2>3. [type |-> "resize", size |-> size] \in Commands
    BY DEF Commands
  <2>4. /\ main' \in MainType /\ toServer' \in Seq(Commands)
        /\ flags' \in {flags, [flags EXCEPT !.stop = TRUE]}
        /\ main'.pc \in Over => flags'.stop
    <3>1. CASE Silently([main EXCEPT !.size = size, !.sync = news, !.pc = "select"])
      BY <1>1, <2>2, <3>1 DEF Silently
    <3>2. CASE Writes([type |-> "resize", size |-> size], [main EXCEPT !.size = size, !.sync = FALSE, !.pc = "select"])
      BY <1>1, <2>2, <2>3, <3>2, WritesIs
    <3> QED
      BY <2>1, <3>1, <3>2
  <2> QED
    BY <1>5, <2>4, MainKeeps DEF MainSize
<1>6. ASSUME NEW key \in BOOLEAN, MainSelects(key) PROVE ClientInv'
  <2>1. PICK c \in Commands : c = [type |-> "input"]
    BY DEF Commands
  <2>2. PICK next \in MainType : next = At("top") /\ next.pc \notin Over
    BY <1>1, AtIs DEF Places, Over
  <2>3. Writes(c, next) \/ Silently(next)
    BY <1>6, <2>1, <2>2 DEF MainSelects
  <2>4. /\ main' \in MainType /\ toServer' \in Seq(Commands)
        /\ flags' \in {flags, [flags EXCEPT !.stop = TRUE]}
        /\ main'.pc \in Over => flags'.stop
    BY <1>1, <2>2, <2>3, WritesIs DEF Silently
  <2> QED
    BY <1>6, <2>4, MainKeeps DEF MainSelects
<1>7. CASE MainReleases
  <2>1. toServer' \in Seq(Commands)
    BY <1>1, <1>7 DEF MainReleases, Commands
  <2>2. main' \in MainType /\ flags'.stop = TRUE
    BY <1>1, <1>7, AtIs DEF MainReleases, Places, Types
  <2> QED
    BY <1>7, <2>1, <2>2, MainKeeps DEF MainReleases
<1>8. CASE MainCloses
  <2>1. toServer' \in Seq(Commands)
    BY <1>1, <1>8 DEF MainCloses, Commands
  <2>2. main' \in MainType /\ flags.stop
    BY <1>1, <1>8, AtIs DEF MainCloses, Places, StopSaid
  <2> QED
    BY <1>8, <2>1, <2>2, MainKeeps DEF MainCloses
<1>9. CASE MainDrains
  <2>1. flags.stop /\ toClient' \in Seq(Events)
    BY <1>1, <1>9 DEF MainDrains, StopSaid, Types
  <2>2. Types'
    BY <1>1, <1>9, <2>1 DEF MainDrains, Types, clientVars, serverVars
  <2> QED
    BY <1>9, <2>1, <2>2 DEF MainDrains, ClientInv, MyKind, StopSaid, BeliefOK, clientVars, serverVars
<1>10. CASE MainClosed
  <2>1. main' \in MainType /\ flags.stop
    BY <1>1, <1>10, AtIs DEF MainClosed, Places, StopSaid
  <2> QED
    BY <1>1, <1>10, <2>1, MainKeeps DEF MainClosed, wireVars
<1>11. CASE MainJoins
  <2>1. main' \in MainType /\ flags.stop
    BY <1>1, <1>11, AtIs DEF MainJoins, Places, StopSaid
  <2> QED
    BY <1>1, <1>11, <2>1, MainKeeps DEF MainJoins, wireVars
<1> QED
  BY <1>2, <1>3, <1>4, <1>5, <1>6, <1>7, <1>8, <1>9, <1>10, <1>11 DEF Main

LEMMA ClientInvNext == ClientInv /\ [ClientNext]_attachVars => ClientInv'
<1>1. CASE UNCHANGED attachVars
  BY <1>1 DEF ClientInv, attachVars, Types, MyKind, StopSaid, BeliefOK, LastTold, Updates, Tells
<1> QED
  BY <1>1, PumpKeeps, HandleClientCommandKeeps, EnvironmentKeeps, ReaderReadsKeeps,
     ReaderFindsEndKeeps, MainStepKeeps DEF ClientNext, Reader
-------------------------------------------------------------------------------
\* Type correctness of the client's threads, its belief and the session.
THEOREM ClientTypeCorrect == ClientSpec => []ClientTypeOK
<1>1. ClientInv => ClientTypeOK
  BY DEF ClientInv, Types, ClientTypeOK, Controllers
<1> QED
  BY <1>1, ClientInvInit, ClientInvNext, PTL DEF ClientSpec

\* A client that holds the control knows it as soon as nothing is under way, so that
\* what is typed is not dropped, for any sizes and any number of changes by others.
THEOREM ControlIsNeverSilent == ClientSpec => []NoSilentControl
<1>1. ClientInv => NoSilentControl
  <2> SUFFICES ASSUME ClientInv, ClientAttached, Quiet, ClientHasControl PROVE belief.has
    BY DEF NoSilentControl
  <2>1. Types /\ LastTold /\ session \in Sessions
    BY DEF ClientInv, ClientAttached, Types, Sessions
  <2>2. socket.controller = session.controller
    <3>1. socket = [controller |-> session.controller, running |-> session.running]
      BY <2>1, StatusEventsAre DEF Quiet
    <3> QED
      BY <3>1
  <2>3. Updates = {}
    BY DEF Quiet, Updates
  <2>4. belief.kind = session.controller.kind /\ belief.client = (session.controller.client # "none")
    BY <2>1, <2>2, <2>3 DEF LastTold
  <2> QED
    BY <2>4 DEF ClientHasControl, ClientInv, MyKind, BeliefOK
<1> QED
  BY <1>1, ClientInvInit, ClientInvNext, PTL DEF ClientSpec
===============================================================================
