------------------------- MODULE ServerLifecycleProofs -------------------------
(***************************************************************************)
(* Starting and stopping the daemon, for any number of relays and whatever *)
(* the moment of the signal.                                               *)
(***************************************************************************)
EXTENDS ServerLifecycle, TLAPS

\* A bridge is named by the request it is spawned for and does not run before.
RelayOK == control.at = "spawns" => control.relay \in Bridges /\ bridge[control.relay].at = "none"

BridgesQuiet == \A b \in Bridges : bridge[b].at \in {"none", "done"}

\* A bridge that runs has a thread to be joined.
ThreadsKnown == \A b \in Bridges : bridge[b].at \notin {"none", "done"} => b \in threads

AfterRun == HubStop \cup {"finish", "reset"}

\* Only the end of the signal thread's Stop ends the io context, and so Run.
SignalFirst ==
    server.posted \/ server.io = "stopped" \/ sessions = "shut" \/ at.main \in AfterRun
        => at.signal = "ended"

\* What is gone for good when a thread that runs the hub's Stop has come to p.
Later == {"finish", "reset", "trigger", "ended"} \cup Ended

StoppedBy(p) ==
    /\ p \in {"joinBridges", "clientMark", "clientJoin"} \cup Later => control.at = "none"
    /\ p \in {"clientMark", "clientJoin"} \cup Later => threads = {} /\ BridgesQuiet
    /\ p \in Later => client.at = "none"

\* Nothing runs before Run has started it, and nothing that Run's end stopped
\* runs any more.
MainOK ==
    /\ at.main \in Starting => /\ control.at = "none" /\ threads = {} /\ BridgesQuiet
                               /\ sessions = "none"
    /\ at.main \in Starting \ {"clientStarted"} => client.at = "none"
    /\ StoppedBy(at.main)
    /\ at.main \in {"created", "fresh", "binding", "reset"} \cup Ended
           => ~server.discovery /\ ~server.callback

\* The same for a Stop that came when everything had been started.
StartedOK ==
    stopArgs.started => /\ at.main \notin Starting
                        /\ at.signal \notin {"waits", "stops"}
                        /\ StoppedBy(at.signal)

\* A Stop that found the callback ends the sessions before it ends Run.
CallbackOK ==
    stopArgs.callback /\ (server.io = "stopped" \/ at.main \in AfterRun \cup Ended)
        => sessions # "live"

Inv ==
    /\ TypeOK /\ RelayOK /\ OneUse /\ ThreadsKnown
    /\ SignalFirst /\ MainOK /\ StartedOK /\ CallbackOK
-------------------------------------------------------------------------------
LEMMA GoesMain ==
    ASSUME TypeOK, NEW from, NEW to \in MainAt, Goes("main", from, to)
    PROVE  /\ at.main = from /\ at'.main = to /\ at'.signal = at.signal
           /\ at' \in [main : MainAt, signal : SignalAt]
BY DEF Goes, TypeOK

LEMMA GoesSignal ==
    ASSUME TypeOK, NEW from, NEW to \in SignalAt, Goes("signal", from, to)
    PROVE  /\ at.signal = from /\ at'.signal = to /\ at'.main = at.main
           /\ at' \in [main : MainAt, signal : SignalAt]
BY DEF Goes, TypeOK

\* Where a step of the hub's Stop takes the thread that runs it.
LEMMA HubStopsGo ==
    ASSUME TypeOK, NEW c \in Callers, HubStops(c)
    PROVE  /\ at' \in [main : MainAt, signal : SignalAt]
           /\ c = "main" => /\ at'.signal = at.signal /\ at.main \in HubStop
                            /\ at'.main \in HubStop \cup {"finish"}
           /\ c = "signal" => /\ at'.main = at.main /\ at.signal \in HubStop
                              /\ at'.signal \in HubStop \cup {"trigger"}
<1>1. PICK from \in HubStop, to \in HubStop \cup {IF c = "main" THEN "finish" ELSE "trigger"} : Goes(c, from, to)
  BY DEF HubStops, MarkStop, StopIocs, JoinControl, JoinBridges, MarkClient, JoinClient, HubStop
<1>2. CASE c = "main"
  BY <1>1, <1>2, GoesMain DEF MainAt
<1>3. CASE c = "signal"
  BY <1>1, <1>3, GoesSignal DEF SignalAt
<1> QED
  BY <1>2, <1>3 DEF Callers

LEMMA TypeInit == Init => TypeOK
<1> SUFFICES ASSUME Init PROVE TypeOK
  OBVIOUS
<1>1. config \in [listener : {"off", "on", "invalid"}, bridge : BOOLEAN, hub : BOOLEAN]
  BY DEF Init, ResolveRemoteTlsConfig
<1> QED
  BY <1>1 DEF Init, TypeOK, MainAt, SignalAt, Starting, ControlAt, BridgeAt, ClientAt

\* The parts of the type invariant that a step leaves alone.
LEMMA TypeHub ==
    ASSUME TypeOK, NEW c \in Callers, HubStops(c)
    PROVE  TypeOK'
<1>0. at' \in [main : MainAt, signal : SignalAt]
  BY HubStopsGo
<1>1. CASE MarkStop(c)
  <2>1. control' \in [stop : BOOLEAN, at : ControlAt, ioc : {"none", "set", "stopped"},
                      relay : Bridges \cup {"none"}]
    BY <1>0, <1>1 DEF MarkStop, TypeOK
  <2> QED
    BY <1>0, <1>1, <2>1 DEF MarkStop, TypeOK
<1>2. CASE StopIocs(c)
  <2>1. bridge' \in [Bridges -> [at : BridgeAt, ioc : {"none", "set", "stopped"}]]
    BY <1>2 DEF StopIocs, TypeOK
  <2> QED
    BY <1>0, <1>2, <2>1 DEF StopIocs, TypeOK
<1>3. CASE JoinControl(c)
  BY <1>0, <1>3 DEF JoinControl, TypeOK, ControlAt
<1>4. CASE JoinBridges(c)
  BY <1>0, <1>4 DEF JoinBridges, TypeOK
<1>5. CASE MarkClient(c)
  <2>1. client' \in [stop : BOOLEAN, at : ClientAt]
    BY <1>0, <1>5 DEF MarkClient, TypeOK
  <2> QED
    BY <1>0, <1>5, <2>1 DEF MarkClient, TypeOK
<1>6. CASE JoinClient(c)
  BY <1>0, <1>6 DEF JoinClient, TypeOK, ClientAt
<1> QED
  BY <1>1, <1>2, <1>3, <1>4, <1>5, <1>6 DEF HubStops

LEMMA TypeMain ==
    ASSUME TypeOK, Main \/ RunFails \/ ServeCreate
    PROVE  TypeOK'
<1> USE DEF TypeOK, hubVars
<1>1. CASE RunBegins
  BY <1>1 DEF RunBegins, Goes, MainAt, Starting
<1>2. CASE RunResets
  <2>1. server' \in [stopping : BOOLEAN, callback : BOOLEAN, io : {"none", "made", "stopped"},
                   posted : BOOLEAN, open : BOOLEAN, discovery : BOOLEAN]
    BY <1>2 DEF RunResets, Goes, MainAt, Starting
  <2> QED
    BY <1>2, <2>1 DEF RunResets, Goes, MainAt, Starting
<1>3. CASE RunFails
  <2>1. server' \in [stopping : BOOLEAN, callback : BOOLEAN, io : {"none", "made", "stopped"},
                   posted : BOOLEAN, open : BOOLEAN, discovery : BOOLEAN]
    BY <1>3, ZenonT(60) DEF RunFails, Goes, MainAt, Ended
  <2> QED
    BY <1>3, <2>1 DEF RunFails, Goes, MainAt, Ended
<1>4. CASE RunBinds
  <2>1. server' \in [stopping : BOOLEAN, callback : BOOLEAN, io : {"none", "made", "stopped"},
                   posted : BOOLEAN, open : BOOLEAN, discovery : BOOLEAN]
    BY <1>4 DEF RunBinds, ListenersOpen, Goes, MainAt, Starting
  <2> QED
    BY <1>4, <2>1 DEF RunBinds, ListenersOpen, Goes, MainAt, Starting
<1>5. CASE StartClient
  BY <1>5 DEF StartClient, Goes, MainAt, Starting, ClientAt
<1>6. CASE StartControl
  <2>1. control' \in [stop : BOOLEAN, at : ControlAt, ioc : {"none", "set", "stopped"},
                      relay : Bridges \cup {"none"}]
    BY <1>6 DEF StartControl, Goes, MainAt, ControlAt
  <2> QED
    BY <1>6, <2>1 DEF StartControl, Goes, MainAt, ControlAt
<1>7. CASE ServeCreate
  BY <1>7 DEF ServeCreate
<1>8. CASE ServeShutdown
  <2>1. server' \in [stopping : BOOLEAN, callback : BOOLEAN, io : {"none", "made", "stopped"},
                   posted : BOOLEAN, open : BOOLEAN, discovery : BOOLEAN]
    BY <1>8 DEF ServeShutdown
  <2> QED
    BY <1>8, <2>1 DEF ServeShutdown
<1>9. CASE RunEnds
  BY <1>9 DEF RunEnds, Goes, MainAt, HubStop
<1>10. CASE HubStops("main")
  BY <1>10, TypeHub DEF Callers
<1>11. CASE RunForgets
  <2>1. server' \in [stopping : BOOLEAN, callback : BOOLEAN, io : {"none", "made", "stopped"},
                   posted : BOOLEAN, open : BOOLEAN, discovery : BOOLEAN]
    BY <1>11 DEF RunForgets, Goes, MainAt
  <2> QED
    BY <1>11, <2>1 DEF RunForgets, Goes, MainAt
<1>12. CASE RunReturns
  BY <1>12 DEF RunReturns, Goes, MainAt, Ended
<1>13. CASE WakeSignal
  BY <1>13 DEF WakeSignal, MainAt, Ended, SignalAt
<1>14. CASE JoinSignal
  BY <1>14 DEF JoinSignal, Goes, MainAt, Ended
<1>15. CASE Destroy
  BY <1>15 DEF Destroy, Goes, MainAt, Ended
<1> QED
  BY <1>1, <1>2, <1>3, <1>4, <1>5, <1>6, <1>7, <1>8, <1>9, <1>10, <1>11, <1>12, <1>13, <1>14,
     <1>15 DEF Main

LEMMA TypeSignal ==
    ASSUME TypeOK, SignalArrives \/ Signal
    PROVE  TypeOK'
<1> USE DEF TypeOK, hubVars
<1>1. CASE SignalArrives
  BY <1>1 DEF SignalArrives, Goes, SignalAt
<1>2. CASE StopEnters
  <2>1. stopArgs' \in [callback : BOOLEAN, io : BOOLEAN, started : BOOLEAN]
    BY <1>2 DEF StopEnters
  <2>2. at' \in [main : MainAt, signal : SignalAt]
    BY <1>2 DEF StopEnters, Goes, SignalAt, HubStop
  <2> QED
    BY <1>2, <2>1, <2>2, ZenonT(60) DEF StopEnters
<1>3. CASE HubStops("signal")
  BY <1>3, TypeHub DEF Callers
<1>4. CASE StopTriggers
  <2>1. server' \in [stopping : BOOLEAN, callback : BOOLEAN, io : {"none", "made", "stopped"},
                   posted : BOOLEAN, open : BOOLEAN, discovery : BOOLEAN]
    BY <1>4, ZenonT(60) DEF StopTriggers, Goes, SignalAt
  <2> QED
    BY <1>4, <2>1 DEF StopTriggers, Goes, SignalAt
<1> QED
  BY <1>1, <1>2, <1>3, <1>4 DEF Signal

LEMMA TypeControl ==
    ASSUME TypeOK, RelayOK, Control \/ ConnectionLost \/ Heartbeat
    PROVE  TypeOK'
<1> USE DEF TypeOK, controlOthers
<1>1. CASE ControlTurn
  <2>1. control' \in [stop : BOOLEAN, at : ControlAt, ioc : {"none", "set", "stopped"},
                      relay : Bridges \cup {"none"}]
    BY <1>1 DEF ControlTurn, ControlAt
  <2> QED
    BY <1>1, <2>1 DEF ControlTurn, ControlAt
<1>2. CASE ControlConnects
  BY <1>2 DEF ControlConnects, Connect, ControlAt
<1>3. CASE ControlInventory
  BY <1>3 DEF ControlInventory, ControlAt
<1>4. CASE SpawnBridge
  <2>1. control.relay \in Bridges
    BY <1>4 DEF SpawnBridge, RelayOK
  <2>2. bridge' \in [Bridges -> [at : BridgeAt, ioc : {"none", "set", "stopped"}]]
    BY <1>4, <2>1 DEF SpawnBridge, BridgeAt
  <2>3. tokens' \in [held : SUBSET Bridges, expired : SUBSET Bridges] /\ threads' \subseteq Bridges
    BY <1>4, <2>1 DEF SpawnBridge
  <2>4. control' \in [stop : BOOLEAN, at : ControlAt, ioc : {"none", "set", "stopped"},
                      relay : Bridges \cup {"none"}]
    BY <1>4 DEF SpawnBridge, ControlAt
  <2> QED
    BY <1>4, <2>2, <2>3, <2>4 DEF SpawnBridge
<1>5. CASE ReadsEnd
  BY <1>5 DEF ReadsEnd, ControlAt
<1>6. CASE ConnectionLost
  BY <1>6 DEF ConnectionLost, ControlAt
<1>7. CASE ControlClears
  <2>1. control' \in [stop : BOOLEAN, at : ControlAt, ioc : {"none", "set", "stopped"},
                      relay : Bridges \cup {"none"}]
    BY <1>7 DEF ControlClears, ControlAt
  <2> QED
    BY <1>7, <2>1 DEF ControlClears, ControlAt
<1>8. CASE ControlWaits
  BY <1>8 DEF ControlWaits, ControlAt
<1>9. CASE Heartbeat
  <2>1. client' \in [stop : BOOLEAN, at : ClientAt]
    BY <1>9 DEF Heartbeat, CollectSessions, PostHeartbeat, HeartbeatWaits, ClientMoves, ClientAt
  <2> QED
    BY <1>9, <2>1 DEF Heartbeat, CollectSessions, PostHeartbeat, HeartbeatWaits, ClientMoves
<1> QED
  BY <1>1, <1>2, <1>3, <1>4, <1>5, <1>6, <1>7, <1>8, <1>9 DEF Control

LEMMA BridgeMovesTo ==
    ASSUME TypeOK, NEW b \in Bridges, Bridge(b) \/ BridgeBreaks(b)
    PROVE  \E x \in [at : BridgeAt, ioc : {"none", "set", "stopped"}] :
              /\ bridge' = [bridge EXCEPT ![b] = x] /\ x.at # "pipes" /\ x.at # "none"
              /\ bridge[b].at \notin {"none", "done"}
              /\ UNCHANGED <<config, at, server, stopArgs, sessions, control, threads, tokens, client>>
<1>0. bridge[b] \in [at : BridgeAt, ioc : {"none", "set", "stopped"}]
  BY DEF TypeOK
<1>1. ASSUME NEW from \in BridgeAt \ {"none", "done"}, NEW to \in BridgeAt \ {"pipes", "none"},
             BridgeMoves(b, from, to)
      PROVE  \E x \in [at : BridgeAt, ioc : {"none", "set", "stopped"}] :
              /\ bridge' = [bridge EXCEPT ![b] = x] /\ x.at # "pipes" /\ x.at # "none"
              /\ bridge[b].at \notin {"none", "done"}
              /\ UNCHANGED <<config, at, server, stopArgs, sessions, control, threads, tokens, client>>
  <2> DEFINE x == [bridge[b] EXCEPT !.at = to]
  <2>1. x \in [at : BridgeAt, ioc : {"none", "set", "stopped"}] /\ x.at = to
    BY <1>0
  <2>2. bridge' = [bridge EXCEPT ![b] = x]
    BY <1>1 DEF BridgeMoves
  <2> HIDE DEF x
  <2> QED
    BY <1>1, <2>1, <2>2 DEF BridgeMoves
<1>2. CASE BridgeRegisters(b)
  <2>1. [at |-> "hub", ioc |-> "set"] \in [at : BridgeAt, ioc : {"none", "set", "stopped"}]
    BY DEF BridgeAt
  <2> QED
    BY <1>2, <2>1 DEF BridgeRegisters
<1>3. CASE BridgeUnregisters(b)
  <2>1. [at |-> "done", ioc |-> "none"] \in [at : BridgeAt, ioc : {"none", "set", "stopped"}]
    BY DEF BridgeAt
  <2> QED
    BY <1>3, <2>1 DEF BridgeUnregisters
<1>4. CASE BridgeReachesHub(b)
  BY <1>1, <1>4 DEF BridgeReachesHub, Connect, BridgeAt
<1>5. CASE BridgeRefused(b) \/ BridgeBreaks(b) \/ PipeIsStopped(b)
  BY <1>1, <1>5 DEF BridgeRefused, BridgeBreaks, PipeIsStopped, BridgeAt
<1> QED
  BY <1>2, <1>3, <1>4, <1>5 DEF Bridge

LEMMA TypeBridge ==
    ASSUME TypeOK, NEW b \in Bridges,
           ServeUpgrade(b) \/ RelayRequested(b) \/ Bridge(b) \/ BridgeBreaks(b) \/ TokenExpires(b)
    PROVE  TypeOK'
<1>1. CASE ServeUpgrade(b)
  <2>1. bridge' \in [Bridges -> [at : BridgeAt, ioc : {"none", "set", "stopped"}]]
    BY <1>1 DEF ServeUpgrade, TypeOK, BridgeAt
  <2>2. tokens' \in [held : SUBSET Bridges, expired : SUBSET Bridges]
    BY <1>1 DEF ServeUpgrade, Consumed, TypeOK
  <2> QED
    BY <1>1, <2>1, <2>2 DEF ServeUpgrade, TypeOK
<1>2. CASE RelayRequested(b)
  <2>1. control' \in [stop : BOOLEAN, at : ControlAt, ioc : {"none", "set", "stopped"},
                      relay : Bridges \cup {"none"}]
    BY <1>2 DEF RelayRequested, controlOthers, TypeOK, ControlAt
  <2> QED
    BY <1>2, <2>1 DEF RelayRequested, controlOthers, TypeOK, ControlAt
<1>3. CASE Bridge(b) \/ BridgeBreaks(b)
  BY <1>3, BridgeMovesTo DEF TypeOK
<1>4. CASE TokenExpires(b)
  BY <1>4 DEF TokenExpires, TypeOK
<1> QED
  BY <1>1, <1>2, <1>3, <1>4

LEMMA TypeNext == TypeOK /\ RelayOK /\ [Next]_vars => TypeOK'
<1>1. ASSUME TypeOK, UNCHANGED vars PROVE TypeOK'
  BY <1>1 DEF TypeOK, vars
<1> QED
  BY <1>1, TypeMain, TypeSignal, TypeControl, TypeBridge DEF Next
-------------------------------------------------------------------------------
\* The relays: a token is issued before its bridge runs and is used up before the
\* bridge pipes; and a bridge that runs can be joined.
RelaysOK == RelayOK /\ OneUse /\ ThreadsKnown

LEMMA RelaysHub ==
    ASSUME TypeOK, RelaysOK, NEW c \in Callers, HubStops(c)
    PROVE  RelaysOK'
<1> USE DEF RelaysOK
<1>1. CASE MarkStop(c)
  BY <1>1 DEF MarkStop, TypeOK, RelayOK, OneUse, ThreadsKnown
<1>2. CASE StopIocs(c)
  <2>1. \A b \in Bridges : bridge'[b].at = bridge[b].at
    BY <1>2 DEF StopIocs, TypeOK
  <2> QED
    BY <1>2, <2>1 DEF StopIocs, RelayOK, OneUse, ThreadsKnown
<1>3. CASE JoinControl(c)
  BY <1>3 DEF JoinControl, TypeOK, RelayOK, OneUse, ThreadsKnown
<1>4. CASE JoinBridges(c)
  BY <1>4 DEF JoinBridges, TypeOK, RelayOK, OneUse, ThreadsKnown
<1>5. CASE MarkClient(c) \/ JoinClient(c)
  BY <1>5 DEF MarkClient, JoinClient, RelayOK, OneUse, ThreadsKnown
<1> QED
  BY <1>1, <1>2, <1>3, <1>4, <1>5 DEF HubStops

LEMMA RelaysBridge ==
    ASSUME TypeOK, RelaysOK, NEW b \in Bridges,
           ServeUpgrade(b) \/ RelayRequested(b) \/ Bridge(b) \/ BridgeBreaks(b) \/ TokenExpires(b)
    PROVE  RelaysOK'
<1> USE DEF RelaysOK
<1>1. CASE ServeUpgrade(b)
  <2>1. /\ bridge[b].at = "local" /\ bridge'[b].at \in {"pipes", "leaves"}
        /\ bridge'[b].at = "pipes" => tokens' = Consumed(b)
        /\ \A r \in Bridges \ {b} : bridge'[r] = bridge[r]
        /\ control' = control /\ threads' = threads
    BY <1>1 DEF ServeUpgrade, TypeOK
  <2>2. tokens'.held \subseteq tokens.held /\ (tokens' = Consumed(b) => b \notin tokens'.held)
    <3>1. Consumed(b).held = tokens.held \ {b}
      BY DEF Consumed, TypeOK
    <3>2. tokens' = Consumed(b) \/ tokens' = tokens
      BY <1>1 DEF ServeUpgrade
    <3> QED
      BY <3>1, <3>2
  <2> QED
    BY <2>1, <2>2 DEF RelayOK, OneUse, ThreadsKnown
<1>2. CASE RelayRequested(b)
  BY <1>2 DEF RelayRequested, controlOthers, TypeOK, RelayOK, OneUse, ThreadsKnown
<1>3. CASE Bridge(b) \/ BridgeBreaks(b)
  <2>1. PICK x : /\ bridge' = [bridge EXCEPT ![b] = x] /\ x.at # "pipes" /\ x.at # "none"
                 /\ bridge[b].at \notin {"none", "done"}
                 /\ UNCHANGED <<control, threads, tokens>>
    BY <1>3, BridgeMovesTo
  <2>2. bridge'[b] = x /\ \A r \in Bridges \ {b} : bridge'[r] = bridge[r]
    BY <2>1 DEF TypeOK
  <2> QED
    BY <2>1, <2>2 DEF RelayOK, OneUse, ThreadsKnown
<1>4. CASE TokenExpires(b)
  BY <1>4 DEF TokenExpires, TypeOK, RelayOK, OneUse, ThreadsKnown
<1> QED
  BY <1>1, <1>2, <1>3, <1>4

LEMMA RelaysNext == TypeOK /\ RelaysOK /\ [Next]_vars => RelaysOK'
<1> SUFFICES ASSUME TypeOK, RelaysOK, [Next]_vars PROVE RelaysOK'
  OBVIOUS
<1> USE DEF RelaysOK
<1>1. CASE UNCHANGED <<control, bridge, threads, tokens>>
  BY <1>1 DEF RelayOK, OneUse, ThreadsKnown
<1>2. CASE StartControl
  BY <1>2 DEF StartControl, TypeOK, RelayOK, OneUse, ThreadsKnown
<1>3. CASE SpawnBridge
  <2>1. /\ control.relay \in Bridges /\ bridge[control.relay].at = "none"
        /\ control'.at = "reads" /\ threads' = threads \cup {control.relay}
        /\ tokens'.held = tokens.held \cup {control.relay}
    BY <1>3 DEF SpawnBridge, TypeOK, RelayOK
  <2>2. /\ bridge'[control.relay].at = "spawned"
        /\ \A r \in Bridges \ {control.relay} : bridge'[r] = bridge[r]
    BY <1>3, <2>1 DEF SpawnBridge, TypeOK
  <2> QED
    BY <2>1, <2>2 DEF RelayOK, OneUse, ThreadsKnown
<1>4. CASE (Control /\ ~SpawnBridge) \/ ConnectionLost
  <2>1. control'.at # "spawns" /\ UNCHANGED <<bridge, threads, tokens>>
    BY <1>4, ZenonT(60) DEF Control, ControlTurn, ControlConnects, Connect, ControlInventory, ReadsEnd,
       ControlClears, ControlWaits, ConnectionLost, controlOthers, TypeOK
  <2> QED
    BY <2>1 DEF RelayOK, OneUse, ThreadsKnown
<1>5. CASE HubStops("main") \/ HubStops("signal")
  BY <1>5, RelaysHub DEF Callers
<1>6. CASE Heartbeat
  BY <1>1, <1>6 DEF Heartbeat, CollectSessions, PostHeartbeat, HeartbeatWaits, ClientMoves
<1>7. CASE Main /\ ~StartControl /\ ~HubStops("main")
  BY <1>1, <1>7 DEF Main, RunBegins, RunResets, RunBinds, StartClient, ServeShutdown, RunEnds,
     RunForgets, RunReturns, WakeSignal, JoinSignal, Destroy, hubVars
<1>8. CASE RunFails \/ ServeCreate \/ SignalArrives \/ StopEnters \/ StopTriggers
  BY <1>1, <1>8 DEF RunFails, ServeCreate, SignalArrives, StopEnters, StopTriggers, hubVars
<1>9. CASE UNCHANGED vars
  BY <1>1, <1>9 DEF vars
<1> QED
  BY <1>2, <1>3, <1>4, <1>5, <1>6, <1>7, <1>8, <1>9, RelaysBridge DEF Next, Signal
-------------------------------------------------------------------------------
LEMMA SignalFirstNext ==
    ASSUME TypeOK, SignalFirst, [Next]_vars
    PROVE  SignalFirst'
<1>a. ASSUME UNCHANGED <<at, server, sessions>> PROVE SignalFirst'
  BY <1>a DEF SignalFirst
<1>1. CASE HubStops("main")
  <2>1. at'.signal = at.signal /\ at.main \in HubStop /\ UNCHANGED <<server, sessions>>
    BY <1>1, HubStopsGo DEF Callers, HubStops, MarkStop, StopIocs, JoinControl, JoinBridges,
       MarkClient, JoinClient
  <2> QED
    BY <2>1 DEF SignalFirst, AfterRun
<1>2. CASE HubStops("signal")
  <2>1. at'.main = at.main /\ at.signal \in HubStop /\ UNCHANGED <<server, sessions>>
    BY <1>2, HubStopsGo DEF Callers, HubStops, MarkStop, StopIocs, JoinControl, JoinBridges,
       MarkClient, JoinClient
  <2> QED
    BY <2>1 DEF SignalFirst, HubStop
<1>3. CASE RunBegins \/ RunResets \/ RunBinds \/ RunFails \/ StartClient \/ StartControl
  <2>1. /\ at'.signal = at.signal /\ at'.main \notin AfterRun /\ sessions' = sessions
        /\ server'.posted = server.posted /\ (server'.io = "stopped" => server.io = "stopped")
    <3>1. CASE RunBegins
      BY <3>1 DEF RunBegins, Goes, TypeOK, AfterRun, HubStop
    <3>2. CASE RunResets
      BY <3>2 DEF RunResets, Goes, TypeOK, AfterRun, HubStop
    <3>3. CASE RunBinds
      BY <3>3 DEF RunBinds, ListenersOpen, Goes, TypeOK, AfterRun, HubStop
    <3>4. CASE RunFails
      BY <3>4 DEF RunFails, Goes, TypeOK, AfterRun, HubStop
    <3>5. CASE StartClient \/ StartControl
      BY <3>5 DEF StartClient, StartControl, Goes, TypeOK, AfterRun, HubStop
    <3> QED
      BY <1>3, <3>1, <3>2, <3>3, <3>4, <3>5
  <2> QED
    BY <2>1 DEF SignalFirst
<1>4. CASE ServeShutdown
  BY <1>4 DEF ServeShutdown, SignalFirst, TypeOK
<1>5. CASE RunEnds
  BY <1>5 DEF RunEnds, SignalFirst, Goes, TypeOK
<1>6. CASE RunForgets \/ RunReturns
  <2>1. /\ at'.signal = at.signal /\ at.main \in AfterRun
    BY <1>6 DEF RunForgets, RunReturns, Goes, TypeOK, AfterRun
  <2> QED
    BY <2>1 DEF SignalFirst
<1>7. CASE WakeSignal \/ JoinSignal \/ Destroy
  <2>1. /\ at'.main \notin AfterRun /\ UNCHANGED <<server, sessions>>
        /\ at.signal = "ended" => at'.signal = "ended"
    BY <1>7 DEF WakeSignal, JoinSignal, Destroy, Goes, TypeOK, AfterRun, HubStop
  <2> QED
    BY <2>1 DEF SignalFirst
<1>8. CASE SignalArrives
  BY <1>8 DEF SignalArrives, SignalFirst, Goes, TypeOK
<1>9. CASE StopEnters
  <2>1. at.signal = "stops" /\ at'.main = at.main /\ sessions' = sessions
        /\ server'.posted = server.posted /\ server'.io = server.io
    BY <1>9 DEF StopEnters, Goes, TypeOK
  <2> QED
    BY <2>1 DEF SignalFirst
<1>10. CASE StopTriggers
  BY <1>10 DEF StopTriggers, SignalFirst, Goes, TypeOK
<1>11. CASE ServeCreate
  BY <1>11 DEF ServeCreate, SignalFirst
<1>12. CASE Control \/ ConnectionLost \/ Heartbeat
  BY <1>12, <1>a DEF Control, ControlTurn, ControlConnects, ControlInventory, SpawnBridge, ReadsEnd,
     ControlClears, ControlWaits, ConnectionLost, controlOthers, Heartbeat, CollectSessions,
     PostHeartbeat, HeartbeatWaits, ClientMoves
<1>13. ASSUME NEW b \in Bridges,
              ServeUpgrade(b) \/ RelayRequested(b) \/ Bridge(b) \/ BridgeBreaks(b) \/ TokenExpires(b)
       PROVE  SignalFirst'
  BY <1>13, <1>a, BridgeMovesTo DEF ServeUpgrade, RelayRequested, TokenExpires, controlOthers
<1>14. CASE UNCHANGED vars
  BY <1>14, <1>a DEF vars
<1> QED
  BY <1>1, <1>2, <1>3, <1>4, <1>5, <1>6, <1>7, <1>8, <1>9, <1>10, <1>11, <1>12, <1>13, <1>14
     DEF Next, Main, Signal
-------------------------------------------------------------------------------
\* What has stopped stays stopped, except for the two steps that start it.
Kept ==
    /\ control.at = "none" => control'.at = "none"
    /\ client.at = "none" => client'.at = "none"
    /\ control.at = "none" /\ threads = {} /\ BridgesQuiet => threads' = {} /\ BridgesQuiet'

LEMMA KeptShape ==
    ASSUME TypeOK, RelaysOK, [Next]_vars, ~StartClient, ~StartControl
    PROVE  Kept
<1>a. ASSUME UNCHANGED hubVars PROVE Kept
  BY <1>a DEF hubVars, Kept, BridgesQuiet
<1>1. ASSUME NEW c \in Callers, HubStops(c) PROVE Kept
  <2>1. CASE StopIocs(c)
    <3>1. \A b \in Bridges : bridge'[b].at = bridge[b].at
      BY <2>1 DEF StopIocs, TypeOK
    <3> QED
      BY <2>1, <3>1 DEF StopIocs, Kept, BridgesQuiet
  <2>2. CASE MarkStop(c)
    BY <2>2 DEF MarkStop, Kept, BridgesQuiet, TypeOK
  <2>3. CASE JoinControl(c)
    BY <2>3 DEF JoinControl, Kept, BridgesQuiet, TypeOK
  <2>4. CASE JoinBridges(c)
    BY <2>4 DEF JoinBridges, Kept, BridgesQuiet, TypeOK
  <2>5. CASE MarkClient(c) \/ JoinClient(c)
    BY <2>5 DEF MarkClient, JoinClient, Kept, BridgesQuiet, TypeOK
  <2> QED
    BY <1>1, <2>1, <2>2, <2>3, <2>4, <2>5 DEF HubStops
<1>2. CASE Control \/ ConnectionLost
  BY <1>2 DEF Control, ControlTurn, ControlConnects, ControlInventory, SpawnBridge, ReadsEnd,
     ControlClears, ControlWaits, ConnectionLost, controlOthers, Kept
<1>3. CASE Heartbeat
  BY <1>3 DEF Heartbeat, CollectSessions, PostHeartbeat, HeartbeatWaits, ClientMoves, Kept, BridgesQuiet
<1>4. ASSUME NEW b \in Bridges, Bridge(b) \/ BridgeBreaks(b) PROVE Kept
  BY <1>4, BridgeMovesTo DEF Kept, BridgesQuiet
<1>5. ASSUME NEW b \in Bridges, ServeUpgrade(b) PROVE Kept
  BY <1>5 DEF ServeUpgrade, Kept, BridgesQuiet
<1>6. ASSUME NEW b \in Bridges, RelayRequested(b) \/ TokenExpires(b) PROVE Kept
  BY <1>6 DEF RelayRequested, TokenExpires, controlOthers, Kept, BridgesQuiet
<1>7. CASE Main /\ ~HubStops("main")
  BY <1>a, <1>7 DEF Main, RunBegins, RunResets, RunBinds, ServeShutdown, RunEnds,
     RunForgets, RunReturns, WakeSignal, JoinSignal, Destroy
<1>8. CASE RunFails \/ ServeCreate \/ SignalArrives \/ StopEnters \/ StopTriggers
  BY <1>a, <1>8 DEF RunFails, ServeCreate, SignalArrives, StopEnters, StopTriggers
<1>9. CASE UNCHANGED vars
  BY <1>a, <1>9 DEF vars, hubVars
<1> QED
  BY <1>1, <1>2, <1>3, <1>4, <1>5, <1>6, <1>7, <1>8, <1>9 DEF Next, Signal, Callers

LEMMA StoppedStays ==
    ASSUME Kept, NEW p, StoppedBy(p)
    PROVE  StoppedBy(p)'
BY DEF Kept, StoppedBy, Later

\* Each step of the hub's Stop adds what it has joined to what is gone for good.
LEMMA HubStopsPast ==
    ASSUME TypeOK, RelaysOK, NEW c \in Callers, HubStops(c), StoppedBy(at[c]), Kept
    PROVE  \E to \in HubStop \cup {"finish", "trigger"} : at' = [at EXCEPT ![c] = to] /\ StoppedBy(to)'
<1>1. CASE MarkStop(c)
  <2>1. at' = [at EXCEPT ![c] = "iocs"] /\ StoppedBy("iocs")'
    BY <1>1 DEF MarkStop, Goes, StoppedBy, Later, Ended
  <2> QED
    BY <2>1 DEF HubStop
<1>2. CASE StopIocs(c)
  <2>1. at' = [at EXCEPT ![c] = "joinControl"] /\ StoppedBy("joinControl")'
    BY <1>2 DEF StopIocs, Goes, StoppedBy, Later, Ended
  <2> QED
    BY <2>1 DEF HubStop
<1>3. CASE JoinControl(c)
  <2>1. at' = [at EXCEPT ![c] = "joinBridges"] /\ control'.at = "none"
    BY <1>3 DEF JoinControl, Goes, TypeOK
  <2>2. StoppedBy("joinBridges")'
    BY <2>1 DEF StoppedBy, Later, Ended
  <2> QED
    BY <2>1, <2>2 DEF HubStop
<1>4. CASE JoinBridges(c)
  <2>1. at' = [at EXCEPT ![c] = "clientMark"] /\ threads' = {} /\ bridge' = bridge
    BY <1>4 DEF JoinBridges, Goes
  <2>2. control'.at = "none"
    BY <1>4 DEF JoinBridges, Goes, StoppedBy
  <2>3. BridgesQuiet'
    BY <1>4 DEF JoinBridges, RelaysOK, ThreadsKnown, BridgesQuiet
  <2>4. StoppedBy("clientMark")'
    BY <2>1, <2>2, <2>3 DEF StoppedBy, Later, Ended
  <2> QED
    BY <2>1, <2>4 DEF HubStop
<1>5. CASE MarkClient(c)
  <2>1. at' = [at EXCEPT ![c] = "clientJoin"] /\ at[c] = "clientMark"
    BY <1>5 DEF MarkClient, Goes
  <2>2. StoppedBy("clientMark")'
    BY <2>1, StoppedStays
  <2>3. StoppedBy("clientJoin")'
    BY <2>2 DEF StoppedBy, Later, Ended
  <2> QED
    BY <2>1, <2>3 DEF HubStop
<1>6. CASE JoinClient(c)
  <2>1. PICK to \in {"finish", "trigger"} : at' = [at EXCEPT ![c] = to]
    BY <1>6 DEF JoinClient, Goes
  <2>2. at[c] = "clientJoin" /\ client'.at = "none"
    BY <1>6 DEF JoinClient, Goes, TypeOK
  <2>3. StoppedBy("clientJoin")'
    BY <2>2, StoppedStays
  <2>4. StoppedBy(to)'
    BY <2>2, <2>3 DEF StoppedBy
  <2> QED
    BY <2>1, <2>4
<1> QED
  BY <1>1, <1>2, <1>3, <1>4, <1>5, <1>6 DEF HubStops

\* A step of another thread leaves the main thread's part of the invariant.
LEMMA MainStays ==
    ASSUME MainOK, Kept, at'.main = at.main, at.main \in Starting => sessions' = sessions,
           server'.discovery = server.discovery, server'.callback = server.callback
    PROVE  MainOK'
<1>1. StoppedBy(at.main)'
  <2>1. ASSUME NEW p, p = at.main PROVE StoppedBy(p)'
    BY <2>1, StoppedStays DEF MainOK
  <2> QED
    BY <2>1 DEF StoppedBy
<1> QED
  BY <1>1 DEF MainOK, Kept

\* Every step but those of the main thread.
NotMain ==
    \/ SignalArrives \/ Signal \/ Control \/ ConnectionLost \/ Heartbeat
    \/ \E b \in Bridges :
        ServeUpgrade(b) \/ RelayRequested(b) \/ Bridge(b) \/ BridgeBreaks(b) \/ TokenExpires(b)

LEMMA NotMainShape ==
    ASSUME TypeOK, NotMain
    PROVE  /\ at'.main = at.main /\ sessions' = sessions
           /\ server'.discovery = server.discovery /\ server'.callback = server.callback
           /\ ~StartClient /\ ~StartControl
<1>1. CASE SignalArrives
  BY <1>1 DEF SignalArrives, Goes, TypeOK, StartClient, StartControl
<1>2. CASE StopEnters
  BY <1>2 DEF StopEnters, Goes, TypeOK, StartClient, StartControl
<1>3. CASE HubStops("signal")
  <2>1. at'.main = at.main /\ UNCHANGED <<server, sessions>> /\ at'.signal # at.signal
    <3>1. at'.main = at.main
      BY <1>3, HubStopsGo DEF Callers
    <3>2. at'.signal # at.signal /\ UNCHANGED <<server, sessions>>
      BY <1>3 DEF HubStops, MarkStop, StopIocs, JoinControl, JoinBridges, MarkClient, JoinClient,
         Goes, TypeOK
    <3> QED
      BY <3>1, <3>2
  <2> QED
    BY <2>1 DEF StartClient, StartControl, Goes, TypeOK
<1>4. CASE StopTriggers
  BY <1>4 DEF StopTriggers, Goes, TypeOK, StartClient, StartControl
<1>5. CASE UNCHANGED <<at, server, sessions>>
  BY <1>5 DEF StartClient, StartControl, Goes, TypeOK
<1>6. CASE Control \/ ConnectionLost \/ Heartbeat
  BY <1>6, <1>5 DEF Control, ControlTurn, ControlConnects, ControlInventory, SpawnBridge, ReadsEnd,
     ControlClears, ControlWaits, ConnectionLost, controlOthers, Heartbeat, CollectSessions,
     PostHeartbeat, HeartbeatWaits, ClientMoves
<1>7. ASSUME NEW b \in Bridges,
              ServeUpgrade(b) \/ RelayRequested(b) \/ Bridge(b) \/ BridgeBreaks(b) \/ TokenExpires(b)
      PROVE  UNCHANGED <<at, server, sessions>>
  BY <1>7, BridgeMovesTo DEF ServeUpgrade, RelayRequested, TokenExpires, controlOthers
<1> QED
  BY <1>1, <1>2, <1>3, <1>4, <1>5, <1>6, <1>7 DEF NotMain, Signal

LEMMA MainNext ==
    ASSUME Inv, [Next]_vars
    PROVE  MainOK'
<1> USE DEF Inv
<1>0. RelaysOK
  BY DEF RelaysOK
<1>1. CASE NotMain
  BY <1>0, <1>1, NotMainShape, KeptShape, MainStays
<1>2. CASE UNCHANGED vars
  BY <1>2 DEF vars, MainOK, StoppedBy, BridgesQuiet
<1>3. CASE RunBegins
  BY <1>3 DEF RunBegins, Goes, hubVars, TypeOK, MainOK, StoppedBy, BridgesQuiet, Starting, Later, Ended
<1>4. CASE RunResets
  <2>1. /\ at.main = "fresh" /\ at'.main = "binding" /\ server'.discovery = server.discovery
        /\ ~server'.callback
    BY <1>4 DEF RunResets, Goes, TypeOK
  <2> QED
    BY <1>4, <2>1 DEF RunResets, hubVars, MainOK, StoppedBy, BridgesQuiet, Starting, Later, Ended
<1>5. CASE RunFails
  <2>1. /\ at.main = "binding" /\ at'.main = "returned" /\ server'.discovery = server.discovery
        /\ ~server'.callback
    BY <1>5, ZenonT(60) DEF RunFails, Goes, TypeOK, MainOK
  <2> QED
    BY <1>5, <2>1 DEF RunFails, hubVars, MainOK, StoppedBy, BridgesQuiet, Starting, Later, Ended
<1>6. CASE RunBinds
  <2>1. at.main = "binding" /\ at'.main = "bound"
    BY <1>6 DEF RunBinds, Goes, TypeOK
  <2> QED
    BY <1>6, <2>1 DEF RunBinds, hubVars, MainOK, StoppedBy, BridgesQuiet, Starting, Later, Ended
<1>7. CASE StartClient
  <2>1. at.main = "bound" /\ at'.main = "clientStarted"
    BY <1>7 DEF StartClient, Goes, TypeOK
  <2> QED
    BY <1>7, <2>1 DEF StartClient, MainOK, StoppedBy, BridgesQuiet, Starting, Later, Ended
<1>8. CASE StartControl
  <2>1. at.main = "clientStarted" /\ at'.main = "running"
    BY <1>8 DEF StartControl, Goes, TypeOK
  <2> QED
    BY <1>8, <2>1 DEF StartControl, MainOK, StoppedBy, BridgesQuiet, Starting, Later, Ended
<1>9. CASE ServeCreate \/ ServeShutdown
  <2>1. at.main = "running" /\ at' = at
    BY <1>9 DEF ServeCreate, ServeShutdown, Serving
  <2> QED
    BY <2>1 DEF MainOK, StoppedBy, Starting, Later, Ended
<1>10. CASE RunEnds
  <2>1. at'.main = "mark"
    BY <1>10 DEF RunEnds, Goes, TypeOK
  <2> QED
    BY <2>1 DEF MainOK, StoppedBy, Starting, Later, Ended
<1>11. CASE HubStops("main")
  <2>1. Kept
    BY <1>0, <1>11, HubStopsGo, KeptShape DEF Callers, StartClient, StartControl, Goes, HubStop, TypeOK
  <2>2. at["main"] = at.main
    BY DEF TypeOK
  <2>3. StoppedBy(at["main"])
    BY <2>2 DEF MainOK
  <2>4. PICK to \in HubStop \cup {"finish", "trigger"} : at' = [at EXCEPT !["main"] = to] /\ StoppedBy(to)'
    BY <1>0, <1>11, <2>1, <2>3, HubStopsPast DEF Callers
  <2>5. at'.main = to /\ to # "reset"
    BY <2>4 DEF TypeOK, HubStop
  <2> QED
    BY <2>4, <2>5 DEF MainOK, StoppedBy, HubStop, Starting, Ended
<1>12. CASE RunForgets
  <2>1. /\ at.main = "finish" /\ at'.main = "reset"
        /\ ~server'.discovery /\ ~server'.callback
    BY <1>12 DEF RunForgets, Goes, TypeOK
  <2> QED
    BY <1>12, <2>1 DEF RunForgets, hubVars, MainOK, StoppedBy, BridgesQuiet, Starting, Later, Ended
<1>13. CASE RunReturns
  <2>1. /\ at.main = "reset" /\ at'.main = "returned"
        /\ server'.discovery = server.discovery /\ server'.callback = server.callback
    BY <1>13 DEF RunReturns, Goes, TypeOK
  <2> QED
    BY <1>13, <2>1 DEF RunReturns, hubVars, MainOK, StoppedBy, BridgesQuiet, Starting, Later, Ended
<1>14. CASE WakeSignal \/ JoinSignal \/ Destroy
  <2>1. at.main \in Ended /\ at'.main \in Ended /\ UNCHANGED <<server, hubVars>>
    BY <1>14 DEF WakeSignal, JoinSignal, Destroy, Goes, TypeOK, Ended
  <2> QED
    BY <2>1 DEF hubVars, MainOK, StoppedBy, BridgesQuiet, Starting, Later, Ended
<1> QED
  BY <1>1, <1>2, <1>3, <1>4, <1>5, <1>6, <1>7, <1>8, <1>9, <1>10, <1>11, <1>12, <1>13, <1>14
     DEF Next, Main, NotMain

LEMMA StartedNext ==
    ASSUME Inv, [Next]_vars
    PROVE  StartedOK'
<1> USE DEF Inv
<1>0. RelaysOK
  BY DEF RelaysOK
<1>a. ASSUME stopArgs' = stopArgs, at.main \notin Starting => at'.main \notin Starting,
             at'.signal = at.signal \/ at.signal = "waits"
      PROVE  StartedOK'
  <2> SUFFICES ASSUME stopArgs.started
               PROVE  /\ at'.main \notin Starting /\ at'.signal \notin {"waits", "stops"}
                      /\ StoppedBy(at.signal)'
    BY <1>a DEF StartedOK
  <2>1. at.main \notin Starting /\ at'.signal = at.signal /\ at.signal \notin {"waits", "stops"}
    BY <1>a DEF StartedOK
  <2>2. Kept
    BY <1>0, <2>1, KeptShape DEF StartClient, StartControl, Goes, Starting, TypeOK
  <2>3. ASSUME NEW p, p = at.signal PROVE StoppedBy(p)'
    BY <2>2, <2>3, StoppedStays DEF StartedOK
  <2> QED
    BY <1>a, <2>1, <2>3 DEF StoppedBy
<1>1. CASE StopEnters
  <2>1. at.signal = "stops" /\ at'.main = at.main
    BY <1>1 DEF StopEnters, Goes, TypeOK
  <2>2. CASE server.stopping
    <3>1. ~stopArgs'.started
      BY <1>1, <2>1, <2>2 DEF StopEnters, StartedOK
    <3> QED
      BY <3>1 DEF StartedOK
  <2>3. CASE ~server.stopping
    <3>1. at'.signal = "mark" /\ (stopArgs'.started => at.main = "running")
      BY <1>1, <2>3 DEF StopEnters, Goes, TypeOK
    <3> QED
      BY <2>1, <3>1 DEF StartedOK, StoppedBy, Later, Ended, Starting
  <2> QED
    BY <2>2, <2>3
<1>2. CASE HubStops("signal")
  <2>1. at'.main = at.main /\ stopArgs' = stopArgs
    BY <1>2, HubStopsGo DEF Callers, HubStops, MarkStop, StopIocs, JoinControl, JoinBridges,
       MarkClient, JoinClient
  <2>2. CASE ~stopArgs.started
    BY <2>1, <2>2 DEF StartedOK
  <2>3. CASE stopArgs.started
    <3>1. Kept
      BY <1>0, <1>2, NotMainShape, KeptShape DEF NotMain, Signal
    <3>2. StoppedBy(at["signal"])
      <4>1. at["signal"] = at.signal
        BY DEF TypeOK
      <4> QED
        BY <2>3, <4>1 DEF StartedOK
    <3>3. PICK to \in HubStop \cup {"finish", "trigger"} :
             at' = [at EXCEPT !["signal"] = to] /\ StoppedBy(to)'
      BY <1>0, <1>2, <3>1, <3>2, HubStopsPast DEF Callers
    <3>4. at'.signal = to
      BY <3>3 DEF TypeOK
    <3> QED
      BY <2>1, <2>3, <3>3, <3>4 DEF StartedOK, StoppedBy, HubStop
  <2> QED
    BY <2>2, <2>3
<1>3. CASE StopTriggers
  <2>1. /\ at.signal = "trigger" /\ at'.signal = "ended" /\ at'.main = at.main
        /\ UNCHANGED <<stopArgs, hubVars>>
    BY <1>3 DEF StopTriggers, Goes, TypeOK
  <2> QED
    BY <2>1 DEF StartedOK, StoppedBy, BridgesQuiet, hubVars, Later
<1>4. CASE NotMain /\ ~Signal
  <2>1. at'.main = at.main
    BY <1>4, NotMainShape
  <2>2. stopArgs' = stopArgs /\ (at'.signal = at.signal \/ at.signal = "waits")
    <3>1. CASE SignalArrives
      BY <3>1 DEF SignalArrives, Goes, TypeOK
    <3>2. CASE Control \/ ConnectionLost \/ Heartbeat
      BY <3>2 DEF Control, ControlTurn, ControlConnects, ControlInventory, SpawnBridge, ReadsEnd,
         ControlClears, ControlWaits, ConnectionLost, controlOthers, Heartbeat, CollectSessions,
         PostHeartbeat, HeartbeatWaits, ClientMoves
    <3>3. ASSUME NEW b \in Bridges,
              ServeUpgrade(b) \/ RelayRequested(b) \/ Bridge(b) \/ BridgeBreaks(b) \/ TokenExpires(b)
          PROVE  UNCHANGED <<at, stopArgs>>
      BY <3>3, BridgeMovesTo DEF ServeUpgrade, RelayRequested, TokenExpires, controlOthers
    <3> QED
      BY <1>4, <3>1, <3>2, <3>3 DEF NotMain
  <2> QED
    BY <1>a, <2>1, <2>2
<1>5. CASE HubStops("main")
  <2>1. /\ at'.signal = at.signal /\ at'.main \in HubStop \cup {"finish"} /\ stopArgs' = stopArgs
    BY <1>5, HubStopsGo DEF Callers, HubStops, MarkStop, StopIocs, JoinControl, JoinBridges,
       MarkClient, JoinClient
  <2> QED
    BY <1>a, <2>1 DEF HubStop, Starting
<1>6. CASE RunFails \/ ServeCreate \/ (Main /\ ~HubStops("main"))
  <2>1. /\ stopArgs' = stopArgs /\ (at.main \notin Starting => at'.main \notin Starting)
        /\ at'.signal = at.signal \/ at.signal = "waits"
    <3>1. CASE WakeSignal
      BY <3>1 DEF WakeSignal, Starting, TypeOK
    <3>2. CASE ServeCreate \/ ServeShutdown
      BY <3>2 DEF ServeCreate, ServeShutdown
    <3>3. CASE /\ RunBegins \/ RunResets \/ RunBinds \/ RunFails \/ StartClient \/ StartControl
      BY <3>3 DEF RunBegins, RunResets, RunBinds, RunFails, StartClient, StartControl,
         Goes, TypeOK, Starting
    <3>4. CASE RunEnds \/ RunForgets \/ RunReturns \/ JoinSignal \/ Destroy
      BY <3>4 DEF RunEnds, RunForgets, RunReturns, JoinSignal, Destroy, Goes, TypeOK, Starting
    <3> QED
      BY <1>6, <3>1, <3>2, <3>3, <3>4 DEF Main
  <2> QED
    BY <1>a, <2>1
<1>7. CASE UNCHANGED vars
  BY <1>7, <1>a DEF vars
<1> QED
  BY <1>1, <1>2, <1>3, <1>4, <1>5, <1>6, <1>7 DEF Next, Signal, NotMain

LEMMA CallbackNext ==
    ASSUME Inv, [Next]_vars
    PROVE  CallbackOK'
<1> USE DEF Inv
<1>a. ASSUME stopArgs' = stopArgs, sessions' = sessions,
             server'.io = "stopped" \/ at'.main \in AfterRun \cup Ended
                 => server.io = "stopped" \/ at.main \in AfterRun \cup Ended \cup Starting
      PROVE  CallbackOK'
  BY <1>a DEF CallbackOK, MainOK
<1>1. CASE StopEnters
  <2>1. /\ at.signal = "stops" /\ at'.main = at.main /\ server'.io = server.io
        /\ sessions' = sessions
        /\ stopArgs' = stopArgs \/ stopArgs'.callback = server.callback
    BY <1>1 DEF StopEnters, Goes, TypeOK
  <2>2. server.io # "stopped" /\ at.main \notin AfterRun
    BY <2>1 DEF SignalFirst
  <2> QED
    BY <2>1, <2>2 DEF CallbackOK, MainOK
<1>2. CASE StopTriggers
  <2>1. /\ at'.main = at.main /\ UNCHANGED <<stopArgs, sessions>>
        /\ stopArgs.callback => server'.io = server.io
    BY <1>2 DEF StopTriggers, Goes, TypeOK
  <2> QED
    BY <2>1 DEF CallbackOK
<1>3. CASE HubStops("signal") \/ HubStops("main")
  <2>1. /\ at.main = at'.main \/ at.main \in HubStop
        /\ UNCHANGED <<server, stopArgs, sessions>>
    BY <1>3, HubStopsGo DEF Callers, HubStops, MarkStop, StopIocs, JoinControl, JoinBridges,
       MarkClient, JoinClient
  <2> QED
    BY <1>a, <2>1 DEF AfterRun
<1>4. CASE SignalArrives
  BY <1>4, <1>a DEF SignalArrives, Goes, TypeOK
<1>5. CASE RunBegins \/ RunResets \/ RunBinds \/ RunFails \/ StartClient \/ StartControl
  <2>1. at.main \in Starting /\ UNCHANGED <<stopArgs, sessions>>
    BY <1>5 DEF RunBegins, RunResets, RunBinds, RunFails, StartClient, StartControl, Goes, TypeOK,
       Starting
  <2> QED
    BY <1>a, <2>1
<1>6. CASE ServeCreate
  BY <1>6 DEF ServeCreate, Serving, CallbackOK, AfterRun, HubStop, Ended
<1>7. CASE ServeShutdown
  BY <1>7 DEF ServeShutdown, CallbackOK
<1>8. CASE RunEnds
  BY <1>8, <1>a DEF RunEnds
<1>9. CASE RunForgets \/ RunReturns \/ WakeSignal \/ JoinSignal \/ Destroy
  <2>1. at.main \in AfterRun \cup Ended /\ UNCHANGED <<stopArgs, sessions>>
    BY <1>9 DEF RunForgets, RunReturns, WakeSignal, JoinSignal, Destroy, Goes, TypeOK, AfterRun, Ended
  <2> QED
    BY <1>a, <2>1
<1>10. CASE Control \/ ConnectionLost \/ Heartbeat
  BY <1>10, <1>a DEF Control, ControlTurn, ControlConnects, ControlInventory, SpawnBridge, ReadsEnd,
     ControlClears, ControlWaits, ConnectionLost, controlOthers, Heartbeat, CollectSessions,
     PostHeartbeat, HeartbeatWaits, ClientMoves
<1>11. ASSUME NEW b \in Bridges,
              ServeUpgrade(b) \/ RelayRequested(b) \/ Bridge(b) \/ BridgeBreaks(b) \/ TokenExpires(b)
       PROVE  CallbackOK'
  <2>1. UNCHANGED <<at, server, stopArgs, sessions>>
    BY <1>11, BridgeMovesTo DEF ServeUpgrade, RelayRequested, TokenExpires, controlOthers
  <2> QED
    BY <1>a, <2>1
<1>12. CASE UNCHANGED vars
  BY <1>12, <1>a DEF vars
<1> QED
  BY <1>1, <1>2, <1>3, <1>4, <1>5, <1>6, <1>7, <1>8, <1>9, <1>10, <1>11, <1>12 DEF Next, Main, Signal
-------------------------------------------------------------------------------
LEMMA InvInit == Init => Inv
<1> SUFFICES ASSUME Init PROVE Inv
  OBVIOUS
<1>1. TypeOK
  BY TypeInit
<1>2. RelayOK /\ OneUse /\ ThreadsKnown
  BY DEF Init, RelayOK, OneUse, ThreadsKnown
<1>3. SignalFirst /\ MainOK /\ StartedOK /\ CallbackOK
  BY DEF Init, SignalFirst, MainOK, StartedOK, CallbackOK, AfterRun, HubStop, StoppedBy, BridgesQuiet,
     Later, Ended, Starting
<1> QED
  BY <1>1, <1>2, <1>3 DEF Inv

LEMMA InvNext == Inv /\ [Next]_vars => Inv'
<1> SUFFICES ASSUME Inv, [Next]_vars PROVE Inv'
  OBVIOUS
<1>1. TypeOK'
  BY TypeNext DEF Inv
<1>2. RelaysOK'
  BY RelaysNext DEF Inv, RelaysOK
<1>3. SignalFirst'
  BY SignalFirstNext DEF Inv
<1>4. MainOK' /\ StartedOK' /\ CallbackOK'
  BY MainNext, StartedNext, CallbackNext
<1> QED
  BY <1>1, <1>2, <1>3, <1>4 DEF Inv, RelaysOK

\* Every reachable state of the daemon's threads is well typed.
THEOREM TypeCorrect == Spec => []TypeOK
<1>1. Inv => TypeOK
  BY DEF Inv
<1> QED
  BY <1>1, InvInit, InvNext, PTL DEF Spec

\* A relay token opens one observer socket, for any number of relays.
THEOREM TokensAreUsedOnce == Spec => []OneUse
<1>1. Inv => OneUse
  BY DEF Inv
<1> QED
  BY <1>1, InvInit, InvNext, PTL DEF Spec

\* The signal thread and the main thread never join the hub's threads together.
THEOREM JoinersAlternate == Spec => []OneJoiner
<1>1. Inv => OneJoiner
  BY DEF Inv, SignalFirst, OneJoiner, AfterRun, HubStop
<1> QED
  BY <1>1, InvInit, InvNext, PTL DEF Spec

\* When Run has returned no thread is left, whatever the moment of the signal, and
\* a Stop of a started server ends the hub before the sessions.
THEOREM StopLeavesNothing == Spec => []QuietInTheEnd
<1>1. Inv => QuietInTheEnd
  <2> SUFFICES ASSUME Inv PROVE QuietInTheEnd
    OBVIOUS
  <2>1. at.main \in Ended => /\ HubIsStopped /\ threads = {} /\ ~server.discovery
                             /\ stopArgs.callback => sessions # "live"
    BY DEF Inv, MainOK, StoppedBy, Later, BridgesQuiet, HubIsStopped, CallbackOK
  <2>2. stopArgs.started /\ sessions = "shut" => HubIsStopped
    BY DEF Inv, SignalFirst, StartedOK, StoppedBy, Later, BridgesQuiet, HubIsStopped
  <2> QED
    BY <2>1, <2>2 DEF QuietInTheEnd
<1> QED
  BY <1>1, InvInit, InvNext, PTL DEF Spec
=================================================================================
