--------------------------- MODULE ServerLifecycle ---------------------------
(***************************************************************************)
(* Starting and stopping the daemon. The main thread runs HttpServer::Run  *)
(* and is the io thread while io_context_->run() lasts. Beside it:         *)
(*   - the signal thread of `sentrits serve`, which waits for one signal   *)
(*     and calls HttpServer::Stop;                                         *)
(*   - the heartbeat thread of HubClient;                                  *)
(*   - the control thread of HubControlChannel, which keeps a connection   *)
(*     to the hub and spawns a bridge thread for each relay it is asked    *)
(*     for;                                                                *)
(*   - the bridge threads, each between the hub and an observer socket of  *)
(*     this server, which they open with a relay token.                    *)
(*                                                                         *)
(* Stop is run by the signal thread, and its hub part again by the main    *)
(* thread when the io context has stopped. Each region under a mutex and   *)
(* each blocking call is a step; `at` says where the two threads are.      *)
(*                                                                         *)
(* Abstractions. The hub is nondeterminism: a connection comes about or    *)
(* not, breaks at any time, and a message is a request for a relay. A      *)
(* token expires at some moment. All sessions are one value.               *)
(***************************************************************************)
EXTENDS Integers, FiniteSets

CONSTANT Bridges    \* bound: the relays the hub asks for

VARIABLES
    config,     \* what the remote listener speaks, whether a bridge speaks TLS to it,
                \* whether the address of the hub can be parsed
    at,         \* where the main thread and the signal thread are
    server,     \* stopping_, stop_callback_, io_context_ and what is queued in it
    stopArgs,   \* what Stop copied under state_mutex_: the callback, the io context;
                \* started: whether Run had started everything by then (history)
    sessions,   \* the programs of the sessions
    control,    \* HubControlChannel: stop_, the control thread, current_ioc_
    bridge,     \* per relay: its thread and its io context
    threads,    \* bridge_threads_
    tokens,     \* RelayTokenStore: tokens in it, and those of them that expired
    client      \* HubClient: stop_ and the heartbeat thread

vars == <<config, at, server, stopArgs, sessions, control, bridge, threads, tokens, client>>

Callers == {"main", "signal"}

\* The steps of HubControlChannel::Stop and HubClient::Stop.
HubStop == {"mark", "iocs", "joinControl", "joinBridges", "clientMark", "clientJoin"}

Starting == {"created", "fresh", "binding", "bound", "clientStarted"}
Ended == {"returned", "joining", "destroying", "done"}

MainAt == Starting \cup {"running", "finish", "reset"} \cup HubStop \cup Ended
SignalAt == {"waits", "stops", "trigger", "ended"} \cup HubStop

ControlAt == {"none", "checks", "connects", "asks", "reads", "spawns", "clears", "waits", "done"}
BridgeAt == {"none", "spawned", "hub", "local", "pipes", "leaves", "done"}
ClientAt == {"none", "sends", "posts", "sleeps", "done"}

\* Type invariant: where every thread is and what it has.
TypeOK ==
    /\ config \in [listener : {"off", "on", "invalid"}, bridge : BOOLEAN, hub : BOOLEAN]
    /\ at \in [main : MainAt, signal : SignalAt]
    /\ server \in [stopping : BOOLEAN, callback : BOOLEAN, io : {"none", "made", "stopped"},
                   posted : BOOLEAN, open : BOOLEAN, discovery : BOOLEAN]
    /\ stopArgs \in [callback : BOOLEAN, io : BOOLEAN, started : BOOLEAN]
    /\ sessions \in {"none", "live", "shut"}
    /\ control \in [stop : BOOLEAN, at : ControlAt, ioc : {"none", "set", "stopped"},
                    relay : Bridges \cup {"none"}]
    /\ bridge \in [Bridges -> [at : BridgeAt, ioc : {"none", "set", "stopped"}]]
    /\ threads \subseteq Bridges
    /\ tokens \in [held : SUBSET Bridges, expired : SUBSET Bridges]
    /\ client \in [stop : BOOLEAN, at : ClientAt]

\* Certificate and key, from the command line or else from the host configuration.
ResolveRemoteTlsConfig(override, stored) ==
    LET files == IF override # "absent" THEN override ELSE stored
    IN  CASE files = "both" -> "on" [] files = "one" -> "invalid" [] OTHER -> "off"

\* EnableHubControlChannel asks the command line alone.
Init ==
    /\ \E override \in {"absent", "one", "both"}, stored \in {"neither", "one", "both"},
          url \in BOOLEAN :
          config = [listener |-> ResolveRemoteTlsConfig(override, stored),
                    bridge |-> override # "absent", hub |-> url]
    /\ at = [main |-> "created", signal |-> "waits"]
    /\ server = [stopping |-> FALSE, callback |-> FALSE, io |-> "none",
                 posted |-> FALSE, open |-> FALSE, discovery |-> FALSE]
    /\ stopArgs = [callback |-> FALSE, io |-> FALSE, started |-> FALSE]
    /\ sessions = "none"
    /\ control = [stop |-> FALSE, at |-> "none", ioc |-> "none", relay |-> "none"]
    /\ bridge = [b \in Bridges |-> [at |-> "none", ioc |-> "none"]]
    /\ threads = {}
    /\ tokens = [held |-> {}, expired |-> {}]
    /\ client = [stop |-> FALSE, at |-> "none"]

hubVars == <<control, bridge, threads, tokens, client, config>>

Goes(c, from, to) == at[c] = from /\ at' = [at EXCEPT ![c] = to]
-------------------------------------------------------------------------------
(* HttpServer::Run up to io_context_->run() *)

RunBegins ==
    /\ Goes("main", "created", "fresh")
    /\ server' = [server EXCEPT !.io = "made"]
    /\ UNCHANGED <<stopArgs, sessions, hubVars>>

RunResets ==
    /\ Goes("main", "fresh", "binding")
    /\ server' = [server EXCEPT !.stopping = FALSE, !.callback = FALSE]
    /\ UNCHANGED <<stopArgs, sessions, hubVars>>

\* A configuration that is not usable, or a port that cannot be bound.
RunFails ==
    /\ Goes("main", "binding", "returned")
    /\ \/ config.listener = "invalid" /\ UNCHANGED server
       \/ /\ config.listener # "invalid"
          /\ server' = [server EXCEPT !.stopping = FALSE, !.callback = FALSE, !.io = "none"]
    /\ UNCHANGED <<stopArgs, sessions, hubVars>>

\* HttpListener or HttpsListener: both bind, or the constructor throws.
ListenersOpen(s) == [s EXCEPT !.open = TRUE]

RunBinds ==
    /\ config.listener # "invalid"
    /\ Goes("main", "binding", "bound")
    /\ server' = [ListenersOpen(server) EXCEPT !.discovery = TRUE, !.callback = TRUE]
    /\ UNCHANGED <<stopArgs, sessions, hubVars>>

StartClient ==
    /\ Goes("main", "bound", "clientStarted")
    /\ client' = [stop |-> FALSE, at |-> "sends"]
    /\ UNCHANGED <<config, server, stopArgs, sessions, control, bridge, threads, tokens>>

StartControl ==
    /\ Goes("main", "clientStarted", "running")
    /\ control' = IF control.at = "none" THEN [control EXCEPT !.stop = FALSE, !.at = "checks"]
                  ELSE control
    /\ UNCHANGED <<config, server, stopArgs, sessions, bridge, threads, tokens, client>>
-------------------------------------------------------------------------------
(* The io thread *)

Serving == at.main = "running" /\ server.io = "made"

\* A session is created by one of the routes.
ServeCreate ==
    /\ Serving /\ sessions = "none"
    /\ sessions' = "live"
    /\ UNCHANGED <<at, server, stopArgs, hubVars>>

\* Mutant: only a token that is refused is taken out.
ConsumedIfRefused(b) ==
    IF b \in tokens.expired THEN [tokens EXCEPT !.held = @ \ {b}, !.expired = @ \ {b}] ELSE tokens

\* RelayTokenStore::ConsumeIfValid: gone whatever the answer is.
Consumed(b) == [tokens EXCEPT !.held = @ \ {b}, !.expired = @ \ {b}]

\* DoAccept of the remote listener.
Accepts == Serving /\ server.open

\* HttpSession::Start: the handshake of a bridge is understood.
Understands == config.bridge = (config.listener = "on")

\* WebSocketSession::Start: as a device token it would be refused.
Authorised(b) == b \in tokens.held \ tokens.expired

\* The observer socket of a bridge: upgraded with its token, or refused.
ServeUpgrade(b) ==
    /\ Accepts /\ bridge[b].at = "local"
    /\ bridge' = [bridge EXCEPT ![b].at =
                    IF Understands /\ Authorised(b) THEN "pipes" ELSE "leaves"]
    /\ tokens' = IF Understands THEN Consumed(b) ELSE tokens
    /\ UNCHANGED <<config, at, server, stopArgs, sessions, control, threads, client>>

\* What stop_callback_ posted: everything is closed and the sessions are shut down.
ServeShutdown ==
    /\ Serving /\ server.posted
    /\ server' = [server EXCEPT !.posted = FALSE, !.open = FALSE, !.discovery = FALSE,
                                !.io = "stopped"]
    /\ sessions' = "shut"
    /\ UNCHANGED <<at, stopArgs, hubVars>>

RunEnds ==
    /\ server.io = "stopped"
    /\ Goes("main", "running", "mark")
    /\ UNCHANGED <<server, stopArgs, sessions, hubVars>>
-------------------------------------------------------------------------------
(* HttpServer::Stop on the signal thread *)

SignalArrives ==
    /\ Goes("signal", "waits", "stops")
    /\ UNCHANGED <<server, stopArgs, sessions, hubVars>>

\* Mutant: the shutdown is triggered first, and the hub stopped while it runs.
StopTriggersFirst ==
    /\ Goes("signal", "stops", IF server.stopping THEN "ended" ELSE "mark")
    /\ server' = [server EXCEPT !.stopping = TRUE, !.posted = @ \/ server.callback]
    /\ stopArgs' = [callback |-> FALSE, io |-> FALSE, started |-> at.main = "running"]
    /\ UNCHANGED <<sessions, hubVars>>

StopEnters ==
    /\ Goes("signal", "stops", IF server.stopping THEN "ended" ELSE "mark")
    /\ server' = [server EXCEPT !.stopping = TRUE]
    /\ stopArgs' = IF server.stopping THEN stopArgs
                   ELSE [callback |-> server.callback, io |-> server.io # "none",
                         started |-> at.main = "running"]
    /\ UNCHANGED <<sessions, hubVars>>

StopTriggers ==
    /\ Goes("signal", "trigger", "ended")
    /\ server' = [server EXCEPT
                    !.posted = @ \/ stopArgs.callback,
                    !.io = IF ~stopArgs.callback /\ stopArgs.io /\ @ = "made" THEN "stopped" ELSE @]
    /\ UNCHANGED <<stopArgs, sessions, hubVars>>
-------------------------------------------------------------------------------
(* HubControlChannel::Stop and HubClient::Stop, on either thread *)

MarkStop(c) ==
    /\ Goes(c, "mark", "iocs")
    /\ control' = [control EXCEPT !.stop = TRUE, !.ioc = IF @ = "set" THEN "stopped" ELSE @]
    /\ UNCHANGED <<config, server, stopArgs, sessions, bridge, threads, tokens, client>>

StopIocs(c) ==
    /\ Goes(c, "iocs", "joinControl")
    /\ bridge' = [b \in Bridges |-> IF bridge[b].ioc = "set" THEN [bridge[b] EXCEPT !.ioc = "stopped"]
                                    ELSE bridge[b]]
    /\ UNCHANGED <<config, server, stopArgs, sessions, control, threads, tokens, client>>

JoinControl(c) ==
    /\ Goes(c, "joinControl", "joinBridges")
    /\ control.at \in {"none", "done"}
    /\ control' = [control EXCEPT !.at = "none"]
    /\ UNCHANGED <<config, server, stopArgs, sessions, bridge, threads, tokens, client>>

\* Mutant: the threads are only joined when they have left already.
OnlyFinishedJoined(c) ==
    /\ Goes(c, "joinBridges", "clientMark")
    /\ threads' = {}
    /\ UNCHANGED <<config, server, stopArgs, sessions, control, bridge, tokens, client>>

\* Nothing adds to bridge_threads_ any more, so taking them out and joining them is one step.
JoinBridges(c) ==
    /\ Goes(c, "joinBridges", "clientMark")
    /\ \A b \in threads : bridge[b].at = "done"
    /\ threads' = {}
    /\ UNCHANGED <<config, server, stopArgs, sessions, control, bridge, tokens, client>>

MarkClient(c) ==
    /\ Goes(c, "clientMark", "clientJoin")
    /\ client' = [client EXCEPT !.stop = TRUE]
    /\ UNCHANGED <<config, server, stopArgs, sessions, control, bridge, threads, tokens>>

JoinClient(c) ==
    /\ Goes(c, "clientJoin", IF c = "main" THEN "finish" ELSE "trigger")
    /\ client.at \in {"none", "done"}
    /\ client' = [client EXCEPT !.at = "none"]
    /\ UNCHANGED <<config, server, stopArgs, sessions, control, bridge, threads, tokens>>

HubStops(c) ==
    \/ MarkStop(c) \/ StopIocs(c) \/ JoinControl(c) \/ JoinBridges(c)
    \/ MarkClient(c) \/ JoinClient(c)
-------------------------------------------------------------------------------
(* The main thread after the io context has stopped *)

\* The callback is dropped, and with it the listeners and the broadcaster.
RunForgets ==
    /\ Goes("main", "finish", "reset")
    /\ server' = [server EXCEPT !.callback = FALSE, !.stopping = FALSE,
                                !.open = FALSE, !.discovery = FALSE]
    /\ UNCHANGED <<stopArgs, sessions, hubVars>>

RunReturns ==
    /\ Goes("main", "reset", "returned")
    /\ server' = [server EXCEPT !.io = "none"]
    /\ UNCHANGED <<stopArgs, sessions, hubVars>>

\* A signal thread that still waits is woken, and stops a server that has stopped.
WakeSignal ==
    /\ at.main = "returned"
    /\ at' = [main |-> "joining", signal |-> IF at.signal = "waits" THEN "stops" ELSE at.signal]
    /\ UNCHANGED <<server, stopArgs, sessions, hubVars>>

JoinSignal ==
    /\ at.signal = "ended"
    /\ Goes("main", "joining", "destroying")
    /\ UNCHANGED <<server, stopArgs, sessions, hubVars>>

\* ~HttpServer stops once more, and finds nothing to join.
Destroy ==
    /\ Goes("main", "destroying", "done")
    /\ control.at = "none" /\ client.at = "none" /\ threads = {}
    /\ UNCHANGED <<server, stopArgs, sessions, hubVars>>
-------------------------------------------------------------------------------
(* The control thread, HubControlChannel::RunControlLoop *)

controlOthers == <<config, at, server, stopArgs, sessions, bridge, client>>

ControlTurn ==
    /\ control.at = "checks"
    /\ control' = IF control.stop \/ ~config.hub THEN [control EXCEPT !.at = "done"]
                  ELSE [control EXCEPT !.at = "connects", !.ioc = "set"]
    /\ UNCHANGED <<controlOthers, threads, tokens>>

\* ConnectWss: blocking calls, which Stop does not interrupt.
Connect(connected, failed) == {connected, failed}

ControlConnects ==
    /\ control.at = "connects"
    /\ \E to \in Connect("asks", "clears") : control' = [control EXCEPT !.at = to]
    /\ UNCHANGED <<controlOthers, threads, tokens>>

\* The inventory is asked of the io thread, for at most two seconds, and sent.
ControlInventory ==
    /\ control.at = "asks"
    /\ control' = [control EXCEPT !.at = "reads"]
    /\ UNCHANGED <<controlOthers, threads, tokens>>

\* relay.requested, before Stop has been called.
RelayRequested(b) ==
    /\ control.at = "reads" /\ control.ioc = "set" /\ ~control.stop
    /\ bridge[b].at = "none" /\ b \notin threads
    /\ control' = [control EXCEPT !.at = "spawns", !.relay = b]
    /\ UNCHANGED <<controlOthers, threads, tokens>>

\* Stop may have been called since stop_ was read.
SpawnBridge ==
    /\ control.at = "spawns"
    /\ tokens' = [tokens EXCEPT !.held = @ \cup {control.relay}]
    /\ threads' = threads \cup {control.relay}
    /\ bridge' = [bridge EXCEPT ![control.relay].at = "spawned"]
    /\ control' = [control EXCEPT !.at = "reads", !.relay = "none"]
    /\ UNCHANGED <<config, at, server, stopArgs, sessions, client>>

ConnectionLost ==
    /\ control.at = "reads" /\ control.ioc = "set"
    /\ control' = [control EXCEPT !.at = "clears"]
    /\ UNCHANGED <<controlOthers, threads, tokens>>

ReadsEnd ==
    /\ control.at = "reads" /\ control.ioc = "stopped"
    /\ control' = [control EXCEPT !.at = "clears"]
    /\ UNCHANGED <<controlOthers, threads, tokens>>

ControlClears ==
    /\ control.at = "clears"
    /\ control' = [control EXCEPT !.at = "waits", !.ioc = "none"]
    /\ UNCHANGED <<controlOthers, threads, tokens>>

ControlWaits ==
    /\ control.at = "waits"
    /\ control' = [control EXCEPT !.at = IF control.stop THEN "done" ELSE "checks"]
    /\ UNCHANGED <<controlOthers, threads, tokens>>

Control ==
    \/ ControlTurn \/ ControlConnects \/ ControlInventory \/ SpawnBridge \/ ReadsEnd
    \/ ControlClears \/ ControlWaits
-------------------------------------------------------------------------------
(* A bridge thread, HubControlChannel::RunRelayBridge *)

BridgeMoves(b, from, to) ==
    /\ bridge[b].at = from
    /\ bridge' = [bridge EXCEPT ![b].at = to]
    /\ UNCHANGED <<config, at, server, stopArgs, sessions, control, threads, tokens, client>>

BridgeRegisters(b) ==
    /\ bridge[b].at = "spawned"
    /\ bridge' = [bridge EXCEPT ![b] = [at |-> "hub", ioc |-> "set"]]
    /\ UNCHANGED <<config, at, server, stopArgs, sessions, control, threads, tokens, client>>

BridgeReachesHub(b) == \E to \in Connect("local", "leaves") : BridgeMoves(b, "hub", to)

\* Nothing listens any more.
BridgeRefused(b) == ~server.open /\ BridgeMoves(b, "local", "leaves")

\* One of the two sides closes or fails.
BridgeBreaks(b) == BridgeMoves(b, "pipes", "leaves")

\* Mutant: nothing looks at stop_ while bytes are piped.
PipeIsStoppedByIoc(b) == bridge[b].ioc = "stopped" /\ BridgeMoves(b, "pipes", "leaves")

\* Stop stopped the io context, or the timer of PipeWebSocketsAsync sees stop_.
PipeIsStopped(b) ==
    /\ bridge[b].ioc = "stopped" \/ control.stop
    /\ BridgeMoves(b, "pipes", "leaves")

BridgeUnregisters(b) ==
    /\ bridge[b].at = "leaves"
    /\ bridge' = [bridge EXCEPT ![b] = [at |-> "done", ioc |-> "none"]]
    /\ UNCHANGED <<config, at, server, stopArgs, sessions, control, threads, tokens, client>>

Bridge(b) ==
    \/ BridgeRegisters(b) \/ BridgeReachesHub(b) \/ BridgeRefused(b) \/ PipeIsStopped(b)
    \/ BridgeUnregisters(b)

\* kTokenTTL has passed.
TokenExpires(b) ==
    /\ b \in tokens.held \ tokens.expired
    /\ tokens' = [tokens EXCEPT !.expired = @ \cup {b}]
    /\ UNCHANGED <<config, at, server, stopArgs, sessions, control, bridge, threads, client>>
-------------------------------------------------------------------------------
(* The heartbeat thread, HubClient::RunLoop *)

ClientMoves(from, tos) ==
    /\ client.at = from
    /\ \E to \in tos : client' = [client EXCEPT !.at = to]
    /\ UNCHANGED <<config, at, server, stopArgs, sessions, control, bridge, threads, tokens>>

\* The io thread answers in time, or this heartbeat is skipped.
CollectSessions == ClientMoves("sends", IF config.hub THEN {"posts", "sleeps"} ELSE {"sleeps"})

PostHeartbeat == ClientMoves("posts", {"sleeps"})

HeartbeatWaits == ClientMoves("sleeps", IF client.stop THEN {"done"} ELSE {"sends"})

Heartbeat == CollectSessions \/ PostHeartbeat \/ HeartbeatWaits
-------------------------------------------------------------------------------
Main ==
    \/ RunBegins \/ RunResets \/ RunBinds \/ StartClient \/ StartControl
    \/ ServeShutdown \/ RunEnds \/ HubStops("main")
    \/ RunForgets \/ RunReturns \/ WakeSignal \/ JoinSignal \/ Destroy

Signal == StopEnters \/ HubStops("signal") \/ StopTriggers

Next ==
    \/ Main \/ RunFails \/ ServeCreate
    \/ SignalArrives \/ Signal
    \/ Control \/ ConnectionLost \/ Heartbeat
    \/ \E b \in Bridges :
        ServeUpgrade(b) \/ RelayRequested(b) \/ Bridge(b) \/ BridgeBreaks(b) \/ TokenExpires(b)

\* Every thread runs. A connection to the hub comes about or fails: the calls that make
\* it are blocking ones, whose timeouts do not apply. The io thread answers an upgrade.
Fairness ==
    /\ WF_vars(Main) /\ WF_vars(Signal) /\ WF_vars(Control) /\ WF_vars(Heartbeat)
    /\ \A b \in Bridges : WF_vars(Bridge(b)) /\ WF_vars(ServeUpgrade(b))

Spec == Init /\ [][Next]_vars /\ Fairness
-------------------------------------------------------------------------------
HubIsStopped == control.at = "none" /\ client.at = "none"
                /\ \A b \in Bridges : bridge[b].at \in {"none", "done"}

\* A std::thread is joined by one thread at a time: the signal thread and the main
\* thread are never in the hub's Stop together (http_server.cpp:2725 and 2756).
OneJoiner == ~(at.main \in HubStop /\ at.signal \in HubStop)

\* When Run has returned no thread of the hub or of the discovery broadcaster is left,
\* whatever the moment of the signal; no session is left when Stop found the callback. A
\* Stop that comes once Run has started everything has the hub's threads gone before the
\* sessions are shut down, so no relay is open on a session that is.
QuietInTheEnd ==
    /\ at.main \in Ended =>
        /\ HubIsStopped /\ threads = {} /\ ~server.discovery
        /\ stopArgs.callback => sessions # "live"
    /\ stopArgs.started /\ sessions = "shut" => HubIsStopped

\* A relay token opens one observer socket: a bridge that pipes has used it up.
OneUse == \A b \in Bridges : bridge[b].at = "pipes" => b \notin tokens.held

\* A signal that comes while the server runs ends the program.
StopCompletes == (at.signal = "stops" /\ at.main = "running") ~> (at.main = "done")
===============================================================================
