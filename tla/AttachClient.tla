------------------------------ MODULE AttachClient ----------------------------
(***************************************************************************)
(* `sentrits session attach` over the observer WebSocket: the command line *)
(* client, the socket of the server it talks to, and who controls the      *)
(* session. The client has two threads. The main loop reads the keyboard   *)
(* and the size of the terminal and writes commands; the reader takes the  *)
(* events of the server and keeps, under a mutex, what the client believes *)
(* of the control. The server tells of a change of the control when its    *)
(* pump runs or a command was handled, and only of what it is then: what   *)
(* was in between is never told.                                           *)
(*                                                                         *)
(* The main loop reads the belief, writes a request, and marks it pending: *)
(* three steps, between which the reader takes events. The main loop       *)
(* closes the WebSocket while the reader reads it; whose read gets the     *)
(* answer is open.                                                         *)
(*                                                                         *)
(* Abstractions. A frame is read as a whole. Output, activity and error    *)
(* events change nothing here and are left out, except that the client may *)
(* be behind. `sentrits attach` through the controller socket is in        *)
(* ControllerAttach.                                                       *)
(***************************************************************************)
EXTENDS Naturals, Sequences, SequencesExt

CONSTANTS
    Sizes,          \* sizes of terminals
    MaxOthers       \* bound: how often another client takes the control

\* The size the terminal starts with, and the one the session starts with.
ASSUME SizesAssumption == {1, 2} \subseteq Sizes

VARIABLES
    kind,       \* controller_kind of the client: "host" or "remote"
    main,       \* the main loop: where it is, its snapshot, and the size it knows
    belief,     \* stream_state
    reader,     \* the reader thread: "reading" or "ended"
    flags,      \* stop_requested and read_failed
    terminal,   \* the terminal: its size, the pending signal, end of file
    toServer,   \* commands on their way
    toClient,   \* events on their way
    link,       \* the connection: "open", "closed" by the close handshake, or "lost"
    session,    \* the entry: controller, size of the PTY, is it running
    socket,     \* what the server told the client last
    others      \* what others have done so far, and whether one of them took the control

clientVars == <<kind, main, belief, reader, flags, terminal>>
wireVars == <<toServer, toClient, link>>
serverVars == <<session, socket>>
attachVars == <<kind, main, belief, reader, flags, terminal, toServer, toClient, link, session, socket, others>>

Nobody == [kind |-> "host", client |-> "none"]   \* control that was given back
-------------------------------------------------------------------------------
(* The server *)

\* RequestControl by a client: a host takes it from everybody, a remote from hosts.
GrantsTo(client, how) ==
    /\ session.running
    /\ \/ session.controller.kind = "host"
       \/ how = "host"
       \/ session.controller.client = client

\* QueueStatusEvents, when the session is then s: what changed since it was told last.
StatusEvents(s) ==
    (IF socket = [controller |-> s.controller, running |-> s.running] THEN <<>>
     ELSE <<[type |-> "updated", kind |-> s.controller.kind, client |-> s.controller.client # "none"]>>)
    \o (IF socket.running /\ ~s.running THEN <<[type |-> "exited"]>> ELSE <<>>)

QueueStatusEvents(s) ==
    /\ session' = s
    /\ socket' = [controller |-> s.controller, running |-> s.running]
    /\ toClient' = toClient \o StatusEvents(s)

\* A command that is rejected is answered with an error, which the client prints.
Rejected == UNCHANGED <<session, socket, toClient>>

\* SessionPump: every observer socket is asked for what is new.
Pump ==
    /\ link = "open"
    /\ StatusEvents(session) # <<>>
    /\ QueueStatusEvents(session)
    /\ UNCHANGED <<clientVars, toServer, link, others>>

ClientHasControl == session.controller.client = "me"

Released(s) == IF s.controller.client = "me" THEN [s EXCEPT !.controller = Nobody] ELSE s

\* HandleClientCommand and HandleClientBinary. Input goes to the program, or is rejected.
HandleClientCommand ==
    /\ link = "open" /\ toServer # <<>>
    /\ LET c == Head(toServer)
       IN  CASE c.type = "request" ->
                    IF GrantsTo("me", kind)
                    THEN QueueStatusEvents([session EXCEPT !.controller = [kind |-> kind, client |-> "me"]])
                    ELSE Rejected
             [] c.type = "resize" ->
                    CASE ~ClientHasControl -> QueueStatusEvents(session) \* UpdateViewport
                      [] ClientHasControl /\ session.running -> QueueStatusEvents([session EXCEPT !.size = c.size])
                      [] OTHER -> Rejected
             [] c.type = "input" -> Rejected
             [] c.type = "release" ->
                    IF session.controller.client = "other" THEN Rejected ELSE QueueStatusEvents(Released(session))
             [] c.type = "close" ->
                    session' = Released(session) /\ UNCHANGED <<socket, toClient>>
    /\ toServer' = Tail(toServer)
    /\ link' = IF Head(toServer).type = "close" THEN "closed" ELSE link
    /\ UNCHANGED <<clientVars, others>>

\* external: the connection breaks. What is under way is lost; the server notices.
ConnectionLost ==
    /\ link = "open"
    /\ link' = "lost" /\ toServer' = <<>>
    /\ toClient' \in {SubSeq(toClient, 1, n) : n \in 0..Len(toClient)}
    /\ session' = Released(session)
    /\ UNCHANGED <<clientVars, socket, others>>

\* Another client requests control, and gets it.
OtherTakes(how) ==
    /\ others.count < MaxOthers /\ ~flags.stop
    /\ GrantsTo("other", how)
    /\ session' = [session EXCEPT !.controller = [kind |-> how, client |-> "other"]]
    /\ others' = [count |-> others.count + 1, took |-> TRUE]
    /\ UNCHANGED <<clientVars, wireVars, socket>>

OtherReleases ==
    /\ session.controller.client = "other"
    /\ session' = [session EXCEPT !.controller = Nobody]
    /\ UNCHANGED <<clientVars, wireVars, socket, others>>

\* external: the program of the session ends.
SessionExits ==
    /\ session.running /\ ~terminal.eof
    /\ session' = [session EXCEPT !.running = FALSE]
    /\ UNCHANGED <<clientVars, wireVars, socket, others>>
-------------------------------------------------------------------------------
(* The terminal *)

\* Bound: it only grows.
Resized(size) ==
    /\ terminal.size < size /\ ~flags.stop
    /\ terminal' = [terminal EXCEPT !.size = size, !.signal = TRUE]
    /\ UNCHANGED <<kind, main, belief, reader, flags, wireVars, serverVars, others>>

\* Bound: the input and the session do not both end.
EndOfInput ==
    /\ ~terminal.eof /\ session.running
    /\ terminal' = [terminal EXCEPT !.eof = TRUE]
    /\ UNCHANGED <<kind, main, belief, reader, flags, wireVars, serverVars, others>>
-------------------------------------------------------------------------------
(* The reader thread *)

\* Mutant: only a control that was asked for is control.
HandleServerMessageAsked(e) ==
    [has |-> e.kind = kind /\ belief.pending /\ (kind = "remote" => e.client),
     pending |-> belief.pending /\ e.kind # "remote" /\ ~e.client,
     kind |-> e.kind, client |-> e.client]

\* session.updated. Which client is in control is not looked at.
HandleServerMessage(e) ==
    LET has == IF kind = "host" THEN e.kind = "host" /\ (belief.pending \/ e.client)
               ELSE e.kind = "remote" /\ e.client
    IN  [has |-> has,
         pending |-> /\ belief.pending /\ ~has
                     /\ kind = "host" => e.kind = "host",
         kind |-> e.kind, client |-> e.client]

\* An event is read. session.exited ends the loop, and so does stop_requested.
ReaderReads ==
    /\ reader = "reading" /\ toClient # <<>>
    /\ toClient' = Tail(toClient)
    /\ LET e == Head(toClient)
       IN  /\ belief' = IF e.type = "updated" THEN HandleServerMessage(e) ELSE belief
           /\ flags' = [flags EXCEPT !.stop = @ \/ e.type = "exited"]
           /\ reader' = IF flags'.stop THEN "ended" ELSE "reading"
    /\ UNCHANGED <<kind, main, terminal, toServer, link, serverVars, others>>

\* The end of the connection. The one thread that gets the answer to the close frame
\* sees a connection that was closed, the other one an error.
ReaderFindsEnd ==
    /\ reader = "reading" /\ toClient = <<>> /\ link # "open"
    /\ reader' = "ended"
    /\ \E failed \in IF link = "closed" THEN BOOLEAN ELSE {TRUE} :
           flags' = [stop |-> TRUE, failed |-> failed]
    /\ UNCHANGED <<kind, main, belief, terminal, wireVars, serverVars, others>>
-------------------------------------------------------------------------------
(* The main loop *)

At(pc) == [main EXCEPT !.pc = pc]

\* A write to the WebSocket; one that fails ends the loop without a close frame.
Writes(command, next) ==
    IF link = "open"
    THEN toServer' = Append(toServer, command) /\ main' = next /\ UNCHANGED flags
    ELSE main' = At("join") /\ flags' = [flags EXCEPT !.stop = TRUE] /\ UNCHANGED toServer

Silently(next) == main' = next /\ UNCHANGED <<toServer, flags>>

WantsControl(b) ==
    kind = "host" /\ ~b.has /\ ~b.pending /\ b.kind = "host" /\ ~b.client

\* The top of the loop: shall it end, and a snapshot of the belief.
MainTop ==
    /\ main.pc = "top"
    /\ main' = IF flags.stop \/ flags.failed
               THEN [main EXCEPT !.pc = "close"]
               ELSE [main EXCEPT !.has = belief.has,
                                 !.pc = IF WantsControl(belief) THEN "request" ELSE "resize"]
    /\ UNCHANGED <<kind, belief, reader, flags, terminal, wireVars, serverVars, others>>

MainRequests ==
    /\ main.pc = "request"
    /\ Writes([type |-> "request"], At("mark"))
    /\ UNCHANGED <<kind, belief, reader, terminal, toClient, link, serverVars, others>>

\* The request is pending, even if it was answered in between.
MainMarks ==
    /\ main.pc = "mark"
    /\ belief' = [belief EXCEPT !.pending = TRUE]
    /\ main' = At("resize")
    /\ UNCHANGED <<kind, reader, flags, terminal, wireVars, serverVars, others>>

\* Mutant: a size that cannot be sent now is not kept for later.
MainSizeForgets ==
    /\ main.pc = "resize"
    /\ LET news == main.sync \/ (terminal.signal /\ terminal.size # main.size)
           size == IF terminal.signal THEN terminal.size ELSE main.size
       IN  IF main.has /\ news
           THEN Writes([type |-> "resize", size |-> size], [main EXCEPT !.size = size, !.sync = FALSE, !.pc = "select"])
           ELSE Silently([main EXCEPT !.size = size, !.sync = FALSE, !.pc = "select"])
    /\ terminal' = [terminal EXCEPT !.signal = FALSE]
    /\ UNCHANGED <<kind, belief, reader, toClient, link, serverVars, others>>

\* A signal: is the terminal of another size? It is sent when the client has control.
MainSize ==
    /\ main.pc = "resize"
    /\ LET news == main.sync \/ (terminal.signal /\ terminal.size # main.size)
           size == IF terminal.signal THEN terminal.size ELSE main.size
       IN  IF main.has /\ news
           THEN Writes([type |-> "resize", size |-> size], [main EXCEPT !.size = size, !.sync = FALSE, !.pc = "select"])
           ELSE Silently([main EXCEPT !.size = size, !.sync = news, !.pc = "select"])
    /\ terminal' = [terminal EXCEPT !.signal = FALSE]
    /\ UNCHANGED <<kind, belief, reader, toClient, link, serverVars, others>>

\* select: a key, which is sent if the client has control now; or 20 ms without one.
\* Bound: one key under way.
MainSelects(key) ==
    /\ main.pc = "select" /\ ~terminal.eof
    /\ key => ~Contains(toServer, [type |-> "input"])
    /\ IF key /\ belief.has THEN Writes([type |-> "input"], At("top")) ELSE Silently(At("top"))
    /\ UNCHANGED <<kind, belief, reader, terminal, toClient, link, serverVars, others>>

\* The end of the input: the result of the write is ignored.
MainReleases ==
    /\ main.pc = "select" /\ terminal.eof
    /\ toServer' = IF link = "open" THEN Append(toServer, [type |-> "release"]) ELSE toServer
    /\ flags' = [flags EXCEPT !.stop = TRUE]
    /\ main' = At("close")
    /\ UNCHANGED <<kind, belief, reader, terminal, toClient, link, serverVars, others>>

\* Mutant: the reader is joined without a close.
MainClosesNothing ==
    /\ main.pc = "close"
    /\ main' = At("join")
    /\ UNCHANGED <<kind, belief, reader, flags, terminal, wireVars, serverVars, others>>

\* close: the close frame, if the connection still takes one.
MainCloses ==
    /\ main.pc = "close"
    /\ toServer' = IF link = "open" THEN Append(toServer, [type |-> "close"]) ELSE toServer
    /\ main' = At("closing")
    /\ UNCHANGED <<kind, belief, reader, flags, terminal, toClient, link, serverVars, others>>

\* close reads what comes before the answer, and drops it.
MainDrains ==
    /\ main.pc = "closing" /\ toClient # <<>>
    /\ toClient' = Tail(toClient)
    /\ UNCHANGED <<clientVars, toServer, link, serverVars, others>>

MainClosed ==
    /\ main.pc = "closing" /\ toClient = <<>> /\ link # "open"
    /\ main' = At("join")
    /\ UNCHANGED <<kind, belief, reader, flags, terminal, wireVars, serverVars, others>>

MainJoins ==
    /\ main.pc = "join" /\ reader = "ended"
    /\ main' = At("done")
    /\ UNCHANGED <<kind, belief, reader, flags, terminal, wireVars, serverVars, others>>
-------------------------------------------------------------------------------
\* The client is connected, has asked for control, and starts its threads.
ClientInit ==
    /\ kind \in {"host", "remote"}
    /\ main = [pc |-> "top", has |-> FALSE, size |-> 1, sync |-> TRUE]
    /\ belief = [has |-> FALSE, pending |-> TRUE, kind |-> "none", client |-> FALSE]
    /\ reader = "reading"
    /\ flags = [stop |-> FALSE, failed |-> FALSE]
    /\ terminal = [size |-> 1, signal |-> FALSE, eof |-> FALSE]
    /\ \E c \in {Nobody, [kind |-> "remote", client |-> "other"]} :
        /\ session = [controller |-> c, size |-> 2, running |-> TRUE]
        /\ socket = [controller |-> c, running |-> TRUE]
        /\ toClient = <<[type |-> "updated", kind |-> c.kind, client |-> c.client # "none"]>>
        /\ others = [count |-> 0, took |-> c # Nobody]
    /\ toServer = <<[type |-> "request"]>>
    /\ link = "open"

Main ==
    \/ MainTop \/ MainRequests \/ MainMarks \/ MainSize \/ MainReleases
    \/ MainCloses \/ MainDrains \/ MainClosed \/ MainJoins
    \/ \E key \in BOOLEAN : MainSelects(key)

Reader == ReaderReads \/ ReaderFindsEnd

Environment ==
    \/ ConnectionLost \/ SessionExits \/ EndOfInput \/ OtherReleases
    \/ \E how \in {"host", "remote"} : OtherTakes(how)
    \/ \E size \in Sizes : Resized(size)

ClientNext == Main \/ Reader \/ Pump \/ HandleClientCommand \/ Environment

\* Threads run, and the server handles what it is sent.
ClientSpec ==
    /\ ClientInit /\ [][ClientNext]_attachVars
    /\ WF_attachVars(Main) /\ WF_attachVars(Reader) /\ WF_attachVars(Pump) /\ WF_attachVars(HandleClientCommand)
-------------------------------------------------------------------------------
\* Type invariant: threads, belief and session.
ClientTypeOK ==
    /\ main.size \in Sizes /\ terminal.size \in Sizes /\ session.size \in Sizes
    /\ {belief.has, belief.pending, belief.client, flags.stop, flags.failed} \subseteq BOOLEAN
    /\ reader \in {"reading", "ended"} /\ link \in {"open", "closed", "lost"}
    /\ session.controller.client \in {"none", "me", "other"}

ClientAttached == link = "open" /\ ~flags.stop /\ session.running

Quiet == toServer = <<>> /\ toClient = <<>> /\ StatusEvents(session) = <<>>

\* A client that holds the control knows it, as soon as nothing is under way any more:
\* control never stays with a client that drops what is typed, however the answer races
\* with the mark of the request, and whatever changes the server did not tell of.
NoSilentControl == ClientAttached /\ Quiet /\ ClientHasControl => belief.has

\* The client returns when its input ends, the session exits or the connection breaks:
\* the loop, the close handshake and the join of the reader never wait for each other.
AttachEnds == terminal.eof \/ ~session.running \/ link = "lost" ~> main.pc = "done"

\* As long as nobody else takes the control, the PTY follows the terminal of a client that
\* keeps it: a change of size is sent, also one from before the client was in control.
SizeFollows ==
    <>[](ClientAttached /\ ClientHasControl /\ ~others.took /\ ~terminal.eof) => <>[](session.size = terminal.size)
===============================================================================
