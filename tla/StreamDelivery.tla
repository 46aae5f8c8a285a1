---------------------------- MODULE StreamDelivery ----------------------------
(***************************************************************************)
(* The way of a PTY session's output: from the terminal through            *)
(* SessionRuntime::PollOnce into the SessionOutputBuffer, and from there   *)
(* into the write queues of the observer sockets (WebSocketSession, with a *)
(* StreamSequenceWindow each) and of the remote controller                 *)
(* (RemoteControllerWebSocketSession, with next_output_sequence_).         *)
(*                                                                         *)
(* One io thread serves everybody. What takes a turn on it is the timer of *)
(* SessionPump ("timer"), and the waits on duplicates of the PTY's         *)
(* descriptor: the pump's readable watcher ("watcher"), the remote         *)
(* controller's ("driver") and that of a `sentrits attach` ("local").      *)
(* The program in the session runs beside it, also between two system      *)
(* calls of one PollOnce, which is therefore several steps.                *)
(*                                                                         *)
(* Abstractions. The bytes the program writes are numbered from 1, so the  *)
(* data of a chunk, a slice or a frame is an interval of numbers. The      *)
(* events of an observer socket are told apart only as the exit event and  *)
(* the others. Who is entitled to control is ControllerAttach's subject:   *)
(* here the remote controller stays in control until it closes.            *)
(***************************************************************************)
EXTENDS Integers, FiniteSets, SequencesExt

CONSTANTS
    Viewers,        \* observer sockets, each opened once
    Raw,            \* those that asked for the raw stream
    Driver,         \* the remote controller's connection
    LocalAttached,  \* is a `sentrits attach` there?
    Prompt,         \* the clients whose peers read what they are sent
    Capacity,       \* capacity_bytes_ of the output buffer
    ReadMax,        \* the most that one read of the PTY returns
    TailMax,        \* the most an observer is sent at first
    MaxBytes,       \* bound: what the program writes in all
    MaxPending      \* bound: queue length up to which events other than the exit's are queued

ASSUME StreamAssumption ==
    /\ Raw \subseteq Viewers /\ Driver \notin Viewers
    /\ Prompt \subseteq Viewers \cup {Driver}
    /\ LocalAttached \in BOOLEAN
    /\ Capacity \in Nat \ {0} /\ ReadMax \in Nat \ {0} /\ TailMax \in Nat \ {0}
    /\ MaxBytes \in Nat /\ MaxPending \in Nat

VARIABLES
    written,  \* external: how much the program has written
    child,    \* external: "running", "ended", or "reaped" by PollExit
    taken,    \* how much of it was read from the PTY
    chunks,   \* chunks_ of the output buffer
    nextSeq,  \* next_sequence_ of the output buffer
    io,       \* who has the io thread, and where in PollOnce it is
    armed,    \* the waits on the PTY that are armed
    ready,    \* the waits that have completed and whose callbacks will run
    control,  \* which privileged controller the session has, if any
    conn      \* the connections

vars == <<written, child, taken, chunks, nextSeq, io, armed, ready, control, conn>>

Clients == Viewers \cup {Driver}
Waiters == {"watcher", "driver", "local"}

\* The PTY is open until PollExit has reaped the process, and the session is
\* interactive just as long.
Open(c) == conn[c].phase = "open"
Live == child # "reaped"

Idle == [by |-> "nobody", at |-> "idle"]

NewConn == [phase |-> "idle", reserved |-> 1, delivered |-> 1, told |-> FALSE,
            pending |-> <<>>, got |-> 0]

\* A frame carries the sequence MarkDelivered will get, and bytes first..last.
Event(next) == [kind |-> "event", next |-> next, first |-> 1, last |-> 0]
Exit(next)  == [kind |-> "exit",  next |-> next, first |-> 1, last |-> 0]
-------------------------------------------------------------------------------
\* SessionOutputBuffer.
Bytes(chunk) == chunk.first..chunk.last

SizeBytes(cs) == Cardinality(UNION {Bytes(cs[i]) : i \in DOMAIN cs})

\* The oldest chunks go until the rest fits: what is left, as a set's one member.
EvictIfNeeded(cs) ==
    LET fits(i) == SizeBytes(SubSeq(cs, i, Len(cs))) <= Capacity
    IN  {SubSeq(cs, i, Len(cs)) : i \in {k \in 1..Len(cs) + 1 : fits(k) /\ \A j \in 1..k - 1 : ~fits(j)}}

\* Append of the n bytes after the ones taken so far, the oldest cut off if they
\* do not fit.
Append_(n) ==
    LET cut == IF n > Capacity THEN n - Capacity ELSE 0
    IN  EvictIfNeeded(Append(chunks, [seq |-> nextSeq, first |-> taken + 1 + cut, last |-> taken + n]))

\* The output frame of the chunks from one of the given indices on, if there is any.
Slice(from) ==
    IF from = {} THEN <<>>
    ELSE <<[kind |-> "output", next |-> Last(chunks).seq + 1,
            first |-> chunks[Min(from)].first, last |-> Last(chunks).last]>>

\* Mutant: the slice starts after the sequence asked for.
SliceAfterSequence(seq) == Slice({i \in DOMAIN chunks : chunks[i].seq > seq})

\* SliceFromSequence and Tail as the output frames made of them.
SliceFromSequence(seq) == Slice({i \in DOMAIN chunks : chunks[i].seq >= seq})

TailSlice ==
    IF chunks = <<>> THEN <<>>
    ELSE <<[kind |-> "output", next |-> Last(chunks).seq + 1, last |-> Last(chunks).last,
            first |-> Max({Head(chunks).first, Last(chunks).last - TailMax + 1})]>>
-------------------------------------------------------------------------------
Init ==
    /\ written = 0
    /\ child = "running"
    /\ taken = 0
    /\ chunks = <<>>
    /\ nextSeq = 1
    /\ io = Idle
    /\ armed = IF LocalAttached THEN {"local"} ELSE {}
    /\ ready = {}
    /\ control = IF LocalAttached THEN "local" ELSE "none"
    /\ conn = [c \in Clients |-> NewConn]

\* external: the program writes, and ends.
ChildWrites ==
    /\ child = "running"
    /\ \E n \in 1..MaxBytes - written : written' = written + n
    /\ UNCHANGED <<child, taken, chunks, nextSeq, io, armed, ready, control, conn>>

ChildExits ==
    /\ child = "running"
    /\ child' = "ended"
    /\ UNCHANGED <<written, taken, chunks, nextSeq, io, armed, ready, control, conn>>

\* external: the reactor looks at the descriptors. Bytes or a hangup complete
\* every wait that is armed on the PTY, or on what is left of it: a duplicate
\* outlives the descriptor.
Readable == taken < written \/ child # "running"

WaitsComplete ==
    /\ io = Idle
    /\ Readable
    /\ armed # {}
    /\ ready' = ready \cup armed
    /\ armed' = {}
    /\ UNCHANGED <<written, child, taken, chunks, nextSeq, io, control, conn>>
-------------------------------------------------------------------------------
\* The callback of a wait starts with PollSession. A controller's lasts as long
\* as its connection.
WaitCallback(w) ==
    /\ io = Idle
    /\ w \in ready
    /\ ready' = ready \ {w}
    /\ io' = [by |-> w, at |-> "read"]
    /\ UNCHANGED <<written, child, taken, chunks, nextSeq, armed, control, conn>>

\* The maintenance timer: PollAll, which passes over the session of a
\* privileged controller.
Timer ==
    /\ io = Idle
    /\ io' = [by |-> "timer", at |-> IF control = "none" THEN "read" ELSE "notify"]
    /\ UNCHANGED <<written, child, taken, chunks, nextSeq, armed, ready, control, conn>>

\* PollOnce: one Read that returns bytes, and the Append of what it returned.
PollReads ==
    /\ io.at = "read"
    /\ Live
    /\ \E n \in 1..Min({ReadMax, written - taken}) :
          /\ chunks' \in Append_(n)
          /\ taken' = taken + n
    /\ nextSeq' = nextSeq + 1
    /\ UNCHANGED <<written, child, io, armed, ready, control, conn>>

\* PollOnce: the Read that returns nothing, empty or closed, ends the loop.
PollReadsNothing ==
    /\ io.at = "read"
    /\ Live => taken = written
    /\ io' = [io EXCEPT !.at = "reap"]
    /\ UNCHANGED <<written, child, taken, chunks, nextSeq, armed, ready, control, conn>>

\* PollOnce: PollExit reaps the process if it has ended, and closes the PTY.
PollExit ==
    /\ io.at = "reap"
    /\ child' = IF child = "ended" THEN "reaped" ELSE child
    /\ io' = [io EXCEPT !.at = "notify"]
    /\ UNCHANGED <<written, taken, chunks, nextSeq, armed, ready, control, conn>>
-------------------------------------------------------------------------------
\* WebSocketSession: QueueStatusEvents. The end of the session brings two events,
\* and any other change of its summary, a new current_sequence above all, one.
StatusEvents(c, changed) ==
    (IF changed \/ (~Live /\ ~conn[c].told) THEN <<Event(conn[c].reserved)>> ELSE <<>>)
    \o (IF ~Live /\ ~conn[c].told THEN <<Exit(conn[c].reserved)>> ELSE <<>>)

\* QueueFrame of some frames: each is reserved through and queued.
QueueFrames(c, frames) ==
    [conn[c] EXCEPT !.pending = @ \o frames,
                    !.reserved = Max({@} \cup {frames[i].next : i \in DOMAIN frames})]

\* Mutant: the request starts at delivered_next_, before what is still queued.
ViewerSendsAgain(c, changed) ==
    [QueueFrames(c, StatusEvents(c, changed)
                    \o SliceFromSequence(conn[c].delivered))
       EXCEPT !.told = ~Live]

\* WebSocketSession::SendPendingOutput.
ViewerSend(c, changed) ==
    [QueueFrames(c, StatusEvents(c, changed)
                    \o SliceFromSequence(conn[c].reserved))
       EXCEPT !.told = ~Live]

\* RemoteControllerWebSocketSession: FlushOutput, and SendPendingOutput.
FlushOutput == SliceFromSequence(conn[Driver].reserved)

DriverSend(output) ==
    [QueueFrames(Driver, output \o (IF ~Live /\ ~conn[Driver].told
                                    THEN <<Exit(conn[Driver].reserved)>> ELSE <<>>))
       EXCEPT !.told = ~Live]

\* NotifySessionClients, or the same loop in DoPoll: everybody is asked to send.
\* For the remote controller that is the exit event only.
NotifyClients ==
    \E changed \in SUBSET {c \in Viewers : Open(c) /\ Len(conn[c].pending) < MaxPending} :
        conn' = [c \in Clients |-> IF ~Open(c) THEN conn[c]
                                   ELSE IF c = Driver THEN DriverSend(<<>>)
                                   ELSE ViewerSend(c, c \in changed)]

\* The end of the turn: what follows PollSession or PollAll in each callback.
\* A waiter whose PTY is still open waits again. A watcher that has been erased
\* meanwhile is not there to come back.
WatcherNotifies ==
    /\ io = [by |-> "watcher", at |-> "notify"]
    /\ NotifyClients
    /\ armed' = IF Live THEN armed \cup {"watcher"} ELSE armed
    /\ io' = Idle
    /\ UNCHANGED <<written, child, taken, chunks, nextSeq, ready, control>>

DriverFlushes ==
    /\ io = [by |-> "driver", at |-> "notify"]
    /\ conn' = [conn EXCEPT ![Driver] = DriverSend(FlushOutput)]
    /\ armed' = IF Live THEN armed \cup {"driver"} ELSE armed
    /\ io' = Idle
    /\ UNCHANGED <<written, child, taken, chunks, nextSeq, ready, control>>

\* `sentrits attach` shows its own picture of the session, and takes control
\* back when nobody has it.
LocalShows ==
    /\ io = [by |-> "local", at |-> "notify"]
    /\ control' = IF control = "none" /\ Live THEN "local" ELSE control
    /\ armed' = IF Live THEN armed \cup {"local"} ELSE armed
    /\ io' = Idle
    /\ UNCHANGED <<written, child, taken, chunks, nextSeq, ready, conn>>

\* The rest of the timer's turn, with SyncReadableWatchers: one watcher while
\* somebody is connected and no privileged controller polls, else none.
TimerNotifies ==
    /\ io = [by |-> "timer", at |-> "notify"]
    /\ NotifyClients
    /\ IF Live /\ control = "none" /\ \E c \in Clients : Open(c)
       THEN armed' = (IF "watcher" \in ready THEN armed ELSE armed \cup {"watcher"}) /\ UNCHANGED ready
       ELSE armed' = armed \ {"watcher"} /\ ready' = ready \ {"watcher"}
    /\ io' = Idle
    /\ UNCHANGED <<written, child, taken, chunks, nextSeq, control>>
-------------------------------------------------------------------------------
\* An observer socket is accepted: QueueInitialEvents. Without output a JSON
\* stream still gets an output frame, an empty one.
ViewerOpens(c) ==
    /\ io = Idle
    /\ conn[c].phase = "idle"
    /\ LET first == IF TailSlice = <<>> /\ c \notin Raw THEN <<Event(conn[c].delivered)>> ELSE TailSlice
       IN  conn' = [conn EXCEPT ![c] = [QueueFrames(c, StatusEvents(c, TRUE) \o first)
                                          EXCEPT !.phase = "open", !.told = ~Live]]
    /\ UNCHANGED <<written, child, taken, chunks, nextSeq, io, armed, ready, control>>

\* A command of an observer: refused with an error event, or obeyed and answered
\* with what has changed, which may be the end of the session.
ViewerCommand(c) ==
    /\ io = Idle
    /\ Open(c)
    /\ Len(conn[c].pending) < MaxPending
    /\ \/ conn' = [conn EXCEPT ![c] = QueueFrames(c, <<Event(conn[c].reserved)>>)]
       \/ conn' = [conn EXCEPT ![c] = [QueueFrames(c, StatusEvents(c, TRUE)) EXCEPT !.told = ~Live]]
    /\ UNCHANGED <<written, child, taken, chunks, nextSeq, io, armed, ready, control>>

ViewerCloses(c) ==
    /\ io = Idle
    /\ Open(c)
    /\ conn' = [conn EXCEPT ![c] = [NewConn EXCEPT !.phase = "closed"]]
    /\ UNCHANGED <<written, child, taken, chunks, nextSeq, io, armed, ready, control>>

\* The remote controller is accepted and granted control: its stream starts
\* after what was read so far.
DriverOpens ==
    /\ io = Idle
    /\ conn[Driver].phase = "idle"
    /\ Live
    /\ conn' = [conn EXCEPT ![Driver] = [NewConn EXCEPT !.phase = "open", !.reserved = nextSeq,
                                                        !.got = taken, !.pending = <<Event(nextSeq)>>]]
    /\ control' = "driver"
    /\ armed' = armed \cup {"driver"}
    /\ UNCHANGED <<written, child, taken, chunks, nextSeq, io, ready>>

DriverForceClose ==
    /\ conn' = [conn EXCEPT ![Driver] = [NewConn EXCEPT !.phase = "closed"]]
    /\ control' = IF control = "driver" THEN "none" ELSE control
    /\ armed' = armed \ {"driver"}
    /\ ready' = ready \ {"driver"}

DriverCloses ==
    /\ io = Idle
    /\ Open(Driver)
    /\ DriverForceClose
    /\ UNCHANGED <<written, child, taken, chunks, nextSeq, io>>

\* Mutant: MarkDelivered gets the window's reservation, not the frame's sequence.
ReceivedMarksReserved(c) ==
    [conn[c] EXCEPT !.pending = Tail(@), !.delivered = conn[c].reserved,
                    !.got = Max({@, Head(conn[c].pending).last})]

\* A write completes: MarkDelivered, and the next frame. The remote controller
\* is closed once its exit event was the last to go.
Received(c) ==
    LET frame == Head(conn[c].pending)
    IN  [conn[c] EXCEPT !.pending = Tail(@),
                        !.delivered = frame.next,
                        !.reserved = Max({@, frame.next}),
                        !.got = IF frame.first <= frame.last THEN frame.last ELSE @]

WriteDone(c) ==
    /\ io = Idle
    /\ Open(c) /\ conn[c].pending # <<>>
    /\ IF c = Driver /\ conn[c].told /\ Len(conn[c].pending) = 1
       THEN DriverForceClose
       ELSE conn' = [conn EXCEPT ![c] = Received(c)] /\ UNCHANGED <<armed, ready, control>>
    /\ UNCHANGED <<written, child, taken, chunks, nextSeq, io>>
-------------------------------------------------------------------------------
Turn ==
    \/ PollReads
    \/ PollReadsNothing
    \/ PollExit
    \/ WatcherNotifies
    \/ DriverFlushes
    \/ LocalShows
    \/ TimerNotifies

Next ==
    \/ ChildWrites
    \/ ChildExits
    \/ WaitsComplete
    \/ \E w \in Waiters : WaitCallback(w)
    \/ Timer
    \/ Turn
    \/ \E c \in Viewers : ViewerOpens(c) \/ ViewerCommand(c) \/ ViewerCloses(c)
    \/ DriverOpens
    \/ DriverCloses
    \/ \E c \in Clients : WriteDone(c)

Spec == Init /\ [][Next]_vars

\* The io thread finishes a turn it has begun and serves, in the order they got
\* ready, every handler: between two turns each of these is enabled again until
\* it has been taken. Only the peers in Prompt are known to read.
FairSpec ==
    /\ Spec
    /\ WF_vars(Turn)
    /\ SF_vars(WaitsComplete)
    /\ \A w \in Waiters : SF_vars(WaitCallback(w))
    /\ SF_vars(Timer)
    /\ \A c \in Prompt : SF_vars(WriteDone(c))
-------------------------------------------------------------------------------
Frames == [kind : {"event", "exit", "output"}, next : 1..MaxBytes + 1,
           first : 1..MaxBytes + 1, last : 0..MaxBytes]
Conns == [phase : {"idle", "open", "closed"}, reserved : 1..MaxBytes + 1,
          delivered : 1..MaxBytes + 1, told : BOOLEAN, pending : Seq(Frames), got : 0..MaxBytes]

\* Type invariant: the state of the buffer, the io thread and every connection.
TypeOK ==
    /\ written \in 0..MaxBytes /\ taken \in 0..written
    /\ child \in {"running", "ended", "reaped"}
    /\ chunks \in Seq([seq : 1..MaxBytes, first : 1..MaxBytes, last : 1..MaxBytes])
    /\ nextSeq \in 1..MaxBytes + 1
    /\ io \in [by : Waiters \cup {"timer", "nobody"}, at : {"idle", "read", "reap", "notify"}]
    /\ armed \in SUBSET Waiters /\ ready \in SUBSET Waiters
    /\ control \in {"none", "local", "driver"}
    /\ conn \in [Clients -> Conns]

\* The output buffer holds an unbroken run of chunks up to the newest byte that
\* was read, within its capacity; their sequences are consecutive and end just
\* below next_sequence_. Only a slice of such a buffer is the contiguous piece of
\* the stream that seq_start and seq_end make of it.
BufferOK ==
    /\ SizeBytes(chunks) <= Capacity
    /\ taken > 0 => chunks # <<>> /\ Last(chunks).last = taken /\ Last(chunks).seq = nextSeq - 1
    /\ \A i \in 1..Len(chunks) - 1 :
          /\ chunks[i + 1].seq = chunks[i].seq + 1
          /\ chunks[i + 1].first = chunks[i].last + 1

\* The window of an observer brackets what is queued: delivered_next_ never runs
\* ahead of a frame still queued, reserved_next_ is what the last one will
\* deliver, and an empty queue means everything reserved has been delivered.
WindowOK ==
    \A c \in Viewers :
        Open(c) =>
            LET nexts == <<conn[c].delivered>>
                         \o [i \in DOMAIN conn[c].pending |-> conn[c].pending[i].next]
            IN  /\ \A i \in 1..Len(nexts) - 1 : nexts[i] <= nexts[i + 1]
                /\ Last(nexts) = conn[c].reserved
                /\ conn[c].reserved <= nextSeq

\* The books of the stream, buffer and windows, at every moment of a turn.
StreamBooks == BufferOK /\ WindowOK

\* The last byte that was queued for a connection, delivered or not.
LastQueued(c) ==
    Max({conn[c].got} \cup {conn[c].pending[i].last : i \in DOMAIN conn[c].pending})

\* A connection is queued the stream in order: what comes next continues what was
\* queued last, or, if that has been evicted, starts with the oldest byte the
\* buffer still has. Nothing is queued twice and nothing is skipped otherwise.
InOrder ==
    [][\A c \in Clients :
          Open(c) /\ conn'[c].phase = "open" /\ LastQueued(c)' # LastQueued(c) =>
              LET frame == Last(conn'[c].pending)
                  first == IF frame.kind = "output" THEN frame.first
                           ELSE conn'[c].pending[Len(conn'[c].pending) - 1].first
              IN  \/ first = LastQueued(c) + 1
                  \/ LastQueued(c) + 1 < first /\ first = chunks[1].first]_vars

\* Everything that is read from the PTY reaches the client: it catches up again and again.
Delivered(c) == []<>(Open(c) => conn[c].got = taken)

\* An observer that reads what it is sent gets all that was read from the PTY, the
\* final output included, however slow another client is and whoever polls.
ViewersDelivered == \A c \in Viewers \cap Prompt : Delivered(c)
===============================================================================
