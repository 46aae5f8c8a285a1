----------------------------- MODULE Supervision -----------------------------
(***************************************************************************)
(* What SessionManager says about a session, and the overview socket that  *)
(* tells it to the clients. The program writes and ends, the workspace and *)
(* its git state change, control changes hands; polls notice these things  *)
(* and stamp the entry; BuildSummary infers activity and attention from    *)
(* the stamps and the clock; the pump queues an inventory for an overview  *)
(* client whenever it differs from the last one it queued.                 *)
(*                                                                         *)
(* Abstractions. A stamp is its age, in ticks, up to one more than the     *)
(* window in which it matters. One read of the terminal is the features    *)
(* that its classification looks at. The inventory is the summary of one   *)
(* session without its stamps: a frame that differs in them alone is left  *)
(* out.                                                                    *)
(***************************************************************************)
EXTENDS Integers, Sequences, SequencesExt

CONSTANTS
    Chunks,         \* the reads a terminal may give, each a record of features
    Windows,        \* for how long a stamp matters, in ticks
    GitPollInterval, FilePollInterval,
    MaxReads,       \* bound: reads that wait for one poll
    MaxEvents,      \* bound: things that happen, besides changes of control
    MaxFrames       \* bound: frames an overview client may be behind

Stamps == {"status", "output", "activity", "file", "git", "controller"}

ASSUME WindowsAssumption == Windows \in [Stamps -> Nat]
ASSUME PollAssumption == GitPollInterval \in Nat /\ FilePollInterval \in Nat

VARIABLES
    world,      \* output that waits, how the program ended, the workspace, viewers
    entry,      \* SessionEntry and its record: status, kind, git, files, controller
    age,        \* the stamps of the entry
    polled,     \* ticks since git was inspected and the files were polled
    overview,   \* an overview socket: its queue, the last payload, what the client shows
    events      \* how many things have happened

vars == <<world, entry, age, polled, overview, events>>

Kinds == {"none", "meaningful", "cosmetic", "cursor", "alt"}

\* A frame of the overview socket: an inventory, or the news of an observation.
Inventory(summary) == <<summary>>
Observation == <<>>
NoPayload == <<>>
-------------------------------------------------------------------------------
(* TerminalMultiplexer and the text of a read *)

\* What a read did to the screen.
ClassifySemanticChange(c) ==
    IF c.alt THEN "alt"
    ELSE IF ~c.rendered THEN "none"
    ELSE IF c.scrolled THEN "meaningful"
    ELSE IF c.changed = 0 /\ c.moved THEN "cursor"
    ELSE IF c.changed = 1 /\ c.rewrites THEN IF c.erases THEN "cursor" ELSE "cosmetic"
    ELSE IF c.changed = 1 /\ c.trivialGrowth THEN "cosmetic"
    ELSE IF c.changed > 0 THEN "meaningful"
    ELSE "none"

Total(cs, f(_)) == FoldSeq(LAMBDA c, n : f(c) + n, 0, cs)

Some(cs, f(_)) == \E i \in DOMAIN cs : f(cs[i])

\* Of all the text since the last poll.
IsCosmeticTerminalOutput(cs) ==
    LET newline == Some(cs, LAMBDA c : c.newline)
        escape == Some(cs, LAMBDA c : c.escape)
        trivial == \A i \in DOMAIN cs : cs[i].trivial
        visible == Total(cs, LAMBDA c : c.visible)
        alnum == Total(cs, LAMBDA c : c.alnum)
    IN  /\ ~newline
        /\ \/ ~escape /\ visible = 0
           \/ /\ alnum < 4 /\ visible < 16
              /\ (trivial /\ visible <= 6) \/ visible = 0
-------------------------------------------------------------------------------
(* The summary of the entry *)

IsWithinWindow(s) == age[s] <= Windows[s]

InferAttention ==
    CASE entry.status = "Error" -> [state |-> "intervention", reason |-> "session_error"]
      [] entry.status # "Error" /\ IsWithinWindow("file") ->
            [state |-> "info", reason |-> "workspace_changed"]
      [] entry.status # "Error" /\ ~IsWithinWindow("file") /\ IsWithinWindow("git") ->
            [state |-> "info", reason |-> "git_state_changed"]
      [] entry.status # "Error" /\ ~IsWithinWindow("file") /\ ~IsWithinWindow("git")
                                /\ IsWithinWindow("controller") ->
            [state |-> "info", reason |-> "controller_changed"]
      [] OTHER ->
            IF entry.status = "Exited" /\ IsWithinWindow("status")
            THEN [state |-> "info", reason |-> "session_exited_cleanly"]
            ELSE [state |-> "none", reason |-> "none"]

\* A session that runs always has a controller: the host, or a client.
InferInteractionKind ==
    CASE entry.status = "Running" -> "interactive_line_mode"
      [] entry.status # "Running" /\ entry.output -> "completed_quickly"
      [] OTHER -> "unknown"

InferSupervisionState ==
    CASE entry.status # "Running" -> "stopped"
      [] entry.status = "Running" /\ IsWithinWindow("output") -> "active"
      [] OTHER -> "quiet"

ActivityOfKind ==
    [cosmetic |-> "cosmetic_output", cursor |-> "cosmetic_output",
     alt |-> "external_change", meaningful |-> "meaningful_output"]

InferActivityClass ==
    CASE entry.status # "Running" -> "stopped"
      [] entry.status = "Running" /\ IsWithinWindow("activity") /\ entry.kind # "none" ->
            ActivityOfKind[entry.kind]
      [] OTHER -> IF IsWithinWindow("output") THEN "meaningful_output" ELSE "idle"

BuildSemanticPreview(reason) ==
    IF reason # "none" THEN reason
    ELSE IF entry.status = "Running" /\ entry.git = "dirty" THEN "workspace_dirty" ELSE "none"

BuildAssessment ==
    [supervision |-> InferSupervisionState, interaction |-> InferInteractionKind,
     activity |-> InferActivityClass, attention |-> InferAttention,
     preview |-> BuildSemanticPreview(InferAttention.reason)]

AttachClientCounts == world.viewers

BuildSummary ==
    [status |-> entry.status, controller |-> entry.controller, git |-> entry.git,
     files |-> entry.files, assessment |-> BuildAssessment, clients |-> AttachClientCounts]
-------------------------------------------------------------------------------
(* Polls *)

\* Mutant: a session the host drives counts as driven by a client.
HasAnyController == entry.controller \in {"host", "client"}

HasPrivilegedController == entry.controller = "client"

\* The reads of one poll: the kind is that of the last one, the text that of all.
Reads == world.out # <<>>
KindAfterPoll == IF Reads THEN ClassifySemanticChange(Last(world.out)) ELSE entry.kind

IsMeaningful ==
    /\ Reads
    /\ \/ KindAfterPoll \in {"meaningful", "alt"}
       \/ /\ ~IsCosmeticTerminalOutput(world.out)
          /\ KindAfterPoll \notin {"cosmetic", "cursor"}

StatusAfterPoll ==
    CASE entry.status = "Running" /\ world.ended = "clean" -> "Exited"
      [] entry.status = "Running" /\ world.ended = "failed" -> "Error"
      [] OTHER -> entry.status

\* PollSession: the entry and its stamps once the terminal and the exit have been looked at.
PolledEntry == [entry EXCEPT !.kind = KindAfterPoll, !.output = @ \/ Reads,
                             !.status = StatusAfterPoll]

Stamped(a, s, happened) == IF happened THEN [a EXCEPT ![s] = 0] ELSE a

PolledAge ==
    LET exits == StatusAfterPoll # entry.status
    IN  Stamped(Stamped(Stamped(age, "activity", Reads \/ exits), "output", IsMeaningful),
                "status", exits)

PolledWorld == [world EXCEPT !.out = <<>>]

\* A poll by the wait of a controller, or by the pump's wait for an observer.
PollSession ==
    /\ entry' = PolledEntry
    /\ age' = PolledAge
    /\ world' = PolledWorld
    /\ UNCHANGED <<polled, overview, events>>

ShouldPoll == [git |-> polled.git >= GitPollInterval, files |-> polled.files >= FilePollInterval]

\* PollAll leaves out a session whose controller polls it itself. git and the files
\* are looked at every few seconds, once the session has been polled.
PollAll ==
    LET git == ShouldPoll.git /\ ~HasPrivilegedController /\ world.git # entry.git
        files == ShouldPoll.files /\ ~HasPrivilegedController /\ world.files
        e == IF HasPrivilegedController THEN entry ELSE PolledEntry
        a == IF HasPrivilegedController THEN age ELSE PolledAge
        w == IF HasPrivilegedController THEN world ELSE PolledWorld
    IN  /\ entry' = [e EXCEPT !.git = IF git THEN world.git ELSE @, !.files = @ \/ files]
        /\ age' = Stamped(Stamped(Stamped(a, "activity", git \/ files), "git", git), "file", files)
        /\ world' = [w EXCEPT !.files = @ /\ ~files]
        /\ polled' = [git |-> IF ShouldPoll.git THEN 0 ELSE polled.git,
                      files |-> IF ShouldPoll.files THEN 0 ELSE polled.files]
        /\ UNCHANGED events
-------------------------------------------------------------------------------
(* The overview socket *)

DoWrite(o) == [o EXCEPT !.writing = o.frames # <<>>]

Queued(o, frame) ==
    LET p == [o EXCEPT !.frames = Append(@, frame)] IN IF o.writing THEN p ELSE DoWrite(p)

\* Mutant: the payload is remembered although no frame is queued during a write.
QueueInventoryUnlessWriting(o, summary) ==
    LET payload == Inventory(summary) IN
    IF o.last = payload THEN o
    ELSE IF o.writing THEN [o EXCEPT !.last = payload]
    ELSE Queued([o EXCEPT !.last = payload], payload)

QueueInventorySnapshot(o, summary) ==
    LET payload == Inventory(summary) IN
    IF o.last = payload THEN o ELSE Queued([o EXCEPT !.last = payload], payload)

Closed == [open |-> FALSE, frames |-> <<>>, writing |-> FALSE, last |-> NoPayload, shown |-> NoPayload]

OverviewConnects ==
    /\ ~overview.open
    /\ overview' = QueueInventorySnapshot([Closed EXCEPT !.open = TRUE], BuildSummary)
    /\ UNCHANGED <<world, entry, age, polled, events>>

\* async_write completes: the frame has been sent, and the next one is begun.
WriteCompletes ==
    /\ overview.open /\ overview.writing
    /\ overview' = DoWrite([overview EXCEPT
                     !.frames = Tail(@),
                     !.shown = IF Head(overview.frames) = Observation THEN @ ELSE Head(overview.frames)])
    /\ UNCHANGED <<world, entry, age, polled, events>>

\* The maintenance timer: PollAll, then what is pending for every socket.
Pump ==
    /\ PollAll
    /\ overview' = IF overview.open THEN QueueInventorySnapshot(overview, BuildSummary') ELSE overview
-------------------------------------------------------------------------------
(* What happens *)

Room == Len(overview.frames) < MaxFrames
Happens == events < MaxEvents /\ events' = events + 1 /\ Room

ProgramWrites ==
    /\ Happens /\ entry.status = "Running" /\ world.ended = "no" /\ Len(world.out) < MaxReads
    /\ \E c \in Chunks : world' = [world EXCEPT !.out = Append(@, c)]
    /\ UNCHANGED <<entry, age, polled, overview>>

ProgramEnds ==
    /\ Happens /\ world.ended = "no"
    /\ \E how \in {"clean", "failed"} : world' = [world EXCEPT !.ended = how]
    /\ UNCHANGED <<entry, age, polled, overview>>

WorkspaceChanges ==
    /\ Happens
    /\ \E g \in {"clean", "dirty"}, f \in BOOLEAN :
        world' = [world EXCEPT !.git = g, !.files = @ \/ f]
    /\ UNCHANGED <<entry, age, polled, overview>>

ViewersChange ==
    /\ Happens
    /\ world' = [world EXCEPT !.viewers = 1 - @]
    /\ UNCHANGED <<entry, age, polled, overview>>

\* RequestControl and ReleaseControl by a client that drives the session.
ControlChanges(from, to) ==
    /\ Room /\ entry.controller = from
    /\ entry' = [entry EXCEPT !.controller = to]
    /\ age' = [age EXCEPT !.activity = 0, !.controller = 0]
    /\ UNCHANGED <<world, polled, overview, events>>

RequestControl == entry.status = "Running" /\ ControlChanges("host", "client")
ReleaseControl == ControlChanges("client", "host")

\* BroadcastObservationCreated: posted to the socket, and queued there.
ObservationCreated ==
    /\ Happens /\ overview.open
    /\ overview' = Queued(overview, Observation)
    /\ UNCHANGED <<world, entry, age, polled>>

OverviewLeaves ==
    /\ Happens /\ overview.open
    /\ overview' = Closed
    /\ UNCHANGED <<world, entry, age, polled>>

Least(a, b) == IF a < b THEN a ELSE b

Tick ==
    /\ Room
    /\ age' = [s \in Stamps |-> Least(age[s] + 1, Windows[s] + 1)]
    /\ polled' = [git |-> Least(polled.git + 1, GitPollInterval),
                  files |-> Least(polled.files + 1, FilePollInterval)]
    /\ UNCHANGED <<world, entry, overview, events>>
-------------------------------------------------------------------------------
Never(s) == Windows[s] + 1

Init ==
    /\ world = [out |-> <<>>, ended |-> "no", git |-> "clean", files |-> FALSE, viewers |-> 0]
    /\ entry = [status |-> "Running", kind |-> "none", output |-> FALSE, git |-> "clean",
                files |-> FALSE, controller |-> "host"]
    /\ age = [s \in Stamps |-> IF s \in {"status", "activity"} THEN 0 ELSE Never(s)]
    /\ polled = [git |-> GitPollInterval, files |-> FilePollInterval]
    /\ overview = Closed
    /\ events = 0

Next ==
    \/ PollSession \/ Pump \/ OverviewConnects \/ WriteCompletes
    \/ ProgramWrites \/ ProgramEnds \/ WorkspaceChanges \/ ViewersChange
    \/ RequestControl \/ ReleaseControl \/ ObservationCreated \/ OverviewLeaves
    \/ Tick

\* The timer and the clock go on, a client that drives polls, and a peer reads. Nobody
\* has to connect or to give control back.
Fairness ==
    /\ WF_vars(Pump) /\ WF_vars(Tick)
    /\ WF_vars(HasPrivilegedController /\ PollSession)
    /\ WF_vars(WriteCompletes)

Spec == Init /\ [][Next]_vars /\ Fairness
-------------------------------------------------------------------------------
\* Type invariant: the world, the entry and its stamps.
TypeOK ==
    /\ world \in [out : Seq(Chunks), ended : {"no", "clean", "failed"},
                  git : {"clean", "dirty"}, files : BOOLEAN, viewers : 0..1]
    /\ entry \in [status : {"Running", "Exited", "Error"}, kind : Kinds, output : BOOLEAN,
                  git : {"clean", "dirty"}, files : BOOLEAN, controller : {"host", "client"}]
    /\ age \in [Stamps -> Nat]
    /\ polled \in [git : 0..GitPollInterval, files : 0..FilePollInterval]
    /\ events \in 0..MaxEvents

HostStays == <>[](entry.controller = "host")
ClientStays == <>[](entry.controller = "client")

\* Once nothing happens any more and control stays where it is, an overview client that
\* stays and reads comes to show what is the case and shows nothing else from then on:
\* also when all that changes is that attention fades with time, when the last frame was
\* suppressed as a repetition, or when the change came while a write was under way.
Converges ==
    <>[]overview.open /\ (HostStays \/ ClientStays) => <>[](overview.shown = Inventory(BuildSummary))

\* A change of the git state or of the files is noticed once no client takes control any
\* more, however often one did before: PollAll resets both intervals also when it leaves the
\* session out, but forgets no change. A client that has control at every poll that is due
\* keeps it from being noticed, also if it gives control back in between.
ChangesNoticed == HostStays => <>[](entry.git = world.git /\ ~world.files)
===============================================================================
