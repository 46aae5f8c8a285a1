------------------------------ MODULE LogSessions -----------------------------
(***************************************************************************)
(* One log session: a program whose stdout and stderr are pipes, the two   *)
(* reader threads of ManagedLogProcess, the LogBuffer they fill, and the   *)
(* io thread, which polls and stops the program and answers queries.       *)
(*                                                                         *)
(* A reader takes bytes out of its pipe, waits for log_mutex_ and appends  *)
(* them: two steps, between which the other reader and the io thread run.  *)
(* PollExit and Terminate first reap the program and then join the         *)
(* readers, also two steps: the io thread is stuck in between. A process   *)
(* that the program leaves behind keeps the pipes open.                    *)
(*                                                                         *)
(* Abstractions. A byte is a letter, a carriage return or a newline.       *)
(* Timestamps, byte offsets, Search and entry ids are left out; an id is   *)
(* the revision. log_mutex_ is held by one step at a time.                 *)
(***************************************************************************)
EXTENDS Integers, Sequences, FiniteSets, SequencesExt

CONSTANTS
    MaxRead,       \* the buffer of a reader
    LimitEntries,  \* limits_.max_entries, 0 for none
    LimitBytes,    \* limits_.max_bytes, 0 for none
    MaxBytes       \* bound: bytes written to both pipes together

ASSUME LogAssumption ==
    /\ MaxRead \in Nat \ {0}
    /\ {LimitEntries, LimitBytes, MaxBytes} \subseteq Nat

VARIABLES
    program,   \* the program, what it left behind, and what both have written
    pipe,      \* per stream: the bytes in the pipe
    reader,    \* per stream: the thread, and the bytes it has read
    buffer,    \* entries_, next_revision_ and the counters of LogBuffer
    open,      \* per stream: the partial line and pending_cr
    session,   \* pid_ and the status in the entry, and where the io thread is
    completed  \* every line completed so far

vars == <<program, pipe, reader, buffer, open, session, completed>>

Streams == {"stdout", "stderr"}

CR == "\r"
LF == "\n"
Chars == {"a", CR, LF}

Texts == Seq(Chars \ {CR, LF})
Entries == [revision : Nat \ {0}, stream : Streams, text : Texts]
Lines == [stream : Streams, text : Texts]

\* The bytes of all texts together: one for every entry and place in its text.
TotalBytes(entries) ==
    Cardinality(UNION {{i} \X DOMAIN entries[i].text : i \in DOMAIN entries})
-------------------------------------------------------------------------------
(* LogBuffer *)

Fits(entries) ==
    /\ LimitEntries > 0 => Len(entries) <= LimitEntries
    /\ LimitBytes > 0 => TotalBytes(entries) <= LimitBytes

\* EvictIfNeeded: from the front, until it fits or is empty.
Evicted(entries) ==
    LET kept(n) == SubSeq(entries, n + 1, Len(entries))
    IN  CHOOSE n \in 0..Len(entries) :
            /\ n = Len(entries) \/ Fits(kept(n))
            /\ \A m \in 0..(n - 1) : ~Fits(kept(m))

\* Mutant: the bytes of what is evicted stay on the account.
CompleteLineForgets(b, s, text) ==
    LET grown == Append(b.entries, [revision |-> b.next, stream |-> s, text |-> text])
        n == Evicted(grown)
    IN  [b EXCEPT !.entries = SubSeq(grown, n + 1, Len(grown)),
                  !.next = @ + 1,
                  !.retained = @ + Len(text),
                  !.dropped = @ + n,
                  !.droppedBytes = @ + TotalBytes(SubSeq(grown, 1, n))]

CompleteLine(b, s, text) ==
    LET grown == Append(b.entries, [revision |-> b.next, stream |-> s, text |-> text])
        n == Evicted(grown)
        gone == TotalBytes(SubSeq(grown, 1, n))
    IN  [b EXCEPT !.entries = SubSeq(grown, n + 1, Len(grown)),
                  !.next = @ + 1,
                  !.retained = @ + Len(text) - gone,
                  !.dropped = @ + n,
                  !.droppedBytes = @ + gone]

\* One round of the loop of Append, on the buffer, the partial line and
\* pending_cr of stream s. A partial line never holds a carriage return.
Completed(st, s) ==
    [st EXCEPT !.buffer = CompleteLine(@, s, st.partial),
               !.lines = Append(@, [stream |-> s, text |-> st.partial]),
               !.partial = <<>>,
               !.cr = FALSE]

\* Mutant: a carriage return at the end of the data is taken for a rewrite.
AppendCharAtOnce(st, s, data, i) ==
    CASE data[i] = CR /\ i < Len(data) /\ data[i + 1] = LF -> st
      [] data[i] = LF -> Completed(st, s)
      [] data[i] = CR -> [st EXCEPT !.partial = <<>>]
      [] OTHER -> [st EXCEPT !.partial = Append(@, data[i])]

AppendChar(st, s, data, i) ==
    LET ch == data[i]
        last == i = Len(data)
        \* a carriage return was left undecided and is not part of a line ending
        rewritten == [st EXCEPT !.partial = IF st.cr THEN <<>> ELSE @, !.cr = FALSE]
    IN  CASE ch = LF -> Completed(st, s)
          [] ch = CR /\ ~last /\ data[i + 1] = LF -> rewritten
          [] ch = CR /\ ~last /\ data[i + 1] # LF -> [rewritten EXCEPT !.partial = <<>>]
          [] ch = CR /\ last -> [rewritten EXCEPT !.cr = TRUE]
          [] OTHER -> [rewritten EXCEPT !.partial = Append(@, ch)]

\* The loop: the one state that the data leads to, as a set.
AppendData(s, data) ==
    LET after[i \in 0..Len(data)] ==
            IF i = 0
            THEN {[buffer |-> buffer, lines |-> completed, partial |-> open[s].partial, cr |-> open[s].cr]}
            ELSE {AppendChar(st, s, data, i) : st \in after[i - 1]}
    IN  after[Len(data)]
-------------------------------------------------------------------------------
(* Queries *)

OldestRevision ==
    IF buffer.entries = <<>> THEN buffer.next ELSE Head(buffer.entries).revision

LatestRevision ==
    IF buffer.entries = <<>> THEN buffer.next - 1 ELSE Last(buffer.entries).revision

ContainsRevision(r) ==
    buffer.entries # <<>> /\ OldestRevision <= r /\ r <= LatestRevision

\* Tail with include_partial: partial lines carry the next revision.
Partials ==
    LET part(s) == IF open[s].partial = <<>> THEN <<>>
                   ELSE <<[revision |-> buffer.next, stream |-> s, text |-> open[s].partial]>>
    IN  part("stdout") \o part("stderr")

Tail_(limit) ==
    LET n == Len(buffer.entries)
        lines == Min({n, Max({0, limit - Len(Partials)})})
    IN  SubSeq(buffer.entries, n - lines + 1, n)
        \o SubSeq(Partials, 1, Min({Len(Partials), limit - lines}))

\* Mutant: the end of the range is taken for one past it.
RangeShort(from, to, limit) ==
    IF limit = 0 \/ from > to \/ buffer.entries = <<>> \/ to < OldestRevision \/ from > LatestRevision
    THEN <<>>
    ELSE LET start == Max({from, OldestRevision}) - OldestRevision
             end == Min({to, LatestRevision}) - OldestRevision
         IN  SubSeq(buffer.entries, start + 1, start + Min({limit, end - start}))

Range_(from, to, limit) ==
    IF limit = 0 \/ from > to \/ buffer.entries = <<>> \/ to < OldestRevision \/ from > LatestRevision
    THEN <<>>
    ELSE LET start == Max({from, OldestRevision}) - OldestRevision
             end == Min({to, LatestRevision}) - OldestRevision
         IN  SubSeq(buffer.entries, start + 1, start + Min({limit, end - start + 1}))

\* RangeEvidence: are lines missing because they were evicted?
RangeTruncated(from) == from < OldestRevision /\ buffer.dropped > 0

\* ContextEvidence: none, which is answered as exhausted, or the lines around
\* revision r, whose index is its distance to the oldest one.
ContextExhausted(r) == ~ContainsRevision(r)

Context(r, before, after) ==
    LET anchor == r - OldestRevision
    IN  SubSeq(buffer.entries, Max({0, anchor - before}) + 1,
               Min({Len(buffer.entries), anchor + after + 1}))
-------------------------------------------------------------------------------
Init ==
    /\ program = [state |-> "running", helper |-> FALSE, written |-> [s \in Streams |-> <<>>]]
    /\ pipe = [s \in Streams |-> <<>>]
    /\ reader = [s \in Streams |-> [alive |-> TRUE, data |-> <<>>]]
    /\ buffer = [entries |-> <<>>, next |-> 1, retained |-> 0, dropped |-> 0, droppedBytes |-> 0]
    /\ open = [s \in Streams |-> [partial |-> <<>>, cr |-> FALSE]]
    /\ session = [pid |-> "held", status |-> "Running", joining |-> "no"]
    /\ completed = <<>>

\* external: somebody can still write to the pipes.
HasWriter == program.state = "running" \/ program.helper

\* external: the program, or what it left behind, writes a byte.
ProgramWrites(s, c) ==
    /\ HasWriter
    /\ Len(program.written["stdout"]) + Len(program.written["stderr"]) < MaxBytes
    /\ program' = [program EXCEPT !.written[s] = Append(@, c)]
    /\ pipe' = [pipe EXCEPT ![s] = Append(@, c)]
    /\ UNCHANGED <<reader, buffer, open, session, completed>>

\* external: the program starts a process that goes on in the background.
HelperStarts ==
    /\ program.state = "running" /\ ~program.helper
    /\ program' = [program EXCEPT !.helper = TRUE]
    /\ UNCHANGED <<pipe, reader, buffer, open, session, completed>>

HelperEnds ==
    /\ program.helper
    /\ program' = [program EXCEPT !.helper = FALSE]
    /\ UNCHANGED <<pipe, reader, buffer, open, session, completed>>

\* external: the program ends, with zero or not.
ProgramEnds(how) ==
    /\ program.state = "running"
    /\ program' = [program EXCEPT !.state = how]
    /\ UNCHANGED <<pipe, reader, buffer, open, session, completed>>

\* StartReader: read.
ReaderReads(s) ==
    /\ reader[s].alive /\ reader[s].data = <<>> /\ pipe[s] # <<>>
    /\ LET n == Min({Len(pipe[s]), MaxRead})
       IN  /\ reader' = [reader EXCEPT ![s].data = SubSeq(pipe[s], 1, n)]
           /\ pipe' = [pipe EXCEPT ![s] = SubSeq(@, n + 1, Len(@))]
    /\ UNCHANGED <<program, buffer, open, session, completed>>

\* Mutant: the io thread joins the readers with log_mutex_ held.
ReaderAppendsUnlessJoined(s) ==
    /\ reader[s].data # <<>>
    /\ session.joining = "no"
    /\ \E st \in AppendData(s, reader[s].data) :
          /\ buffer' = st.buffer
          /\ open' = [open EXCEPT ![s] = [partial |-> st.partial, cr |-> st.cr]]
          /\ completed' = st.lines
    /\ reader' = [reader EXCEPT ![s].data = <<>>]
    /\ UNCHANGED <<program, pipe, session>>

\* The callback: AppendLogStdout and AppendLogStderr under log_mutex_.
ReaderAppends(s) ==
    /\ reader[s].data # <<>>
    /\ \E st \in AppendData(s, reader[s].data) :
          /\ buffer' = st.buffer
          /\ open' = [open EXCEPT ![s] = [partial |-> st.partial, cr |-> st.cr]]
          /\ completed' = st.lines
    /\ reader' = [reader EXCEPT ![s].data = <<>>]
    /\ UNCHANGED <<program, pipe, session>>

\* The end of the pipe: it is empty and nobody can write to it.
ReaderEnds(s) ==
    /\ reader[s].alive /\ reader[s].data = <<>> /\ pipe[s] = <<>> /\ ~HasWriter
    /\ reader' = [reader EXCEPT ![s].alive = FALSE]
    /\ UNCHANGED <<program, pipe, buffer, open, session, completed>>

\* PollSession up to waitpid: the program has ended and is reaped.
PollExit ==
    /\ session.joining = "no" /\ session.status = "Running"
    /\ program.state \in {"succeeded", "failed"}
    /\ program' = [program EXCEPT !.state = "reaped"]
    /\ session' = [session EXCEPT !.pid = "none",
                       !.joining = IF program.state = "succeeded" THEN "Exited" ELSE "Error"]
    /\ UNCHANGED <<pipe, reader, buffer, open, completed>>

\* StopSession and Shutdown up to the join: the program is killed and reaped.
\* One that cannot be killed is left alone. Only the program itself is signalled.
Terminate ==
    /\ session.joining = "no" /\ session.status = "Running"
    /\ program' = [program EXCEPT !.state = "reaped"]
    /\ session' = [session EXCEPT !.pid = "none", !.joining = "Exited"]
    /\ UNCHANGED <<pipe, reader, buffer, open, completed>>

\* Mutant: the readers are left to finish by themselves.
JoinNobody ==
    /\ session.joining # "no"
    /\ session' = [session EXCEPT !.status = session.joining, !.joining = "no"]
    /\ UNCHANGED <<program, pipe, reader, buffer, open, completed>>

\* The join returns, and the status is set and stored.
JoinReaders ==
    /\ session.joining # "no"
    /\ \A s \in Streams : ~reader[s].alive
    /\ session' = [session EXCEPT !.status = session.joining, !.joining = "no"]
    /\ UNCHANGED <<program, pipe, reader, buffer, open, completed>>

Next ==
    \/ \E s \in Streams :
          \/ \E c \in Chars : ProgramWrites(s, c)
          \/ ReaderReads(s)
          \/ ReaderAppends(s)
          \/ ReaderEnds(s)
    \/ HelperStarts
    \/ HelperEnds
    \/ \E how \in {"succeeded", "failed"} : ProgramEnds(how)
    \/ PollExit
    \/ Terminate
    \/ JoinReaders

Spec == Init /\ [][Next]_vars

\* Threads run, and the maintenance timer polls.
FairSpec ==
    /\ Spec
    /\ \A s \in Streams : WF_vars(ReaderReads(s)) /\ WF_vars(ReaderAppends(s)) /\ WF_vars(ReaderEnds(s))
    /\ WF_vars(PollExit)
    /\ WF_vars(JoinReaders)
-------------------------------------------------------------------------------
\* Type invariant: threads, pipes, lines and counters.
TypeOK ==
    /\ program \in [state : {"running", "succeeded", "failed", "reaped"}, helper : BOOLEAN,
                    written : [Streams -> Seq(Chars)]]
    /\ pipe \in [Streams -> Seq(Chars)]
    /\ reader \in [Streams -> [alive : BOOLEAN, data : Seq(Chars)]]
    /\ \A s \in Streams : Len(reader[s].data) <= MaxRead
    /\ buffer \in [entries : Seq(Entries), next : Nat \ {0}, retained : Nat, dropped : Nat, droppedBytes : Nat]
    /\ open \in [Streams -> [partial : Texts, cr : BOOLEAN]]
    /\ session \in [pid : {"held", "none"}, status : {"Running", "Exited", "Error"},
                    joining : {"no", "Exited", "Error"}]
    /\ session.pid = "held" <=> program.state # "reaped"
    /\ completed \in Seq(Lines)

\* What LogBuffer should make of the bytes before place e, where a newline stands or where
\* nothing has been appended yet: what follows the last newline or carriage return, but for
\* a carriage return right at the end, which belongs to the end of the line.
LineBefore(bytes, e) ==
    LET stop == IF e > 1 /\ bytes[e - 1] = CR THEN e - 2 ELSE e - 1
        start == Max({0} \cup {i \in 1..stop : bytes[i] \in {CR, LF}})
    IN  SubSeq(bytes, start + 1, stop)

\* How much of a stream has come out of the pipe and been appended.
Appended(s) == Len(program.written[s]) - Len(pipe[s]) - Len(reader[s].data)

\* However the bytes of a stream are cut into reads, and whatever the other stream
\* does meanwhile, LogBuffer makes the same lines of them: one for each newline, in order.
LinesAsWritten ==
    \A s \in Streams :
        LET bytes == program.written[s]
            newlines == {i \in 1..Appended(s) : bytes[i] = LF}
            mine == {k \in DOMAIN completed : completed[k].stream = s}
        IN  /\ \E end \in [mine -> newlines] :
                  /\ \A j, k \in mine : j < k => end[j] < end[k]
                  /\ \A i \in newlines : \E k \in mine : end[k] = i
                  /\ \A k \in mine : completed[k].text = LineBefore(bytes, end[k])
            /\ open[s].partial = LineBefore(bytes, Appended(s) + 1)

\* The entries are the latest lines, with their numbers and in their order, as many
\* as the limits allow and not fewer; the counters say what they say.
Retention ==
    LET kept == Len(buffer.entries)
        gone == Len(completed) - kept
        back(n) == SubSeq(completed, Len(completed) - n + 1, Len(completed))
    IN  /\ buffer.dropped = gone /\ buffer.next = Len(completed) + 1
        /\ \A i \in DOMAIN buffer.entries :
              /\ buffer.entries[i].revision = gone + i
              /\ [stream |-> buffer.entries[i].stream, text |-> buffer.entries[i].text] = completed[gone + i]
        /\ buffer.retained = TotalBytes(buffer.entries)
        /\ buffer.droppedBytes = TotalBytes(completed) - buffer.retained
        /\ Fits(buffer.entries)
        /\ gone > 0 => ~Fits(back(kept + 1))

\* What the queries, which compute with indices, should return: the lines from..to that
\* are there, in their order, or the first `limit` of them.
Lists(answer, from, to, limit) ==
    LET wanted == {e \in ToSet(buffer.entries) : from <= e.revision /\ e.revision <= to}
    IN  /\ ToSet(answer) \subseteq wanted
        /\ \A i, j \in DOMAIN answer : i < j => answer[i].revision < answer[j].revision
        /\ Len(answer) <= limit
        /\ \A e \in wanted \ ToSet(answer) :
              Len(answer) = limit /\ \A i \in DOMAIN answer : answer[i].revision < e.revision

\* A range holds the first lines of it that are there. A context holds its line and
\* as many around it as were asked for and are there. A tail ends with the newest
\* line and is short only when there is nothing more to show. A reader of a range is told
\* when lines of it have been evicted, and is not told so while all of them are there.
QueriesOK ==
    \A n \in 0..2, r \in 0..(buffer.next + 1) :
        /\ \A to \in 0..(buffer.next + 1) : Lists(Range_(r, to, n), r, to, n)
        /\ ContextExhausted(r) <=> r \notin (buffer.dropped + 1)..(buffer.next - 1)
        /\ ~ContextExhausted(r) =>
              \A after \in 0..2 : Lists(Context(r, n, after), r - n, r + after, Len(buffer.entries))
        /\ IsSuffix(Tail_(n), buffer.entries \o Partials) \/ (n = 1 /\ Tail_(n) = SubSeq(Partials, 1, 1))
        /\ Len(Tail_(n)) = Min({n, Len(buffer.entries) + Len(Partials)})
        /\ \A to \in r..(buffer.next + 1) :
              r > 0 => (RangeTruncated(r) <=> \E lost \in r..to : lost <= buffer.dropped)

\* A session that has ended has everything its program wrote in the buffer, the last
\* words of the program included.
NothingLost ==
    session.status # "Running" => \A s \in Streams : Appended(s) = Len(program.written[s])

\* The end of the program is noticed and the io thread comes back from the join,
\* unless a process in the background keeps the pipes open.
EndNoticed ==
    program.state # "running" ~> (session.status # "Running" \/ program.helper)
===============================================================================
