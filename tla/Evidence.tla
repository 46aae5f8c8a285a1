-------------------------------- MODULE Evidence ------------------------------
(***************************************************************************)
(* What clients read of a log session, and what is kept of it: evidence is *)
(* a slice of the log (tail, search, range, context). A read on behalf of  *)
(* a session (the actor) is an observation, which is kept for a while and  *)
(* broadcast. A slice, or a text somebody wrote, may be stored as a        *)
(* directory with a content file and a metadata file. Prompt templates are *)
(* files beside them.                                                      *)
(*                                                                         *)
(* The io thread handles one request at a time; the log grows under it,    *)
(* and the host may crash between any two writes. A write fails without    *)
(* having written; a removal of a directory stops at the first error.      *)
(*                                                                         *)
(* Abstractions. A line matches the query, or not, or is not UTF-8, which  *)
(* the JSON parser rejects and the serializer does not. Of the two streams *)
(* one may have a line that has not ended. Titles, times, sizes and replay *)
(* tokens are left out; requests that are refused before they change or    *)
(* read anything (authorisation, identifiers, parsing) are not made.       *)
(***************************************************************************)
EXTENDS Naturals, Sequences, SequencesExt

CONSTANTS
    Ids,            \* evidence ids; a random one is not drawn twice
    Actors,         \* sessions on whose behalf evidence is read
    NoActor,        \* a client that reads for itself
    OwnTemplates,   \* templates besides the default ones
    Kinds,          \* kinds of lines: "match", "other", "binary"
    Limits,         \* limits of the requests
    MaxEvents,      \* limits_.max_events of ObservationStore
    LimitEntries,   \* lines that the log keeps
    MaxLines,       \* bound: lines of the log
    MaxRequests     \* bound: requests and crashes, and nothing is logged after the last

ASSUME EvidenceAssumption ==
    /\ Kinds \subseteq {"match", "other", "binary"}
    /\ Limits \subseteq Nat
    /\ {MaxEvents, LimitEntries} \subseteq Nat \ {0}

VARIABLES
    log,        \* the lines so far, the oldest one kept, and whether one is open
    events,     \* events_ of ObservationStore
    sent,       \* the observations that have been broadcast
    reads,      \* the reads on behalf of an actor
    files,      \* per evidence id: what its directory holds
    asked,      \* per evidence id: what was asked for, and the answer
    task,       \* the request whose files the io thread is at
    templates,  \* per template: the content of its file
    told,       \* per template: what the last answer said of it, if that still stands
    requests    \* requests so far

logVars == <<log>>
auditVars == <<events, sent, reads>>
storeVars == <<files, asked, task>>
templateVars == <<templates, told>>
vars == <<log, events, sent, reads, files, asked, task, templates, told, requests>>

None == <<>>    \* an optional value that is not there; one that is there is <<value>>
Idle == [step |-> "idle"]
DefaultTemplates == {"code_review.md", "debugging.md"}
Templates == DefaultTemplates \cup OwnTemplates
-------------------------------------------------------------------------------
(* The log, and the slices of it *)

Latest == Len(log.lines)
Entry(r) == [revision |-> r, kind |-> log.lines[r]]
Kept(from, to) == [i \in 1..(to + 1 - from) |-> Entry(from + i - 1)]
Entries == Kept(log.oldest, Latest)

\* external: a reader thread completes a line; the oldest one may have to go.
LogLine(kind) ==
    /\ Latest < MaxLines /\ requests < MaxRequests
    /\ log' = [lines |-> Append(log.lines, kind),
               oldest |-> Max({log.oldest, Latest + 2 - LimitEntries}),
               open |-> FALSE]
    /\ UNCHANGED <<auditVars, storeVars, templateVars, requests>>

\* external: the first bytes of the next line.
LogPartial ==
    /\ ~log.open /\ Latest < MaxLines /\ requests < MaxRequests
    /\ log' = [log EXCEPT !.open = TRUE]
    /\ UNCHANGED <<auditVars, storeVars, templateVars, requests>>

MakeEvidenceResult(op, entries, truncated) ==
    [op |-> op, entries |-> entries, truncated |-> truncated,
     start |-> IF entries = <<>> THEN 0 ELSE Head(entries).revision,
     end |-> IF entries = <<>> THEN 0 ELSE Last(entries).revision]

\* A line that has not ended is read with the revision it will have.
TailEvidence(limit) ==
    LET partial == IF log.open THEN <<[revision |-> Latest + 1, kind |-> "open"]>> ELSE <<>>
        whole == IF limit > Len(partial) THEN limit - Len(partial) ELSE 0
    IN  MakeEvidenceResult("tail",
            IF limit = 0 THEN <<>> ELSE Kept(Max({log.oldest, Latest + 1 - Min({whole, Latest})}), Latest) \o partial,
            FALSE)

\* Cut short by the limit is not truncated; cut short by eviction is.
RangeEvidence(from, to, limit) ==
    LET inside == SelectSeq(Entries, LAMBDA e : from <= e.revision /\ e.revision <= to)
    IN  MakeEvidenceResult("range", SubSeq(inside, 1, Min({limit, Len(inside)})),
                           from < log.oldest /\ log.oldest > 1)

SearchEvidence(limit) ==
    LET found == SelectSeq(Entries, LAMBDA e : e.kind = "match")
    IN  MakeEvidenceResult("search", SubSeq(found, 1, Min({limit, Len(found)})),
                           limit > 0 /\ Len(found) > limit)

\* A line that is not kept is answered as exhausted, which is truncated.
ContextEvidence(r, limit) ==
    IF log.oldest <= r /\ r <= Latest
    THEN MakeEvidenceResult("context", Kept(Max({log.oldest, r - Min({r, limit})}), Min({Latest, r + limit})), FALSE)
    ELSE MakeEvidenceResult("context", <<>>, TRUE)

\* The results of all the requests with these limits.
Results(limits) ==
    UNION {{TailEvidence(n), SearchEvidence(n)}
             \cup {RangeEvidence(r, Latest, n) : r \in 1..Latest}
             \cup {ContextEvidence(r, n) : r \in 1..Latest} : n \in limits}

\* The capture of a POST: a limit of zero is refused.
CaptureEvidenceFromRequest == Results(Limits \ {0})
-------------------------------------------------------------------------------
(* Observations *)

\* EvidenceResponseAssembler: what is said of a read.
Observation(actor, r) ==
    [actor |-> actor, op |-> r.op, start |-> r.start, end |-> r.end,
     count |-> Len(r.entries), truncated |-> r.truncated]

\* An observation gets an id when it is inserted; it is compared without.
Event(o, id) == [k \in DOMAIN o \cup {"id"} |-> IF k = "id" THEN id ELSE o[k]]
Keyed(event) == [k \in DOMAIN event \ {"id"} |-> event[k]]

\* Mutant: reads that begin at the same line are the same.
IsDuplicateTailFromStart(o) ==
    /\ events # <<>> /\ o.op = "tail"
    /\ LET previous == Last(events)
       IN  previous.op = "tail" /\ previous.actor = o.actor /\ previous.start = o.start

IsDuplicateTailObservation(o) ==
    events # <<>> /\ o.op = "tail" /\ Keyed(Last(events)) = o

EvictIfNeeded(es) == SubSeq(es, Len(es) + 1 - Min({MaxEvents, Len(es)}), Len(es))

\* AddWithStatus, and the broadcast of what was inserted. Ids count from the start of
\* the host, so that the next one is one more than what has been sent.
AddWithStatus(o) ==
    /\ reads' = Append(reads, o)
    /\ IF IsDuplicateTailObservation(o) THEN UNCHANGED <<events, sent>>
       ELSE LET event == Event(o, Len(sent) + 1)
            IN  events' = EvictIfNeeded(Append(events, event)) /\ sent' = Append(sent, event)

\* GET /observations.
ListNewestFirst(limit) ==
    [i \in 1..Min({limit, Len(events)}) |-> events[Len(events) + 1 - i]]
-------------------------------------------------------------------------------
(* Stored evidence *)

Request == task = Idle /\ requests < MaxRequests /\ requests' = requests + 1

\* Mutant: the metadata first.
CreateOrderSwapped == <<"metadata", "content">>

CreateOrder == <<"content", "metadata">>

\* A request that stores evidence under a new id: the files are still to be written.
Create(kind, content, via) ==
    \E id \in Ids :
        /\ asked[id].state = "never"
        /\ asked' = [asked EXCEPT ![id] = [state |-> "creating", kind |-> kind, content |-> content]]
        /\ task' = [step |-> "create", id |-> id, left |-> CreateOrder, via |-> via]
        /\ UNCHANGED files

Answer(id, state) == asked' = [asked EXCEPT ![id].state = state] /\ task' = Idle

\* json::parse takes a slice whose lines are all UTF-8.
IsText(content) == \A i \in DOMAIN content : content[i].kind # "binary"

\* The observation first; then, with persist=true, the slice is stored.
FinalizeEvidenceResponse(r, actor, persist) ==
    /\ IF actor = NoActor THEN UNCHANGED auditVars ELSE AddWithStatus(Observation(actor, r))
    /\ IF persist THEN Create("log_snapshot", r.entries, "get") ELSE UNCHANGED storeVars

\* GET evidence/{operation}.
HandleEvidenceRequest(actor, persist) ==
    /\ Request
    /\ \E r \in Results(Limits) : FinalizeEvidenceResponse(r, actor, persist)
    /\ UNCHANGED <<logVars, templateVars>>

\* POST stored-evidence. A capture on behalf of somebody is not observed.
PostSnapshot ==
    /\ Request
    /\ \E r \in CaptureEvidenceFromRequest : Create("log_snapshot", r.entries, "post")
    /\ UNCHANGED <<logVars, auditVars, templateVars>>

PostMarkdown ==
    /\ Request
    /\ Create("user_markdown", <<[revision |-> 0, kind |-> "other"]>>, "post")
    /\ UNCHANGED <<logVars, auditVars, templateVars>>

Written(id, file) ==
    [files EXCEPT ![id][file] = <<IF file = "content" THEN asked[id].content ELSE asked[id].kind>>]

\* One of the two writes. With the last one the request is answered; the answer to a
\* GET is parsed once more to put the id into it, when the evidence is already stored.
CreateWrites ==
    /\ task.step = "create"
    /\ files' = Written(task.id, Head(task.left))
    /\ IF Len(task.left) > 1
       THEN task' = [task EXCEPT !.left = Tail(@)] /\ UNCHANGED asked
       ELSE Answer(task.id, IF task.via = "get" /\ ~IsText(asked[task.id].content)
                            THEN "not annotated" ELSE "created")
    /\ UNCHANGED <<logVars, auditVars, templateVars, requests>>

\* A write fails: what is there is removed, if it can be, and the request refused.
CreateFails ==
    /\ task.step = "create"
    /\ \/ files' = [files EXCEPT ![task.id] = [content |-> None, metadata |-> None]]
       \/ UNCHANGED files
    /\ Answer(task.id, "refused")
    /\ UNCHANGED <<logVars, auditVars, templateVars, requests>>

\* DELETE stored-evidence/{id}.
DeleteStored(id) ==
    /\ Request
    /\ asked[id].state # "never"
    /\ asked' = [asked EXCEPT ![id].state = "removing"]
    /\ task' = [step |-> "remove", id |-> id]
    /\ UNCHANGED <<files, logVars, auditVars, templateVars>>

\* remove_all unlinks the files in the order of the directory, or stops at an error,
\* which is answered with "evidence not found".
RemoveUnlinks ==
    /\ task.step = "remove"
    /\ \E file \in {f \in {"content", "metadata"} : files[task.id][f] # None} :
           files' = [files EXCEPT ![task.id][file] = None]
    /\ UNCHANGED <<asked, task, logVars, auditVars, templateVars, requests>>

RemoveEnds ==
    /\ task.step = "remove"
    /\ \/ files[task.id] = [content |-> None, metadata |-> None] /\ Answer(task.id, "deleted")
       \/ Answer(task.id, "half removed")
    /\ UNCHANGED <<files, logVars, auditVars, templateVars, requests>>

\* The kind, or none.
LoadStoredEvidenceMetadata(id) == files[id].metadata

ListEvidence == {id \in Ids : LoadStoredEvidenceMetadata(id) # None}

\* The content, or none.
LoadEvidence(id) ==
    IF LoadStoredEvidenceMetadata(id) = None THEN None ELSE files[id].content

\* GET stored-evidence/{id}: a slice is parsed again.
GetStored(id) ==
    IF LoadEvidence(id) = None THEN "not found"
    ELSE IF LoadStoredEvidenceMetadata(id) = <<"log_snapshot">> /\ ~IsText(LoadEvidence(id)[1]) THEN "invalid"
    ELSE "ok"
-------------------------------------------------------------------------------
(* Templates *)

NoTemplates == \A t \in Templates : templates[t] = None

\* Mutant: whenever one of the defaults is missing.
MustSeedAny == \E t \in DefaultTemplates : templates[t] = None

MustSeed == NoTemplates

\* Without any template the defaults are written, each if it can be. A default that was
\* deleted is then there again.
SeedDefaultTemplatesIfEmpty ==
    /\ MustSeed
    /\ \E seeded \in SUBSET DefaultTemplates :
        templates' = [t \in Templates |-> IF t \in seeded THEN <<"default">> ELSE templates[t]]
    /\ UNCHANGED told

\* GET /templates, GET /templates/{id}.
GetTemplates ==
    /\ Request
    /\ SeedDefaultTemplatesIfEmpty
    /\ UNCHANGED <<logVars, auditVars, storeVars>>

\* What is said of a template. Once none is left, no deletion stands any more.
Tells(t, what) ==
    LET said == [told EXCEPT ![t] = what]
    IN  told' = [u \in Templates |-> IF said[u] = "deleted" /\ NoTemplates' THEN "nothing" ELSE said[u]]

\* A write that fails may have removed the old file.
UpsertTemplate(t) ==
    \/ templates' = [templates EXCEPT ![t] = <<"own">>] /\ Tells(t, "own")
    \/ templates' \in {templates, [templates EXCEPT ![t] = None]} /\ Tells(t, "nothing")

\* PUT /templates/{id}.
PutTemplate(t) ==
    /\ Request
    /\ UpsertTemplate(t)
    /\ UNCHANGED <<logVars, auditVars, storeVars>>

\* DELETE /templates/{id}; one that cannot be removed is "not found".
DeleteTemplate(t) ==
    /\ Request
    /\ templates[t] # None
    /\ templates' = [templates EXCEPT ![t] = None]
    /\ Tells(t, "deleted")
    /\ UNCHANGED <<logVars, auditVars, storeVars>>
-------------------------------------------------------------------------------
Init ==
    /\ log = [lines |-> <<>>, oldest |-> 1, open |-> FALSE]
    /\ events = <<>> /\ sent = <<>> /\ reads = <<>>
    /\ files = [id \in Ids |-> [content |-> None, metadata |-> None]]
    /\ asked = [id \in Ids |-> [state |-> "never"]]
    /\ task = Idle
    /\ templates = [t \in Templates |-> None]
    /\ told = [t \in Templates |-> "nothing"]
    /\ requests = 0

\* The host dies and starts again, with a log session that is a new one.
Crash ==
    /\ requests < MaxRequests /\ requests' = requests + 1
    /\ log' = [lines |-> <<>>, oldest |-> 1, open |-> FALSE]
    /\ events' = <<>> /\ sent' = <<>> /\ reads' = <<>>
    /\ task' = Idle
    /\ asked' = IF task = Idle THEN asked
                ELSE [asked EXCEPT ![task.id].state = IF task.step = "create" THEN "lost" ELSE "half removed"]
    /\ UNCHANGED <<files, templateVars>>

Next ==
    \/ \E kind \in Kinds : LogLine(kind)
    \/ LogPartial
    \/ \E actor \in Actors \cup {NoActor}, persist \in BOOLEAN : HandleEvidenceRequest(actor, persist)
    \/ PostSnapshot
    \/ PostMarkdown
    \/ CreateWrites
    \/ CreateFails
    \/ \E id \in Ids : DeleteStored(id)
    \/ RemoveUnlinks
    \/ RemoveEnds
    \/ GetTemplates
    \/ \E t \in Templates : PutTemplate(t) \/ DeleteTemplate(t)
    \/ Crash

Spec == Init /\ [][Next]_vars
-------------------------------------------------------------------------------
\* What a client was told of its evidence stays true across failing writes and crashes:
\* evidence that was created is listed, with the content it was created from, and can be
\* read when that is text; evidence that was refused or deleted is not listed. What is
\* listed can be loaded, unless its removal was begun: a crash between the two writes of
\* FileStoredEvidenceStore leaves nothing that anybody sees.
EvidenceAsTold ==
    \A id \in Ids :
        /\ asked[id].state = "created" =>
              /\ LoadEvidence(id) = <<asked[id].content>>
              /\ IsText(asked[id].content) => GetStored(id) = "ok"
        /\ asked[id].state \in {"refused", "deleted"} => id \notin ListEvidence
        /\ id \in ListEvidence =>
              \/ LoadEvidence(id) = <<asked[id].content>>
              \/ asked[id].state \in {"removing", "half removed"}

\* The reads that are no tails that repeat the read before them, up to the n-th read.
Observed(n) == {i \in 1..n : ~(i > 1 /\ reads[i].op = "tail" /\ reads[i] = reads[i - 1])}

\* Every read on behalf of a session is broadcast once and in order, except a tail that
\* repeats the read before it; and GET /observations lists the newest of what was
\* broadcast, newest first, however many have been evicted.
AuditComplete ==
    /\ Len(sent) = Cardinality(Observed(Len(reads)))
    /\ \A i \in Observed(Len(reads)) : Keyed(sent[Cardinality(Observed(i))]) = reads[i]
    /\ \A n \in 0..(MaxEvents + 1) :
          LET listed == ListNewestFirst(n)
          IN  /\ Len(listed) = Min({n, MaxEvents, Len(sent)})
              /\ \A i \in DOMAIN listed : listed[i] = sent[Len(sent) + 1 - i]

\* A template that was saved is kept as it was saved, until the next request about it, and
\* one that was deleted stays away, also a default one, until it is saved again or the last
\* template is gone: the defaults are written only for a directory that has none.
TemplatesAsTold ==
    \A t \in Templates :
        /\ told[t] = "own" => templates[t] = <<"own">>
        /\ told[t] = "deleted" => templates[t] = None
===============================================================================
