----------------------------- MODULE EvidenceProofs ----------------------------
(***************************************************************************)
(* What was told of stored evidence and of templates stays true, for any   *)
(* number of ids, templates, lines and requests, and wherever the host     *)
(* crashes.                                                                *)
(***************************************************************************)
EXTENDS Evidence, FiniteSetTheorems, SequenceTheorems, TLAPS

States == {"never", "creating", "created", "not annotated", "refused", "lost",
           "removing", "deleted", "half removed"}

OverIds(f) == f = [i \in Ids |-> f[i]]
IsDirectory(f) == f = [content |-> f.content, metadata |-> f.metadata]
IsAsked(a) == a = [state |-> a.state, kind |-> a.kind, content |-> a.content]

\* The directory of an id, and what was asked for.
Shapes ==
    /\ OverIds(files)
    /\ OverIds(asked)
    /\ \A i \in Ids : IsDirectory(files[i])

\* The metadata is what makes evidence visible. It is not there before the content is,
\* nor while the answer is open.
ToldOK(i) ==
    LET a == asked[i] IN
    /\ a.state \in States
    /\ a.state # "never" => IsAsked(a)
    /\ a.state \in {"never", "creating", "refused", "lost", "deleted"} => files[i].metadata = None
    /\ a.state \in {"created", "not annotated"} =>
          files[i].content = <<a.content>> /\ files[i].metadata = <<a.kind>>

IsCreate(t) == t = [step |-> "create", id |-> t.id, left |-> t.left, via |-> t.via]
IsRemove(t) == t = [step |-> "remove", id |-> t.id]

\* The request that the io thread is at.
TaskOK ==
    \/ task = Idle
    \/ /\ task.step = "create" /\ IsCreate(task)
       /\ task.id \in Ids /\ asked[task.id].state = "creating"
       /\ \/ task.left = <<"content", "metadata">>
          \/ task.left = <<"metadata">> /\ files[task.id].content = <<asked[task.id].content>>
    \/ /\ task.step = "remove" /\ IsRemove(task)
       /\ task.id \in Ids /\ asked[task.id].state = "removing"

StoreInv == Shapes /\ TaskOK /\ \A i \in Ids : ToldOK(i)
-------------------------------------------------------------------------------
LEMMA StoreInvInit == Init => StoreInv
<1> SUFFICES ASSUME Init PROVE StoreInv
  OBVIOUS
<1>1. Shapes
  BY DEF Init, Shapes, IsDirectory, OverIds
<1>2. \A i \in Ids : ToldOK(i)
  BY DEF Init, ToldOK, States
<1> QED
  BY <1>1, <1>2 DEF StoreInv, TaskOK, Init

\* The store is as it was for an id that a step does not touch.
LEMMA Untouched ==
    ASSUME NEW i \in Ids, ToldOK(i), asked'[i] = asked[i], files'[i] = files[i]
    PROVE  ToldOK(i)'
BY DEF ToldOK

LEMMA SameStore ==
    ASSUME StoreInv, UNCHANGED storeVars
    PROVE  StoreInv'
BY DEF StoreInv, Shapes, ToldOK, TaskOK, storeVars

\* What an id is asked for when it is asked for anew.
LEMMA AskedRecord ==
    ASSUME NEW i, NEW s, NEW k, NEW c, asked'[i] = [state |-> s, kind |-> k, content |-> c]
    PROVE  /\ IsAsked(asked'[i])
           /\ asked'[i].state = s /\ asked'[i].kind = k /\ asked'[i].content = c
BY DEF IsAsked

\* A new id: nothing of it is there yet.
LEMMA CreateKeeps ==
    ASSUME StoreInv, NEW kind, NEW content, NEW via, Create(kind, content, via)
    PROVE  StoreInv'
<1>1. PICK id \in Ids :
         /\ asked[id].state = "never"
         /\ asked' = [asked EXCEPT ![id] = [state |-> "creating", kind |-> kind, content |-> content]]
         /\ task' = [step |-> "create", id |-> id, left |-> CreateOrder, via |-> via]
         /\ files' = files
  BY DEF Create
<1>2. /\ OverIds(asked')
      /\ asked'[id] = [state |-> "creating", kind |-> kind, content |-> content]
      /\ \A i \in Ids \ {id} : asked'[i] = asked[i]
  BY <1>1 DEF StoreInv, Shapes, OverIds
<1>3. ToldOK(id)'
  <2>1. IsAsked(asked'[id]) /\ asked'[id].state = "creating"
    BY <1>2, AskedRecord
  <2>2. files'[id].metadata = None
    BY <1>1 DEF StoreInv, ToldOK
  <2> QED
    BY <2>1, <2>2 DEF ToldOK, States
<1>4. \A i \in Ids : ToldOK(i)'
  BY <1>1, <1>2, <1>3, Untouched DEF StoreInv
<1>5. TaskOK'
  BY <1>1, <1>2 DEF TaskOK, CreateOrder, IsCreate
<1> QED
  BY <1>1, <1>2, <1>4, <1>5 DEF StoreInv, Shapes

LEMMA StateSet ==
    ASSUME NEW a, IsAsked(a), NEW state
    PROVE  [a EXCEPT !.state = state] = [state |-> state, kind |-> a.kind, content |-> a.content]
<1>1. PICK s, k, c : a = [state |-> s, kind |-> k, content |-> c]
  BY DEF IsAsked
<1> QED
  BY <1>1

\* What the last step of a request makes of the files, for what it answers.
FilesFit(i, state) ==
    /\ OverIds(files') /\ \A j \in Ids : IsDirectory(files'[j])
    /\ \A j \in Ids \ {i} : files'[j] = files[j]
    /\ state \in {"never", "creating", "refused", "lost", "deleted"} => files'[i].metadata = None
    /\ state \in {"created", "not annotated"} =>
          files'[i].content = <<asked[i].content>> /\ files'[i].metadata = <<asked[i].kind>>

LEMMA AnswerKeeps ==
    ASSUME StoreInv, task # Idle, NEW state \in States, Answer(task.id, state), FilesFit(task.id, state)
    PROVE  StoreInv'
<1>1. PICK id \in Ids : id = task.id /\ asked[id].state # "never"
  BY DEF StoreInv, TaskOK
<1>a. PICK a : a = asked[id]
  OBVIOUS
<1>2. IsAsked(a)
  BY <1>1, <1>a DEF StoreInv, ToldOK
<1>3. asked' = [asked EXCEPT ![id] = [a EXCEPT !.state = state]] /\ task' = Idle
  BY <1>1, <1>a DEF Answer
<1>4. [a EXCEPT !.state = state] = [state |-> state, kind |-> a.kind, content |-> a.content]
  BY <1>2, StateSet
<1>5. /\ OverIds(asked')
      /\ asked'[id] = [state |-> state, kind |-> a.kind, content |-> a.content]
      /\ \A i \in Ids \ {id} : asked'[i] = asked[i]
  BY <1>3, <1>4 DEF StoreInv, Shapes, OverIds
<1>6. ToldOK(id)'
  <2>1. /\ IsAsked(asked'[id])
        /\ asked'[id].state = state /\ asked'[id].kind = a.kind /\ asked'[id].content = a.content
    BY <1>5, AskedRecord
  <2> QED
    BY <1>1, <1>a, <2>1 DEF ToldOK, FilesFit
<1>7. \A i \in Ids : ToldOK(i)'
  BY <1>1, <1>5, <1>6, Untouched DEF StoreInv, FilesFit
<1> QED
  BY <1>3, <1>5, <1>7 DEF StoreInv, Shapes, TaskOK, FilesFit
-------------------------------------------------------------------------------
(* The steps of a request *)

LEMMA Creating ==
    ASSUME StoreInv, task.step = "create"
    PROVE  /\ task # Idle /\ task.id \in Ids /\ asked[task.id].state = "creating"
           /\ IsCreate(task)
           /\ \/ task.left = <<"content", "metadata">>
              \/ task.left = <<"metadata">> /\ files[task.id].content = <<asked[task.id].content>>
           /\ files[task.id].metadata = None
<1>1. task # Idle
  BY DEF Idle
<1> QED
  BY <1>1 DEF StoreInv, TaskOK, ToldOK

LEMMA Removing ==
    ASSUME StoreInv, task.step = "remove"
    PROVE  /\ task # Idle /\ task.id \in Ids /\ asked[task.id].state = "removing"
           /\ IsRemove(task)
<1>1. task # Idle
  BY DEF Idle
<1> QED
  BY <1>1 DEF StoreInv, TaskOK

\* A file of the directory of an id is written or unlinked.
LEMMA FileSet ==
    ASSUME StoreInv, NEW id \in Ids, NEW file \in {"content", "metadata"}, NEW value,
           files' = [files EXCEPT ![id][file] = value]
    PROVE  /\ OverIds(files') /\ \A j \in Ids : IsDirectory(files'[j])
           /\ \A j \in Ids \ {id} : files'[j] = files[j]
           /\ files'[id][file] = value
           /\ \A other \in {"content", "metadata"} \ {file} : files'[id][other] = files[id][other]
<1>1. files' = [files EXCEPT ![id] = [files[id] EXCEPT ![file] = value]]
  OBVIOUS
<1>2. /\ OverIds(files') /\ files'[id] = [files[id] EXCEPT ![file] = value]
      /\ \A j \in Ids \ {id} : files'[j] = files[j]
  BY <1>1 DEF StoreInv, Shapes, OverIds
<1>3. PICK c, m : files[id] = [content |-> c, metadata |-> m]
  BY DEF StoreInv, Shapes, IsDirectory
<1>4. files'[id] = [content |-> IF file = "content" THEN value ELSE c,
                    metadata |-> IF file = "metadata" THEN value ELSE m]
  BY <1>2, <1>3
<1>5. IsDirectory(files'[id])
  BY <1>4 DEF IsDirectory
<1> QED
  BY <1>2, <1>3, <1>4, <1>5 DEF StoreInv, Shapes

LEMMA CreateWritesKeeps ==
    ASSUME StoreInv, CreateWrites
    PROVE  StoreInv'
<1>1. PICK id \in Ids : id = task.id
  BY Creating DEF CreateWrites
<1>2. asked[id].state = "creating" /\ files[id].metadata = None /\ task # Idle
  BY <1>1, Creating DEF CreateWrites
<1>3. CASE task.left = <<"content", "metadata">>
  <2>1. Head(task.left) = "content" /\ Len(task.left) > 1 /\ Tail(task.left) = <<"metadata">>
    BY <1>3
  <2>2. /\ files' = [files EXCEPT ![id]["content"] = <<asked[id].content>>]
        /\ task' = [task EXCEPT !.left = <<"metadata">>] /\ asked' = asked
    BY <1>1, <2>1 DEF CreateWrites, Written
  <2>3. /\ OverIds(files') /\ \A j \in Ids : IsDirectory(files'[j])
        /\ \A j \in Ids \ {id} : files'[j] = files[j]
        /\ files'[id].content = <<asked[id].content>> /\ files'[id].metadata = None
    BY <1>2, <2>2, FileSet
  <2>4. PICK via : task = [step |-> "create", id |-> id, left |-> <<"content", "metadata">>, via |-> via]
    BY <1>1, <1>3, Creating DEF CreateWrites, IsCreate
  <2>5. task' = [step |-> "create", id |-> id, left |-> <<"metadata">>, via |-> via]
    BY <2>2, <2>4
  <2>6. TaskOK'
    <3>1. IsCreate(task') /\ task'.step = "create" /\ task'.id = id /\ task'.left = <<"metadata">>
      BY <2>5 DEF IsCreate
    <3> QED
      BY <1>2, <2>2, <2>3, <3>1 DEF TaskOK
  <2>7. ToldOK(id)'
    BY <1>2, <2>2, <2>3 DEF ToldOK, StoreInv
  <2>8. \A i \in Ids : ToldOK(i)'
    BY <2>2, <2>3, <2>7, Untouched DEF StoreInv
  <2> QED
    BY <2>2, <2>3, <2>6, <2>8 DEF StoreInv, Shapes
<1>4. CASE task.left = <<"metadata">> /\ files[id].content = <<asked[id].content>>
  <2>1. Head(task.left) = "metadata" /\ ~(Len(task.left) > 1)
    BY <1>4
  <2>2. files' = [files EXCEPT ![id]["metadata"] = <<asked[id].kind>>]
    BY <1>1, <2>1 DEF CreateWrites, Written
  <2>3. PICK state \in {"created", "not annotated"} : Answer(task.id, state)
    BY <2>1 DEF CreateWrites
  <2>4. FilesFit(task.id, state)
    <3>1. /\ OverIds(files') /\ \A j \in Ids : IsDirectory(files'[j])
          /\ \A j \in Ids \ {id} : files'[j] = files[j]
          /\ files'[id].metadata = <<asked[id].kind>> /\ files'[id].content = <<asked[id].content>>
      BY <1>4, <2>2, FileSet
    <3> QED
      BY <1>1, <2>3, <3>1 DEF FilesFit
  <2> QED
    BY <1>2, <2>3, <2>4, AnswerKeeps DEF States
<1> QED
  BY <1>1, <1>3, <1>4, Creating DEF CreateWrites

LEMMA CreateFailsKeeps ==
    ASSUME StoreInv, CreateFails
    PROVE  StoreInv'
<1>1. PICK id \in Ids : id = task.id
  BY Creating DEF CreateFails
<1>2. files[id].metadata = None /\ task # Idle
  BY <1>1, Creating DEF CreateFails
<1>3. CASE files' = [files EXCEPT ![id] = [content |-> None, metadata |-> None]]
  <2>1. FilesFit(id, "refused")
    BY <1>3 DEF FilesFit, StoreInv, Shapes, OverIds, IsDirectory
  <2> QED
    BY <1>1, <1>2, <2>1, AnswerKeeps DEF CreateFails, States
<1>4. CASE UNCHANGED files
  <2>1. FilesFit(id, "refused")
    BY <1>2, <1>4 DEF FilesFit, StoreInv, Shapes
  <2> QED
    BY <1>1, <1>2, <2>1, AnswerKeeps DEF CreateFails, States
<1> QED
  BY <1>1, <1>3, <1>4 DEF CreateFails

LEMMA DeleteStoredKeeps ==
    ASSUME StoreInv, NEW id \in Ids, DeleteStored(id)
    PROVE  StoreInv'
<1>1. PICK a : a = asked[id]
  OBVIOUS
<1>2. IsAsked(a) /\ asked' = [asked EXCEPT ![id] = [a EXCEPT !.state = "removing"]]
  BY <1>1 DEF DeleteStored, StoreInv, ToldOK
<1>3. /\ OverIds(asked')
      /\ asked'[id] = [state |-> "removing", kind |-> a.kind, content |-> a.content]
      /\ \A i \in Ids \ {id} : asked'[i] = asked[i]
  BY <1>2, StateSet DEF StoreInv, Shapes, OverIds
<1>4. IsAsked(asked'[id]) /\ asked'[id].state = "removing"
  BY <1>3, AskedRecord
<1>5. ToldOK(id)'
  BY <1>4 DEF ToldOK, States
<1>6. \A i \in Ids : ToldOK(i)'
  BY <1>3, <1>5, Untouched DEF StoreInv, DeleteStored
<1>7. task' = [step |-> "remove", id |-> id] /\ files' = files
  BY DEF DeleteStored
<1>8. TaskOK'
  BY <1>4, <1>7 DEF TaskOK, IsRemove
<1> QED
  BY <1>3, <1>6, <1>7, <1>8 DEF StoreInv, Shapes

LEMMA RemoveUnlinksKeeps ==
    ASSUME StoreInv, RemoveUnlinks
    PROVE  StoreInv'
<1>1. PICK id \in Ids : id = task.id
  BY Removing DEF RemoveUnlinks
<1>2. asked[id].state = "removing" /\ asked' = asked /\ task' = task /\ IsRemove(task)
  BY <1>1, Removing DEF RemoveUnlinks
<1>3. PICK file \in {"content", "metadata"} : files' = [files EXCEPT ![id][file] = None]
  BY <1>1 DEF RemoveUnlinks
<1>4. /\ OverIds(files') /\ \A j \in Ids : IsDirectory(files'[j])
      /\ \A j \in Ids \ {id} : files'[j] = files[j]
  BY <1>3, FileSet
<1>5. ToldOK(id)'
  BY <1>2 DEF ToldOK, StoreInv
<1>6. \A i \in Ids : ToldOK(i)'
  BY <1>2, <1>4, <1>5, Untouched DEF StoreInv
<1> QED
  BY <1>1, <1>2, <1>4, <1>6 DEF StoreInv, Shapes, TaskOK

LEMMA RemoveEndsKeeps ==
    ASSUME StoreInv, RemoveEnds
    PROVE  StoreInv'
<1>1. task # Idle /\ task.id \in Ids
  BY Removing DEF RemoveEnds
<1>2. CASE files[task.id] = [content |-> None, metadata |-> None] /\ Answer(task.id, "deleted")
  <2>1. files' = files /\ files[task.id].metadata = None
    <3>1. PICK f : f = files[task.id]
      OBVIOUS
    <3>2. f.metadata = None
      BY <1>2, <3>1
    <3> QED
      BY <3>1, <3>2 DEF RemoveEnds
  <2>2. FilesFit(task.id, "deleted")
    BY <2>1 DEF FilesFit, StoreInv, Shapes
  <2> QED
    BY <1>1, <1>2, <2>2, AnswerKeeps DEF States
<1>3. CASE Answer(task.id, "half removed")
  <2>1. FilesFit(task.id, "half removed")
    BY DEF RemoveEnds, FilesFit, StoreInv, Shapes
  <2> QED
    BY <1>1, <1>3, <2>1, AnswerKeeps DEF States
<1> QED
  BY <1>2, <1>3 DEF RemoveEnds

\* A request that was being handled is answered by nobody. One that was storing had not
\* written the metadata.
LEMMA CrashKeeps ==
    ASSUME StoreInv, Crash
    PROVE  StoreInv'
<1>1. CASE task = Idle
  BY <1>1, SameStore DEF Crash, storeVars
<1>2. CASE task # Idle
  <2>1. PICK state \in {"lost", "half removed"} :
           state = IF task.step = "create" THEN "lost" ELSE "half removed"
    OBVIOUS
  <2>2. Answer(task.id, state)
    BY <1>2, <2>1 DEF Crash, Answer
  <2>3. state = "lost" => files[task.id].metadata = None
    BY <2>1, Creating
  <2>4. FilesFit(task.id, state)
    BY <2>1, <2>3 DEF Crash, FilesFit, StoreInv, Shapes
  <2> QED
    BY <1>2, <2>1, <2>2, <2>4, AnswerKeeps DEF States
<1> QED
  BY <1>1, <1>2

LEMMA StoreInvNext == StoreInv /\ [Next]_vars => StoreInv'
<1> SUFFICES ASSUME StoreInv, [Next]_vars PROVE StoreInv'
  OBVIOUS
<1>1. CASE UNCHANGED storeVars
  BY <1>1, SameStore
<1>2. ASSUME NEW actor \in Actors \cup {NoActor}, NEW persist \in BOOLEAN,
             HandleEvidenceRequest(actor, persist)
      PROVE  StoreInv'
  <2>1. PICK r \in Results(Limits) : FinalizeEvidenceResponse(r, actor, persist)
    BY <1>2 DEF HandleEvidenceRequest
  <2> QED
    BY <2>1, SameStore, CreateKeeps DEF FinalizeEvidenceResponse
<1>3. CASE PostSnapshot
  BY <1>3, CreateKeeps DEF PostSnapshot
<1>4. CASE PostMarkdown
  BY <1>4, CreateKeeps DEF PostMarkdown
<1>5. CASE (\E kind \in Kinds : LogLine(kind)) \/ LogPartial \/ GetTemplates
           \/ (\E t \in Templates : PutTemplate(t) \/ DeleteTemplate(t)) \/ UNCHANGED vars
  <2>1. UNCHANGED storeVars
    BY <1>5 DEF LogLine, LogPartial, GetTemplates, PutTemplate, DeleteTemplate, vars, storeVars
  <2> QED
    BY <2>1, SameStore
<1> QED
  BY <1>2, <1>3, <1>4, <1>5, CreateWritesKeeps, CreateFailsKeeps, DeleteStoredKeeps,
     RemoveUnlinksKeeps, RemoveEndsKeeps, CrashKeeps DEF Next

\* What a client was told of its evidence stays true across failing writes and crashes,
\* whatever else is stored, deleted or logged: created evidence can be loaded with the
\* content it was created from, refused and deleted evidence is not listed, and what is
\* listed can be loaded unless its removal was begun.
THEOREM EvidenceStaysAsTold == Spec => []EvidenceAsTold
<1>1. StoreInv => EvidenceAsTold
  <2> SUFFICES ASSUME StoreInv, NEW id \in Ids
               PROVE  /\ asked[id].state = "created" =>
                            /\ LoadEvidence(id) = <<asked[id].content>>
                            /\ IsText(asked[id].content) => GetStored(id) = "ok"
                      /\ asked[id].state \in {"refused", "deleted"} => id \notin ListEvidence
                      /\ id \in ListEvidence =>
                            \/ LoadEvidence(id) = <<asked[id].content>>
                            \/ asked[id].state \in {"removing", "half removed"}
    BY DEF EvidenceAsTold
  <2>1. ToldOK(id)
    BY DEF StoreInv
  <2>2. asked[id].state \in {"created", "not annotated"} =>
           /\ LoadStoredEvidenceMetadata(id) # None
           /\ LoadEvidence(id) = <<asked[id].content>> /\ LoadEvidence(id) # None
           /\ LoadEvidence(id)[1] = asked[id].content
    <3>1. PICK c, k : c = asked[id].content /\ k = asked[id].kind
      OBVIOUS
    <3>2. <<c>> # None /\ <<k>> # None /\ <<c>>[1] = c
      BY DEF None
    <3> QED
      BY <2>1, <3>1, <3>2 DEF ToldOK, LoadStoredEvidenceMetadata, LoadEvidence
  <2>3. id \in ListEvidence => asked[id].state \in {"created", "not annotated", "removing", "half removed"}
    BY <2>1 DEF ToldOK, States, ListEvidence, LoadStoredEvidenceMetadata
  <2>4. asked[id].state = "created" /\ IsText(asked[id].content) => GetStored(id) = "ok"
    BY <2>2 DEF GetStored
  <2> QED
    BY <2>2, <2>3, <2>4
<1> QED
  BY <1>1, StoreInvInit, StoreInvNext, PTL DEF Spec
-------------------------------------------------------------------------------
(* Templates *)

TemplatesTyped ==
    /\ templates \in [Templates -> {None, <<"own">>, <<"default">>}]
    /\ told \in [Templates -> {"nothing", "own", "deleted"}]

\* A deletion that stands is one of several templates.
DeletionsStand == NoTemplates => \A t \in Templates : told[t] # "deleted"

\* A template that was saved is kept as it was saved, until the next request about it, and
\* one that was deleted stays away, also a default one, until it is saved again or the last
\* template is gone: SeedDefaultTemplatesIfEmpty writes only into a directory that has none.
THEOREM TemplatesStayAsTold == Spec => []TemplatesAsTold
<1> DEFINE TInv == TemplatesTyped /\ DeletionsStand /\ TemplatesAsTold
<1>1. Init => TInv
  BY DEF Init, TemplatesTyped, DeletionsStand, TemplatesAsTold
<1>2. TInv /\ [Next]_vars => TInv'
  <2> SUFFICES ASSUME TInv, [Next]_vars PROVE TInv'
    OBVIOUS
  <2>1. CASE UNCHANGED templateVars
    BY <2>1 DEF TemplatesTyped, DeletionsStand, NoTemplates, TemplatesAsTold, templateVars
  <2>2. CASE GetTemplates
    BY <2>2 DEF GetTemplates, SeedDefaultTemplatesIfEmpty, MustSeed, DeletionsStand, NoTemplates,
                TemplatesTyped, TemplatesAsTold, None
  <2>3. ASSUME NEW t \in Templates, PutTemplate(t) PROVE TInv'
    <3>1. CASE templates' = [templates EXCEPT ![t] = <<"own">>] /\ Tells(t, "own")
      BY <3>1 DEF Tells, TemplatesTyped, DeletionsStand, NoTemplates, TemplatesAsTold, None
    <3>2. CASE templates' \in {templates, [templates EXCEPT ![t] = None]} /\ Tells(t, "nothing")
      BY <3>2 DEF Tells, TemplatesTyped, DeletionsStand, NoTemplates, TemplatesAsTold, None
    <3> QED
      BY <2>3, <3>1, <3>2 DEF PutTemplate, UpsertTemplate
  <2>4. ASSUME NEW t \in Templates, DeleteTemplate(t) PROVE TInv'
    BY <2>4 DEF DeleteTemplate, Tells, TemplatesTyped, DeletionsStand, NoTemplates, TemplatesAsTold, None
  <2>5. UNCHANGED templateVars \/ GetTemplates \/ \E t \in Templates : PutTemplate(t) \/ DeleteTemplate(t)
    BY DEF Next, vars, templateVars, LogLine, LogPartial, HandleEvidenceRequest, PostSnapshot, PostMarkdown,
           CreateWrites, CreateFails, DeleteStored, RemoveUnlinks, RemoveEnds, Crash
  <2> QED
    BY <2>1, <2>2, <2>3, <2>4, <2>5
<1>3. TInv => TemplatesAsTold
  OBVIOUS
<1> QED
  BY <1>1, <1>2, <1>3, PTL DEF Spec
-------------------------------------------------------------------------------
(* The audit *)

IsSequence(s) == \E S : s \in Seq(S)

\* The store es has the latest of what was sent, ss, as many as it may.
IsEndOf(es, ss) ==
    /\ Len(es) = IF Len(ss) < MaxEvents THEN Len(ss) ELSE MaxEvents
    /\ \A i \in 1..Len(es) : es[i] = ss[Len(ss) - Len(es) + i]

\* Everything that was read is in the audit, the last read is the last that was sent, and
\* the store has the end of what was sent.
AuditInv ==
    /\ IsSequence(reads) /\ IsSequence(sent) /\ IsSequence(events)
    /\ Len(sent) = Cardinality(Observed(Len(reads)))
    /\ \A i \in Observed(Len(reads)) : Keyed(sent[Cardinality(Observed(i))]) = reads[i]
    /\ Len(sent) = 0 <=> Len(reads) = 0
    /\ Len(reads) > 0 => Keyed(sent[Len(sent)]) = reads[Len(reads)]
    /\ IsEndOf(events, sent)

LEMMA SequenceIs ==
    ASSUME NEW s, IsSequence(s)
    PROVE  Len(s) \in Nat /\ DOMAIN s = 1..Len(s)
BY DEF IsSequence

LEMMA EmptyIs == IsSequence(<<>>) /\ Len(<<>>) = 0
<1>1. <<>> \in Seq({})
  OBVIOUS
<1> QED
  BY <1>1 DEF IsSequence

LEMMA AppendIs ==
    ASSUME NEW s, IsSequence(s), NEW x
    PROVE  /\ IsSequence(Append(s, x))
           /\ Len(Append(s, x)) = Len(s) + 1
           /\ \A i \in 1..Len(s) : Append(s, x)[i] = s[i]
           /\ Append(s, x)[Len(s) + 1] = x
<1>1. PICK S : s \in Seq(S)
  BY DEF IsSequence
<1>2. PICK T : T = S \cup {x}
  OBVIOUS
<1>3. s \in Seq(T) /\ x \in T
  BY <1>1, <1>2
<1>4. Append(s, x) \in Seq(T)
  BY <1>3
<1> QED
  BY <1>3, <1>4 DEF IsSequence

LEMMA LeastOfTwo ==
    ASSUME NEW a \in Nat, NEW b \in Nat
    PROVE  Min({a, b}) = IF a < b THEN a ELSE b
<1>1. PICK m \in {a, b} : \A y \in {a, b} : m <= y
  <2>1. a <= b \/ b <= a
    OBVIOUS
  <2> QED
    BY <2>1
<1>2. Min({a, b}) \in {a, b} /\ \A y \in {a, b} : Min({a, b}) <= y
  BY <1>1, Zenon DEF Min
<1> QED
  BY <1>2

\* Of three.
LEMMA LeastOfThree ==
    ASSUME NEW a \in Nat, NEW b \in Nat, NEW c \in Nat
    PROVE  Min({a, b, c}) = Min({a, IF c < b THEN c ELSE b})
<1>1. PICK m \in {a, b, c} : \A y \in {a, b, c} : m <= y
  <2>1. \/ a <= b /\ a <= c
        \/ b <= a /\ b <= c
        \/ c <= a /\ c <= b
    OBVIOUS
  <2> QED
    BY <2>1
<1>2. Min({a, b, c}) \in {a, b, c} /\ \A y \in {a, b, c} : Min({a, b, c}) <= y
  BY <1>1, Zenon DEF Min
<1> QED
  BY <1>2, LeastOfTwo

\* What is kept is the end of the sequence.
LEMMA EvictIs ==
    ASSUME NEW es, IsSequence(es), NEW kept, kept = EvictIfNeeded(es)
    PROVE  /\ IsSequence(kept)
           /\ Len(kept) = IF Len(es) < MaxEvents THEN Len(es) ELSE MaxEvents
           /\ \A i \in 1..Len(kept) : kept[i] = es[Len(es) - Len(kept) + i]
<1>1. PICK S : es \in Seq(S)
  BY DEF IsSequence
<1>2. PICK n \in Nat : n = Min({MaxEvents, Len(es)}) /\ n = IF Len(es) < MaxEvents THEN Len(es) ELSE MaxEvents
  BY <1>1, LeastOfTwo, EvidenceAssumption
<1>3. PICK first \in 1..Len(es) + 1 : first = Len(es) + 1 - n
  BY <1>1, <1>2, EvidenceAssumption
<1>4. /\ SubSeq(es, first, Len(es)) \in Seq(S)
      /\ Len(SubSeq(es, first, Len(es))) = n
      /\ \A i \in 1..n : SubSeq(es, first, Len(es))[i] = es[first + i - 1]
  BY <1>1, <1>3, SubSeqProperties
<1>5. EvictIfNeeded(es) = SubSeq(es, first, Len(es))
  BY <1>2, <1>3 DEF EvictIfNeeded
<1>6. \A i \in 1..n : first + i - 1 = Len(es) - n + i
  BY <1>1, <1>3
<1> QED
  BY <1>2, <1>4, <1>5, <1>6, ZenonT(60) DEF IsSequence

\* One more is sent, and the store has the end of it again.
LEMMA EndGrows ==
    ASSUME NEW es, NEW ss, NEW x, IsSequence(es), IsSequence(ss), IsEndOf(es, ss)
    PROVE  LET kept == EvictIfNeeded(Append(es, x))
           IN  IsSequence(kept) /\ IsEndOf(kept, Append(ss, x))
<1>1. PICK more, all, kept, a, b, k :
         /\ more = Append(es, x) /\ all = Append(ss, x) /\ kept = EvictIfNeeded(more)
         /\ a = Len(es) /\ b = Len(ss) /\ k = Len(kept)
  OBVIOUS
<1>2. IsSequence(more) /\ Len(more) = a + 1 /\ more[a + 1] = x /\ \A i \in 1..a : more[i] = es[i]
  BY <1>1, AppendIs
<1>3. Len(all) = b + 1 /\ all[b + 1] = x /\ \A i \in 1..b : all[i] = ss[i]
  BY <1>1, AppendIs
<1>4. /\ IsSequence(kept) /\ k = IF a + 1 < MaxEvents THEN a + 1 ELSE MaxEvents
      /\ \A i \in 1..k : kept[i] = more[a + 1 - k + i]
  <2>1. IsSequence(more) /\ kept = EvictIfNeeded(more)
    BY <1>1, <1>2
  <2>2. /\ IsSequence(kept) /\ Len(kept) = IF Len(more) < MaxEvents THEN Len(more) ELSE MaxEvents
        /\ \A i \in 1..Len(kept) : kept[i] = more[Len(more) - Len(kept) + i]
    BY <2>1, EvictIs, Zenon
  <2>3. Len(more) = a + 1 /\ Len(kept) = k /\ a \in Nat /\ k \in Nat
    BY <1>1, <1>2, <2>2, SequenceIs
  <2>4. k = IF a + 1 < MaxEvents THEN a + 1 ELSE MaxEvents
    BY <2>2, <2>3
  <2>5. ASSUME NEW i \in 1..k PROVE kept[i] = more[a + 1 - k + i]
    <3>1. Len(more) - Len(kept) + i = a + 1 - k + i /\ i \in 1..Len(kept)
      BY <2>3
    <3>2. kept[i] = more[Len(more) - Len(kept) + i]
      BY <2>2, <3>1
    <3> QED
      BY <3>1, <3>2
  <2> QED
    BY <2>2, <2>4, <2>5
<1>5. /\ a \in Nat /\ b \in Nat /\ MaxEvents \in Nat \ {0} /\ a <= b
      /\ a = IF b < MaxEvents THEN b ELSE MaxEvents
      /\ \A i \in 1..a : es[i] = ss[b - a + i]
  BY <1>1, SequenceIs, EvidenceAssumption DEF IsEndOf
<1>6. k = (IF b + 1 < MaxEvents THEN b + 1 ELSE MaxEvents) /\ k \in 1..a + 1
  BY <1>4, <1>5
<1>7. ASSUME NEW j \in 1..a + 1 PROVE more[j] = all[b - a + j]
  <2>1. CASE j = a + 1
    BY <1>2, <1>3, <1>5, <2>1
  <2>2. CASE j \in 1..a
    <3>1. b - a + j \in 1..b
      BY <1>5, <2>2
    <3> QED
      BY <1>2, <1>3, <1>5, <2>2, <3>1
  <2> QED
    BY <1>5, <2>1, <2>2
<1>8. ASSUME NEW i \in 1..k PROVE kept[i] = all[b + 1 - k + i]
  <2>1. PICK j \in 1..a + 1 : j = a + 1 - k + i
    <3>1. a + 1 - k + i \in 1..a + 1
      BY <1>5, <1>6
    <3> QED
      BY <3>1
  <2>2. b - a + j = b + 1 - k + i
    BY <1>5, <1>6, <2>1
  <2>3. kept[i] = more[j]
    BY <1>4, <2>1
  <2> QED
    BY <1>7, <2>2, <2>3
<1>9. IsEndOf(kept, all)
  <2>1. Len(kept) = k /\ Len(all) = b + 1 /\ b \in Nat /\ k \in Nat
    BY <1>1, <1>3, <1>5, <1>6
  <2>2. \A i \in 1..k : kept[i] = all[b + 1 - k + i]
    BY <1>8
  <2>3. k = IF b + 1 < MaxEvents THEN b + 1 ELSE MaxEvents
    BY <1>6
  <2>4. Len(kept) = IF Len(all) < MaxEvents THEN Len(all) ELSE MaxEvents
    BY <2>1, <2>3
  <2>5. ASSUME NEW i \in 1..Len(kept) PROVE kept[i] = all[Len(all) - Len(kept) + i]
    <3>1. Len(all) - Len(kept) + i = b + 1 - k + i /\ i \in 1..k
      BY <2>1
    <3>2. kept[i] = all[b + 1 - k + i]
      BY <2>2, <3>1
    <3> QED
      BY <3>1, <3>2
  <2> QED
    BY <2>4, <2>5 DEF IsEndOf
<1> QED
  BY <1>1, <1>4, <1>9

\* What is broadcast is the observation with an id.
LEMMA KeyedIs ==
    ASSUME NEW actor, NEW r, NEW n
    PROVE  Keyed(Event(Observation(actor, r), n)) = Observation(actor, r)
<1> DEFINE o == Observation(actor, r)
           event == Event(o, n)
<1>1. o = [k \in DOMAIN o |-> o[k]] /\ "id" \notin DOMAIN o
  BY DEF Observation
<1>2. DOMAIN event = {"id"} \cup DOMAIN o /\ \A k \in DOMAIN o : event[k] = o[k]
  BY <1>1 DEF Event
<1> HIDE DEF o, event
<1>3. Keyed(event) = [k \in DOMAIN o |-> o[k]]
  BY <1>1, <1>2 DEF Keyed
<1> QED
  BY <1>1, <1>3 DEF o, event

\* A read adds to the reads only, so what was counted stays counted.
LEMMA ObservedGrows ==
    ASSUME AuditInv, NEW o, reads' = Append(reads, o), NEW n, n = Len(reads)
    PROVE  /\ \A i \in 1..n : Observed(i)' = Observed(i)
           /\ Observed(n)' = Observed(n)
           /\ Observed(n + 1)' = IF n > 0 /\ o.op = "tail" /\ o = reads[n]
                                 THEN Observed(n) ELSE Observed(n) \cup {n + 1}
<1>1. n \in Nat /\ \A i \in 1..n : reads'[i] = reads[i]
  BY AppendIs, SequenceIs DEF AuditInv
<1>2. reads'[n + 1] = o
  BY AppendIs DEF AuditInv
<1>3. ASSUME NEW i \in 0..n PROVE Observed(i)' = Observed(i)
  BY <1>1 DEF Observed
<1>4. Observed(n + 1)' = Observed(n)' \cup {i \in {n + 1} : ~(i > 1 /\ reads'[i].op = "tail" /\ reads'[i] = reads'[i - 1])}
  BY <1>1 DEF Observed
<1>5. n + 1 - 1 = n /\ (n > 0 => reads'[n] = reads[n]) /\ (n + 1 > 1 <=> n > 0)
  BY <1>1
<1>6. {i \in {n + 1} : ~(i > 1 /\ reads'[i].op = "tail" /\ reads'[i] = reads'[i - 1])} =
         IF n > 0 /\ o.op = "tail" /\ o = reads[n] THEN {} ELSE {n + 1}
  BY <1>2, <1>5
<1>7. n \in 0..n /\ \A i \in 1..n : i \in 0..n
  BY <1>1
<1>8. Observed(n)' = Observed(n)
  BY <1>3, <1>7
<1>9. Observed(n + 1)' = IF n > 0 /\ o.op = "tail" /\ o = reads[n] THEN Observed(n) ELSE Observed(n) \cup {n + 1}
  BY <1>4, <1>6, <1>8, Zenon
<1> QED
  BY <1>3, <1>7, <1>8, <1>9

\* The observed reads up to one are as many as a place in what was sent.
LEMMA PlaceIs ==
    ASSUME AuditInv, NEW i \in Observed(Len(reads))
    PROVE  /\ i \in 1..Len(reads)
           /\ Cardinality(Observed(i)) \in 1..Len(sent)
<1>1. Len(reads) \in Nat /\ i \in 1..Len(reads)
  BY SequenceIs DEF AuditInv, Observed
<1>2. IsFiniteSet(1..Len(reads))
  BY <1>1, FS_Interval
<1>3. Observed(Len(reads)) \subseteq 1..Len(reads) /\ Observed(i) \subseteq Observed(Len(reads)) /\ i \in Observed(i)
  BY <1>1 DEF Observed
<1>4. IsFiniteSet(Observed(Len(reads)))
  BY <1>2, <1>3, FS_Subset
<1>5. IsFiniteSet(Observed(i)) /\ Cardinality(Observed(i)) <= Cardinality(Observed(Len(reads)))
  BY <1>3, <1>4, FS_Subset
<1>6. Cardinality(Observed(i)) \in Nat /\ Cardinality(Observed(i)) # 0
  BY <1>3, <1>5, FS_CardinalityType, FS_EmptySet
<1> QED
  BY <1>1, <1>5, <1>6, SequenceIs DEF AuditInv

\* The store has something to compare with as soon as something was sent, and that is the
\* last read.
LEMMA DuplicateIs ==
    ASSUME AuditInv, NEW o
    PROVE  IsDuplicateTailObservation(o) <=> Len(reads) > 0 /\ o.op = "tail" /\ o = reads[Len(reads)]
<1>1. Len(reads) \in Nat /\ Len(sent) \in Nat /\ Len(events) \in Nat
  BY SequenceIs DEF AuditInv
<1>2. Len(events) > 0 <=> Len(reads) > 0
  BY <1>1, EvidenceAssumption DEF AuditInv, IsEndOf
<1>3. events # <<>> <=> Len(events) > 0
  <2>1. PICK S : events \in Seq(S)
    BY DEF AuditInv, IsSequence
  <2> QED
    BY <2>1
<1>4. Len(reads) > 0 => Keyed(events[Len(events)]) = reads[Len(reads)]
  <2>1. Len(events) > 0 => events[Len(events)] = sent[Len(sent)]
    <3>1. Len(sent) - Len(events) + Len(events) = Len(sent)
      BY <1>1
    <3>2. Len(events) > 0 => Len(events) \in 1..Len(events)
      BY <1>1
    <3> QED
      BY <3>1, <3>2 DEF AuditInv, IsEndOf
  <2> QED
    BY <1>2, <2>1 DEF AuditInv
<1>5. Last(events) = events[Len(events)]
  BY DEF Last
<1> QED
  BY <1>2, <1>3, <1>4, <1>5 DEF IsDuplicateTailObservation

LEMMA AddKeeps ==
    ASSUME AuditInv, NEW actor, NEW r, AddWithStatus(Observation(actor, r))
    PROVE  AuditInv'
<1>0. PICK n : n = Len(reads)
  OBVIOUS
<1>1. PICK o : o = Observation(actor, r)
  OBVIOUS
<1>2. reads' = Append(reads, o)
  BY <1>1 DEF AddWithStatus
<1>3. n \in Nat /\ Len(sent) \in Nat /\ Len(events) \in Nat
  BY <1>0, SequenceIs DEF AuditInv
<1>4. IsSequence(reads') /\ Len(reads') = n + 1 /\ reads'[n + 1] = o /\ \A i \in 1..n : reads'[i] = reads[i]
  BY <1>0, <1>2, AppendIs DEF AuditInv
<1>5. \A i \in Observed(n) : i \in 1..n /\ Cardinality(Observed(i)) \in 1..Len(sent) /\ Observed(i)' = Observed(i)
  BY <1>0, <1>2, PlaceIs, ObservedGrows
<1>6. CASE IsDuplicateTailObservation(o)
  <2>1. UNCHANGED <<events, sent>>
    BY <1>1, <1>6 DEF AddWithStatus
  <2>2. n > 0 /\ o = reads[n] /\ Observed(n + 1)' = Observed(n)
    BY <1>0, <1>2, <1>6, DuplicateIs, ObservedGrows
  <2>3. \A i \in Observed(n) : Keyed(sent[Cardinality(Observed(i))]) = reads'[i]
    BY <1>0, <1>4, <1>5 DEF AuditInv
  <2>4. Len(sent)' = Cardinality(Observed(Len(reads)))'
    BY <1>0, <1>4, <2>1, <2>2 DEF AuditInv
  <2>5. (\A i \in Observed(Len(reads)) : Keyed(sent[Cardinality(Observed(i))]) = reads[i])'
    BY <1>4, <1>5, <2>1, <2>2, <2>3
  <2>6. Keyed(sent[Len(sent)])' = reads'[n + 1]
    BY <1>0, <1>4, <2>1, <2>2 DEF AuditInv
  <2>7. IsEndOf(events, sent)' /\ IsSequence(sent') /\ IsSequence(events')
    BY <2>1 DEF AuditInv
  <2>8. Len(sent') # 0 /\ Len(reads') # 0
    BY <1>0, <1>3, <1>4, <2>1, <2>2 DEF AuditInv
  <2> QED
    BY <1>4, <2>4, <2>5, <2>6, <2>7, <2>8 DEF AuditInv
<1>7. CASE ~IsDuplicateTailObservation(o)
  <2>1. PICK event : event = Event(o, Len(sent) + 1)
    OBVIOUS
  <2>2. sent' = Append(sent, event) /\ events' = EvictIfNeeded(Append(events, event)) /\ Keyed(event) = o
    BY <1>1, <1>7, <2>1, KeyedIs DEF AddWithStatus
  <2>3. Observed(n + 1)' = Observed(n) \cup {n + 1}
    <3>1. ~(n > 0 /\ o.op = "tail" /\ o = reads[n])
      BY <1>0, <1>7, DuplicateIs
    <3> QED
      BY <1>0, <1>2, <3>1, ObservedGrows
  <2>4. IsSequence(sent') /\ Len(sent') = Len(sent) + 1 /\ sent'[Len(sent) + 1] = event
        /\ \A i \in 1..Len(sent) : sent'[i] = sent[i]
    BY <2>2, AppendIs DEF AuditInv
  <2>5. Cardinality(Observed(n + 1))' = Len(sent) + 1
    <3>1. IsFiniteSet(Observed(n)) /\ n + 1 \notin Observed(n)
      <4>1. IsFiniteSet(1..n) /\ Observed(n) \subseteq 1..n /\ n + 1 \notin 1..n
        <5>1. 1 \in Int /\ n \in Int
          BY <1>3
        <5> QED
          BY <5>1, FS_Interval DEF Observed
      <4> QED
        BY <4>1, FS_Subset
    <3> QED
      BY <1>0, <2>3, <3>1, FS_AddElement DEF AuditInv
  <2>6. (\A i \in Observed(Len(reads)) : Keyed(sent[Cardinality(Observed(i))]) = reads[i])'
    <3>1. ASSUME NEW i \in Observed(n) PROVE Keyed(sent'[Cardinality(Observed(i)')]) = reads'[i]
      BY <1>0, <1>4, <1>5, <2>4 DEF AuditInv
    <3>2. Keyed(sent'[Cardinality(Observed(n + 1)')]) = reads'[n + 1]
      BY <1>4, <2>2, <2>4, <2>5
    <3> QED
      BY <1>4, <2>3, <3>1, <3>2
  <2>7. IsSequence(events') /\ IsEndOf(events', sent')
    BY <2>2, EndGrows DEF AuditInv
  <2>8. Keyed(sent'[Len(sent')]) = reads'[Len(reads')]
    BY <1>4, <2>2, <2>4
  <2> QED
    BY <1>0, <1>3, <1>4, <2>4, <2>5, <2>6, <2>7, <2>8 DEF AuditInv
<1> QED
  BY <1>6, <1>7

LEMMA AuditInit ==
    ASSUME reads = <<>>, sent = <<>>, events = <<>>
    PROVE  AuditInv
<1>1. Observed(0) = {} /\ MaxEvents \in Nat \ {0}
  BY EvidenceAssumption DEF Observed
<1> QED
  BY <1>1, EmptyIs, FS_EmptySet DEF AuditInv, IsEndOf

\* Every read on behalf of a session is broadcast once and in order, except a tail that
\* repeats the read before it, and GET /observations lists the newest of what was
\* broadcast, for any limits and any reads.
THEOREM AuditIsComplete == Spec => []AuditComplete
<1>1. Init => AuditInv
  BY AuditInit DEF Init
<1>2. AuditInv /\ [Next]_vars => AuditInv'
  <2> SUFFICES ASSUME AuditInv, [Next]_vars PROVE AuditInv'
    OBVIOUS
  <2>1. CASE UNCHANGED auditVars
    BY <2>1 DEF AuditInv, Observed, auditVars
  <2>2. ASSUME NEW actor \in Actors \cup {NoActor}, NEW persist \in BOOLEAN,
               HandleEvidenceRequest(actor, persist)
        PROVE  AuditInv'
    BY <2>1, <2>2, AddKeeps DEF HandleEvidenceRequest, FinalizeEvidenceResponse
  <2>3. CASE Crash
    <3>1. reads' = <<>> /\ sent' = <<>> /\ events' = <<>>
      BY <2>3 DEF Crash
    <3>2. Observed(Len(reads))' = {} /\ Cardinality({}) = 0 /\ MaxEvents \in Nat \ {0}
      BY <3>1, EmptyIs, EvidenceAssumption, FS_EmptySet DEF Observed
    <3>3. IsSequence(reads') /\ IsSequence(sent') /\ IsSequence(events')
          /\ Len(reads') = 0 /\ Len(sent') = 0 /\ Len(events') = 0
      BY <3>1, EmptyIs
    <3> QED
      BY <3>2, <3>3 DEF AuditInv, IsEndOf
  <2>4. \/ UNCHANGED auditVars
        \/ \E actor \in Actors \cup {NoActor}, persist \in BOOLEAN : HandleEvidenceRequest(actor, persist)
        \/ Crash
    BY DEF Next, LogLine, LogPartial, PostSnapshot, PostMarkdown, CreateWrites, CreateFails, DeleteStored,
           RemoveUnlinks, RemoveEnds, GetTemplates, PutTemplate, DeleteTemplate, auditVars, vars
  <2> QED
    BY <2>1, <2>2, <2>3, <2>4
<1>3. AuditInv => AuditComplete
  <2> SUFFICES ASSUME AuditInv, NEW n \in 0..(MaxEvents + 1)
               PROVE  /\ Len(ListNewestFirst(n)) = Min({n, MaxEvents, Len(sent)})
                      /\ \A i \in DOMAIN ListNewestFirst(n) :
                            ListNewestFirst(n)[i] = sent[Len(sent) + 1 - i]
    BY DEF AuditInv, AuditComplete
  <2>1. Len(sent) \in Nat /\ Len(events) \in Nat /\ MaxEvents \in Nat \ {0} /\ n \in Nat
    BY SequenceIs, EvidenceAssumption DEF AuditInv, IsEndOf
  <2>2. PICK m : m = Min({n, Len(events)})
    OBVIOUS
  <2>3. m = Min({n, MaxEvents, Len(sent)})
    <3>1. PICK b : b = Len(sent)
      OBVIOUS
    <3>2. b \in Nat /\ Len(events) = IF b < MaxEvents THEN b ELSE MaxEvents
      BY <2>1, <3>1 DEF AuditInv, IsEndOf
    <3>3. Min({n, MaxEvents, b}) = Min({n, IF b < MaxEvents THEN b ELSE MaxEvents})
      BY <2>1, <3>2, LeastOfThree
    <3> QED
      BY <2>2, <3>1, <3>2, <3>3
  <2>4. m \in Nat /\ m <= Len(events)
    BY <2>1, <2>2, LeastOfTwo
  <2>5. ListNewestFirst(n) = [i \in 1..m |-> events[Len(events) + 1 - i]]
    BY <2>2 DEF ListNewestFirst
  <2>6. ASSUME NEW i \in 1..m PROVE events[Len(events) + 1 - i] = sent[Len(sent) + 1 - i]
    <3>1. Len(events) + 1 - i \in 1..Len(events)
      BY <2>1, <2>4
    <3>2. Len(sent) - Len(events) + (Len(events) + 1 - i) = Len(sent) + 1 - i
      BY <2>1, <2>4
    <3> QED
      BY <3>1, <3>2 DEF AuditInv, IsEndOf
  <2>7. Len(ListNewestFirst(n)) = m /\ DOMAIN ListNewestFirst(n) = 1..m
    BY <2>4, <2>5
  <2> QED
    BY <2>3, <2>5, <2>6, <2>7
<1> QED
  BY <1>1, <1>2, <1>3, PTL DEF Spec
===============================================================================
