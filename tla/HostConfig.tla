------------------------------ MODULE HostConfig ------------------------------
(***************************************************************************)
(* host_identity.json: who this host is, how it listens, which hub it      *)
(* belongs to, the commands of its providers, and the recent launches. The *)
(* file is loaded, changed and saved again by the daemon (when it starts,  *)
(* for POST /host/config, DELETE /host/records/{id} and after every        *)
(* session it creates) and by the command line (host set-hub, clear-hub).  *)
(* A file that cannot be loaded is a host that has never been configured:  *)
(* the next save replaces it.                                              *)
(*                                                                         *)
(* Abstractions. One listener stands for the two, its port for host and    *)
(* port; one provider and its command for the two; the title of a launch   *)
(* for its title, workspace and provider. A save happens or does not: the  *)
(* temporary file and its rename are in Pairing. The processes save one    *)
(* after the other.                                                        *)
(***************************************************************************)
EXTENDS Naturals, Sequences, SequencesExt

CONSTANTS
    Bodies,             \* bodies of POST /sessions
    Names, Ports,       \* what the host may be called and where it may listen
    MaxLaunchRecords,   \* max_launch_records
    MaxLaunches,        \* bound: sessions that are created
    MaxChanges          \* bound: changes of the configuration, and starts of the daemon

ASSUME MaxLaunchRecordsAssumption == MaxLaunchRecords \in Nat \ {0}

VARIABLES
    file,       \* host_identity.json: Absent, or the object in it
    daemon,     \* "down", "starting" (listeners saved, identity not ensured) or "up"
    minted,     \* host ids generated so far
    launches,   \* the launches that have been saved, oldest first
    deleted,    \* the records that have been deleted
    told,       \* the settings that somebody was told are saved
    changes     \* changes so far

vars == <<file, daemon, minted, launches, deleted, told, changes>>

Absent == [absent |-> TRUE]
NoHost == 0
None == <<>>    \* an optional value that is not there; one that is there is <<value>>
-------------------------------------------------------------------------------
(* The file *)

MakeDefaultHostIdentity ==
    [hostId |-> NoHost, name |-> "Sentrits Host", port |-> 1, command |-> None,
     records |-> <<>>, hub |-> None]

\* The object that is written. The hub is left out when there is none.
ToJsonValue(identity) ==
    [k \in {j \in DOMAIN identity : j = "hub" => identity.hub # None} |-> identity[k]]

\* A launch with two commands, without a title or without an id is no launch record.
ParseLaunchRecord(r) == r.id # 0 /\ r.title # <<"">> /\ ~(r.argv # None /\ r.shell # None)

\* An object that is an identity: one bad record rejects them all.
Valid(object) ==
    /\ object # Absent
    /\ object.port # 0
    /\ \A i \in DOMAIN object.records : ParseLaunchRecord(object.records[i])

HostIdentityFromJson(object) ==
    [k \in DOMAIN MakeDefaultHostIdentity |->
        IF k \in DOMAIN object THEN object[k] ELSE MakeDefaultHostIdentity[k]]

\* LoadHostIdentity, and value_or(MakeDefaultHostIdentity()) where it is used.
LoadOrDefault == IF Valid(file) THEN HostIdentityFromJson(file) ELSE MakeDefaultHostIdentity

SaveHostIdentity(identity) == file' = ToJsonValue(identity)
SaveFails == UNCHANGED file

\* EnsureHostIdentity: an identity that has an id, if it can be saved.
Ensured(identity) ==
    IF identity.hostId # NoHost THEN identity ELSE [identity EXCEPT !.hostId = minted + 1]
-------------------------------------------------------------------------------
(* The daemon starts *)

Changes == changes < MaxChanges /\ changes' = changes + 1

\* sentrits serve: listeners given on the command line, or the ones of the file.
Serve ==
    /\ Changes /\ daemon = "down"
    /\ \E port \in Ports \cup {LoadOrDefault.port} :
        \/ /\ SaveHostIdentity([LoadOrDefault EXCEPT !.port = port])
           /\ daemon' = "starting"
           /\ told' = [told EXCEPT !.port = port]
        \/ SaveFails /\ UNCHANGED <<daemon, told>>
    /\ UNCHANGED <<minted, launches, deleted>>

\* CreateLocalAuthServices: the result of EnsureHostIdentity is ignored.
EnsureHostIdentity ==
    /\ daemon = "starting"
    /\ daemon' = "up"
    /\ \/ SaveHostIdentity(Ensured(LoadOrDefault)) /\ minted' = Ensured(LoadOrDefault).hostId
       \/ SaveFails /\ UNCHANGED minted
    /\ UNCHANGED <<launches, deleted, told, changes>>

DaemonEnds ==
    /\ daemon # "down" /\ daemon' = "down"
    /\ UNCHANGED <<file, minted, launches, deleted, told, changes>>
-------------------------------------------------------------------------------
(* Settings *)

\* A body that is a configuration: the port is one to listen on.
ParseHostConfigRequest(port) == port # 0

\* Mutant: the settings are written over a default configuration.
HandleHostConfigAfresh ==
    /\ Changes /\ daemon = "up"
    /\ \E name \in Names, port \in Ports, command \in {None, <<"codex">>} :
        \/ /\ SaveHostIdentity([MakeDefaultHostIdentity EXCEPT !.hostId = LoadOrDefault.hostId,
                 !.records = LoadOrDefault.records, !.name = name, !.port = port, !.command = command])
           /\ told' = [told EXCEPT !.name = name, !.port = port, !.command = command]
        \/ SaveFails /\ UNCHANGED told
    /\ UNCHANGED <<daemon, minted, launches, deleted>>

\* POST /host/config: a provider without a command in the request loses its own.
HandleHostConfig ==
    /\ Changes /\ daemon = "up"
    /\ \E name \in Names, port \in Ports \cup {0}, command \in {None, <<"codex">>} :
        /\ ParseHostConfigRequest(port)
        /\ \/ /\ SaveHostIdentity([LoadOrDefault EXCEPT !.name = name, !.port = port, !.command = command])
              /\ told' = [told EXCEPT !.name = name, !.port = port, !.command = command]
           \/ SaveFails /\ UNCHANGED told
    /\ UNCHANGED <<daemon, minted, launches, deleted>>

\* sentrits host set-hub, clear-hub: EnsureHostIdentity, then the hub.
SetHub ==
    /\ Changes /\ daemon # "starting"
    /\ \E hub \in {None, <<"hub">>} :
        \/ /\ SaveHostIdentity([Ensured(LoadOrDefault) EXCEPT !.hub = hub])
           /\ minted' = Ensured(LoadOrDefault).hostId
           /\ told' = [told EXCEPT !.hub = hub]
        \/ /\ SaveHostIdentity(Ensured(LoadOrDefault)) \* the second save fails
           /\ minted' = Ensured(LoadOrDefault).hostId
           /\ UNCHANGED told
        \/ SaveFails /\ UNCHANGED <<minted, told>>
    /\ UNCHANGED <<daemon, launches, deleted>>
-------------------------------------------------------------------------------
(* Launches *)

FindLaunchRecord(id) == {r \in ToSet(LoadOrDefault.records) : r.id = id}

\* A body that is a request: a title that is given is not empty, and there is at most
\* one command.
ParseCreateSessionRequest(b) == b.title # <<"">> /\ ~(b.argv # None /\ b.shell # None)

Given(value, default) == IF value # None THEN value ELSE default

\* The request of a body, or of a body and the record it refers to. The tags of a body
\* are always given, as the empty list if need be.
Resolved(b, record) ==
    [title |-> Given(b.title, record.title), argv |-> Given(b.argv, record.argv),
     shell |-> Given(b.shell, record.shell), tags |-> b.tags]

NoRecord == [title |-> None, argv |-> None, shell |-> None]

ApplyConfiguredProviderOverride(request) ==
    IF request.argv # None \/ request.shell # None THEN request
    ELSE [request EXCEPT !.argv = LoadOrDefault.command]

\* The requests a body may resolve to: none if the record is gone or the title missing.
ResolveCreateSessionRequest(b) ==
    LET records == IF b.record = 0 THEN {NoRecord} ELSE FindLaunchRecord(b.record) IN
    {ApplyConfiguredProviderOverride(Resolved(b, r)) :
        r \in {s \in records : Given(b.title, s.title) # None}}

\* Mutant: the list is trimmed before the record is added.
TrimmedBefore(records, record) ==
    <<record>> \o SubSeq(records, 1, IF Len(records) > MaxLaunchRecords THEN MaxLaunchRecords ELSE Len(records))

\* Most recent first, as many as max_launch_records.
Trimmed(records, record) ==
    SubSeq(<<record>> \o records, 1,
           IF Len(records) + 1 > MaxLaunchRecords THEN MaxLaunchRecords ELSE Len(records) + 1)

LaunchRecord(request, id) ==
    [id |-> id, title |-> request.title, argv |-> request.argv, shell |-> request.shell, tags |-> request.tags]

\* POST /sessions, once the session has been created: AutoSaveLaunchRecord. A save that
\* fails is ignored and the launch leaves no record.
CreateSession ==
    /\ daemon = "up" /\ Len(launches) < MaxLaunches
    /\ \E b \in Bodies :
        /\ ParseCreateSessionRequest(b)
        /\ \E request \in ResolveCreateSessionRequest(b) :
            LET record == LaunchRecord(request, Len(launches) + 1) IN
            /\ SaveHostIdentity([LoadOrDefault EXCEPT !.records = Trimmed(@, record)])
            /\ launches' = Append(launches, record)
    /\ UNCHANGED <<daemon, minted, deleted, told, changes>>

\* DELETE /host/records/{id}. Ids are random: at most one record has this one.
HandleDeleteHostRecord ==
    /\ Changes /\ daemon = "up"
    /\ \E i \in 1..Len(LoadOrDefault.records) :
        \/ /\ SaveHostIdentity([LoadOrDefault EXCEPT !.records = RemoveAt(@, i)])
           /\ deleted' = deleted \cup {LoadOrDefault.records[i].id}
        \/ SaveFails /\ UNCHANGED deleted
    /\ UNCHANGED <<daemon, minted, launches, told>>
-------------------------------------------------------------------------------
Init ==
    /\ file = Absent
    /\ daemon = "down"
    /\ minted = 0
    /\ launches = <<>> /\ deleted = {}
    /\ told = [name |-> MakeDefaultHostIdentity.name, port |-> MakeDefaultHostIdentity.port,
               command |-> None, hub |-> None]
    /\ changes = 0

Next ==
    \/ Serve \/ EnsureHostIdentity \/ DaemonEnds
    \/ HandleHostConfig \/ SetHub
    \/ CreateSession \/ HandleDeleteHostRecord

Spec == Init /\ [][Next]_vars
-------------------------------------------------------------------------------
\* What an operator was told is saved is what the next load gives: the name, the
\* listener, the provider's command and the hub, each whatever else was saved since; and
\* the host has the identity that was made for it first.
ConfigLasts ==
    /\ \A k \in DOMAIN told : LoadOrDefault[k] = told[k]
    /\ LoadOrDefault.hostId = minted /\ minted <= 1

\* The records are the recent launches, the latest first and each as it was launched:
\* one that is missing was deleted, or max_launch_records launches came after it.
RecordsAreHistory ==
    LET records == LoadOrDefault.records
        ids == {r.id : r \in ToSet(records)}
    IN  /\ ToSet(records) \subseteq ToSet(launches)
        /\ \A i \in 1..Len(records) - 1 : records[i].id > records[i + 1].id
        /\ ids \cap deleted = {}
        /\ Len(records) <= MaxLaunchRecords
        /\ \A id \in 1..Len(launches) :
            id \in ids \/ id \in deleted \/ Len(launches) - id >= MaxLaunchRecords

\* api_and_event_schema.md:37: "`hostId` is the canonical stable identity for a host and
\* is generated once on first runtime boot". An id that has been saved never changes.
HostIdStable == [][LoadOrDefault.hostId # NoHost => LoadOrDefault'.hostId = LoadOrDefault.hostId]_vars
===============================================================================
