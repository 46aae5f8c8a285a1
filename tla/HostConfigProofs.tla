---------------------------- MODULE HostConfigProofs ---------------------------
(***************************************************************************)
(* The configuration that was saved is loaded again, and the launch        *)
(* records are the recent launches, for any settings, any max_launch_records *)
(* and any number of launches, deletions, changes and restarts.            *)
(***************************************************************************)
EXTENDS HostConfig, SequenceTheorems, TLAPS

\* What the file has to be spared: a record with two commands, which a body makes that
\* launches a record again and gives a command of its own; and a port that no
\* configuration may have.
BodiesAreSound ==
    /\ 0 \notin Ports
    /\ \A b \in Bodies : b.record # 0 => b.argv = None /\ b.shell = None

Titles == {b.title : b \in Bodies} \ {None, <<"">>}
Providers == {None, <<"codex">>}
Commands == {b.argv : b \in Bodies} \cup {b.shell : b \in Bodies} \cup Providers
Tags == {b.tags : b \in Bodies}

Requests == {r \in [title : Titles, argv : Commands, shell : Commands, tags : Tags] :
                r.argv = None \/ r.shell = None}
Records == {r \in [id : Nat \ {0}, title : Titles, argv : Commands, shell : Commands, tags : Tags] :
                r.argv = None \/ r.shell = None}

Identities ==
    [hostId : Nat, name : Names \cup {"Sentrits Host"}, port : Ports \cup {1}, command : Providers,
     records : Seq(Records), hub : {None, <<"hub">>}]

\* What is told is what a load gives.
ToldOK ==
    told = [name |-> LoadOrDefault.name, port |-> LoadOrDefault.port,
            command |-> LoadOrDefault.command, hub |-> LoadOrDefault.hub]

\* The records, the launches so far and the records that were deleted. Of two records the
\* earlier one was launched later, by at least as many launches as they are apart.
Numbered(ls) == ls \in Seq(Records) /\ \A n \in 1..Len(ls) : ls[n].id = n

Recorded(rs, ls, gone) ==
    /\ Len(rs) <= MaxLaunchRecords /\ gone \subseteq 1..Len(ls)
    /\ \A i \in 1..Len(rs) :
          rs[i].id \in 1..Len(ls) /\ rs[i] = ls[rs[i].id] /\ rs[i].id \notin gone

Ordered(rs) == \A i, j \in 1..Len(rs) : i < j => rs[i].id - rs[j].id >= j - i

Accounted(rs, ls, gone) ==
    \A n \in 1..Len(ls) :
        \/ \E i \in 1..Len(rs) : rs[i].id = n
        \/ n \in gone
        \/ Len(ls) - n >= MaxLaunchRecords

History(rs, ls, gone) == Numbered(ls) /\ Recorded(rs, ls, gone) /\ Ordered(rs) /\ Accounted(rs, ls, gone)

HistoryOK == History(LoadOrDefault.records, launches, deleted)

Inv ==
    /\ BodiesAreSound
    /\ LoadOrDefault \in Identities
    /\ minted \in {0, 1} /\ LoadOrDefault.hostId = minted
    /\ ToldOK /\ HistoryOK
-------------------------------------------------------------------------------
(* The file *)

\* An identity that is saved is the one that is loaded next.
LEMMA SaveLoads ==
    ASSUME BodiesAreSound, NEW identity \in Identities, SaveHostIdentity(identity)
    PROVE  LoadOrDefault' = identity
<1>1. file' = ToJsonValue(identity)
  BY DEF SaveHostIdentity
<1>2. DOMAIN identity = {"hostId", "name", "port", "command", "records", "hub"}
  BY DEF Identities
<1>3. /\ \A k \in {"hostId", "name", "port", "command", "records"} : k \in DOMAIN file'
      /\ \A k \in DOMAIN file' : file'[k] = identity[k] /\ k \in DOMAIN identity
      /\ "hub" \in DOMAIN file' <=> identity.hub # None
  BY <1>1, <1>2 DEF ToJsonValue
<1>4. file' # Absent
  BY <1>3 DEF Absent
<1>5. file'.port # 0
  <2>1. identity.port \in Ports \cup {1}
    BY DEF Identities
  <2>2. file'.port = identity.port
    BY <1>3, Zenon
  <2> QED
    BY <2>1, <2>2 DEF BodiesAreSound
<1>6. \A i \in DOMAIN file'.records : ParseLaunchRecord(file'.records[i])
  <2>1. file'.records = identity.records /\ identity.records \in Seq(Records)
    BY <1>3 DEF Identities
  <2>2. \A r \in Records : ParseLaunchRecord(r)
    BY DEF ParseLaunchRecord, Records, Titles
  <2>3. DOMAIN identity.records = 1..Len(identity.records)
    BY <2>1
  <2>4. \A i \in DOMAIN identity.records : identity.records[i] \in Records
    BY <2>1, <2>3
  <2> QED
    BY <2>1, <2>2, <2>4
<1>7. Valid(file')
  BY <1>4, <1>5, <1>6 DEF Valid
<1>8. HostIdentityFromJson(file') = identity
  <2>1. HostIdentityFromJson(file') = [k \in {"hostId", "name", "port", "command", "records", "hub"} |->
           IF k \in DOMAIN file' THEN file'[k] ELSE MakeDefaultHostIdentity[k]]
    BY DEF HostIdentityFromJson, MakeDefaultHostIdentity
  <2>2. \A k \in {"hostId", "name", "port", "command", "records", "hub"} :
           (IF k \in DOMAIN file' THEN file'[k] ELSE MakeDefaultHostIdentity[k]) = identity[k]
    <3>1. MakeDefaultHostIdentity.hub = None
      BY DEF MakeDefaultHostIdentity
    <3>2. identity.hub = None => MakeDefaultHostIdentity["hub"] = identity["hub"]
      BY <3>1
    <3> QED
      BY <1>3, <3>2, Zenon
  <2>3. identity = [k \in {"hostId", "name", "port", "command", "records", "hub"} |-> identity[k]]
    BY DEF Identities
  <2> QED
    BY <2>1, <2>2, <2>3
<1> QED
  BY <1>7, <1>8 DEF LoadOrDefault

LEMMA InvInit == BodiesAreSound /\ Init => Inv
<1> SUFFICES ASSUME BodiesAreSound, Init PROVE Inv
  OBVIOUS
<1>1. LoadOrDefault = MakeDefaultHostIdentity
  BY DEF Init, LoadOrDefault, Valid
<1>2. MakeDefaultHostIdentity \in Identities
  BY DEF MakeDefaultHostIdentity, Identities, NoHost, Providers
<1>3. ToldOK
  BY <1>1 DEF Init, ToldOK, MakeDefaultHostIdentity
<1>4. HistoryOK
  <2>1. LoadOrDefault.records = <<>>
    BY <1>1 DEF MakeDefaultHostIdentity
  <2> QED
    BY <2>1, MaxLaunchRecordsAssumption DEF Init, HistoryOK, History, Numbered, Recorded, Ordered, Accounted
<1> QED
  BY <1>1, <1>2, <1>3, <1>4 DEF Inv, Init, MakeDefaultHostIdentity, NoHost
-------------------------------------------------------------------------------
(* Settings *)

ToldOf(identity) ==
    [name |-> identity.name, port |-> identity.port, command |-> identity.command, hub |-> identity.hub]

LEMMA NotSaved ==
    ASSUME Inv, UNCHANGED <<file, minted, launches, deleted, told>>
    PROVE  Inv'
<1>1. LoadOrDefault' = LoadOrDefault
  BY DEF LoadOrDefault
<1> QED
  BY <1>1 DEF Inv, ToldOK, HistoryOK, BodiesAreSound

\* Settings are saved with the records that were loaded.
LEMMA SettingsKeep ==
    ASSUME Inv, NEW identity \in Identities, SaveHostIdentity(identity),
           identity.records = LoadOrDefault.records, UNCHANGED <<launches, deleted>>,
           minted' \in {0, 1}, identity.hostId = minted', told' = ToldOf(identity)
    PROVE  Inv'
<1>1. LoadOrDefault' = identity
  BY SaveLoads DEF Inv
<1>2. ToldOK'
  BY <1>1 DEF ToldOK, ToldOf
<1>3. HistoryOK'
  BY <1>1 DEF Inv, HistoryOK
<1> QED
  BY <1>1, <1>2, <1>3 DEF Inv, BodiesAreSound

\* The identity that has an id is the first one that was made.
LEMMA EnsuredIs ==
    ASSUME Inv
    PROVE  LET e == Ensured(LoadOrDefault)
           IN  /\ e \in Identities /\ e.hostId = 1 /\ e.records = LoadOrDefault.records
               /\ ToldOf(e) = told
<1>1. PICK old \in Identities : old = LoadOrDefault /\ old.hostId = minted
  BY DEF Inv
<1>2. told = ToldOf(old)
  BY <1>1 DEF Inv, ToldOK, ToldOf
<1>3. minted \in {0, 1}
  BY DEF Inv
<1>4. CASE minted = 1
  BY <1>1, <1>2, <1>4 DEF Ensured, NoHost
<1>5. CASE minted = 0
  <2>1. PICK e : e = [old EXCEPT !.hostId = 1]
    OBVIOUS
  <2>2. Ensured(old) = e
    BY <1>1, <1>5, <2>1 DEF Ensured, NoHost
  <2>3. /\ e \in Identities /\ e.hostId = 1 /\ e.records = old.records
        /\ e.name = old.name /\ e.port = old.port /\ e.command = old.command /\ e.hub = old.hub
    BY <2>1 DEF Identities
  <2> QED
    BY <1>1, <1>2, <2>2, <2>3 DEF ToldOf
<1> QED
  BY <1>3, <1>4, <1>5

LEMMA ServeKeeps ==
    ASSUME Inv, Serve
    PROVE  Inv'
<1>1. PICK old \in Identities : old = LoadOrDefault /\ old.hostId = minted /\ minted \in {0, 1}
  BY DEF Inv
<1>2. told = ToldOf(old)
  BY <1>1 DEF Inv, ToldOK, ToldOf
<1>3. PICK port \in Ports \cup {old.port} :
        \/ /\ SaveHostIdentity([old EXCEPT !.port = port])
           /\ told' = [told EXCEPT !.port = port]
        \/ SaveFails /\ UNCHANGED told
  BY <1>1 DEF Serve
<1>4. CASE SaveFails /\ UNCHANGED told
  BY <1>4, NotSaved DEF Serve, SaveFails
<1>5. CASE SaveHostIdentity([old EXCEPT !.port = port]) /\ told' = [told EXCEPT !.port = port]
  <2>1. PICK new : new = [old EXCEPT !.port = port]
    OBVIOUS
  <2>2. /\ new \in Identities /\ new.hostId = old.hostId /\ new.records = old.records
        /\ new.name = old.name /\ new.port = port /\ new.command = old.command /\ new.hub = old.hub
    BY <2>1 DEF Identities
  <2>3. told' = ToldOf(new)
    BY <1>2, <1>5, <2>2 DEF ToldOf
  <2> QED
    BY <1>1, <1>5, <2>1, <2>2, <2>3, SettingsKeep DEF Serve
<1> QED
  BY <1>3, <1>4, <1>5

LEMMA EnsureHostIdentityKeeps ==
    ASSUME Inv, EnsureHostIdentity
    PROVE  Inv'
<1>1. CASE SaveFails /\ UNCHANGED minted
  BY <1>1, NotSaved DEF EnsureHostIdentity, SaveFails
<1>2. CASE SaveHostIdentity(Ensured(LoadOrDefault)) /\ minted' = Ensured(LoadOrDefault).hostId
  BY <1>2, EnsuredIs, SettingsKeep DEF EnsureHostIdentity
<1> QED
  BY <1>1, <1>2 DEF EnsureHostIdentity

LEMMA HandleHostConfigKeeps ==
    ASSUME Inv, HandleHostConfig
    PROVE  Inv'
<1>1. PICK old \in Identities : old = LoadOrDefault /\ old.hostId = minted /\ minted \in {0, 1}
  BY DEF Inv
<1>2. told = ToldOf(old)
  BY <1>1 DEF Inv, ToldOK, ToldOf
<1>3. PICK name \in Names, port \in Ports, command \in Providers :
        \/ /\ SaveHostIdentity([old EXCEPT !.name = name, !.port = port, !.command = command])
           /\ told' = [told EXCEPT !.name = name, !.port = port, !.command = command]
        \/ SaveFails /\ UNCHANGED told
  BY <1>1 DEF HandleHostConfig, ParseHostConfigRequest, Providers
<1>4. CASE SaveFails /\ UNCHANGED told
  BY <1>4, NotSaved DEF HandleHostConfig, SaveFails
<1>5. CASE /\ SaveHostIdentity([old EXCEPT !.name = name, !.port = port, !.command = command])
           /\ told' = [told EXCEPT !.name = name, !.port = port, !.command = command]
  <2>1. PICK new : new = [old EXCEPT !.name = name, !.port = port, !.command = command]
    OBVIOUS
  <2>2. /\ new \in Identities /\ new.hostId = old.hostId /\ new.records = old.records
        /\ new.name = name /\ new.port = port /\ new.command = command /\ new.hub = old.hub
    BY <2>1 DEF Identities
  <2>3. told' = ToldOf(new)
    BY <1>2, <1>5, <2>2 DEF ToldOf
  <2> QED
    BY <1>1, <1>5, <2>1, <2>2, <2>3, SettingsKeep DEF HandleHostConfig
<1> QED
  BY <1>3, <1>4, <1>5

LEMMA SetHubKeeps ==
    ASSUME Inv, SetHub
    PROVE  Inv'
<1>1. PICK e \in Identities : /\ e = Ensured(LoadOrDefault) /\ e.hostId = 1
                              /\ e.records = LoadOrDefault.records /\ told = ToldOf(e)
  BY EnsuredIs
<1>2. PICK hub \in {None, <<"hub">>} :
        \/ SaveHostIdentity([e EXCEPT !.hub = hub]) /\ minted' = 1 /\ told' = [told EXCEPT !.hub = hub]
        \/ SaveHostIdentity(e) /\ minted' = 1 /\ UNCHANGED told
        \/ SaveFails /\ UNCHANGED <<minted, told>>
  BY <1>1 DEF SetHub
<1>3. CASE SaveFails /\ UNCHANGED <<minted, told>>
  BY <1>3, NotSaved DEF SetHub, SaveFails
<1>4. CASE SaveHostIdentity(e) /\ minted' = 1 /\ UNCHANGED told
  BY <1>1, <1>4, SettingsKeep DEF SetHub
<1>5. CASE SaveHostIdentity([e EXCEPT !.hub = hub]) /\ minted' = 1 /\ told' = [told EXCEPT !.hub = hub]
  <2>1. PICK new : new = [e EXCEPT !.hub = hub]
    OBVIOUS
  <2>2. /\ new \in Identities /\ new.hostId = e.hostId /\ new.records = e.records
        /\ new.name = e.name /\ new.port = e.port /\ new.command = e.command /\ new.hub = hub
    BY <2>1 DEF Identities
  <2>3. told' = ToldOf(new)
    BY <1>1, <1>5, <2>2 DEF ToldOf
  <2> QED
    BY <1>1, <1>5, <2>1, <2>2, <2>3, SettingsKeep DEF SetHub
<1> QED
  BY <1>2, <1>3, <1>4, <1>5
-------------------------------------------------------------------------------
(* Launches *)

\* A body that is a request resolves to a request with one command at most.
LEMMA ResolvedIs ==
    ASSUME Inv, NEW b \in Bodies, ParseCreateSessionRequest(b),
           NEW request \in ResolveCreateSessionRequest(b)
    PROVE  request \in Requests
<1>1. PICK old \in Identities : old = LoadOrDefault
  BY DEF Inv
<1>2. PICK r \in IF b.record = 0 THEN {NoRecord} ELSE FindLaunchRecord(b.record) :
           /\ Given(b.title, r.title) # None
           /\ request = ApplyConfiguredProviderOverride(Resolved(b, r))
  BY DEF ResolveCreateSessionRequest
<1>3. Resolved(b, r) \in Requests
  <2>1. CASE b.record = 0
    <3>1. r = NoRecord
      BY <1>2, <2>1
    <3>2. r.title = None /\ r.argv = None /\ r.shell = None
      BY <3>1 DEF NoRecord
    <3>3. Resolved(b, r) = [title |-> b.title, argv |-> b.argv, shell |-> b.shell, tags |-> b.tags]
      BY <3>2 DEF Resolved, Given
    <3>4. b.title \in Titles /\ (b.argv = None \/ b.shell = None)
      BY <1>2, <3>2 DEF Titles, Given, ParseCreateSessionRequest
    <3>5. b.argv \in Commands /\ b.shell \in Commands /\ b.tags \in Tags
      BY DEF Commands, Tags
    <3> QED
      BY <3>3, <3>4, <3>5 DEF Requests
  <2>2. CASE b.record # 0
    <3>1. r \in Records
      <4>1. old.records \in Seq(Records)
        BY DEF Identities
      <4>2. r \in {old.records[i] : i \in DOMAIN old.records}
        BY <1>1, <1>2, <2>2 DEF FindLaunchRecord, ToSet
      <4> QED
        BY <4>1, <4>2
    <3>2. b.argv = None /\ b.shell = None
      BY <2>2 DEF Inv, BodiesAreSound
    <3>3. Given(b.title, r.title) \in Titles
      BY <1>2, <3>1 DEF Given, Titles, Records, ParseCreateSessionRequest
    <3>4. /\ r.argv \in Commands /\ r.shell \in Commands /\ b.tags \in Tags
          /\ r.argv = None \/ r.shell = None
      BY <3>1 DEF Records, Tags
    <3>5. Resolved(b, r) = [title |-> Given(b.title, r.title), argv |-> r.argv, shell |-> r.shell, tags |-> b.tags]
      BY <3>2 DEF Resolved, Given
    <3> QED
      BY <3>3, <3>4, <3>5 DEF Requests
  <2> QED
    BY <2>1, <2>2
<1>4. PICK q \in Requests : q = Resolved(b, r)
  BY <1>3
<1>5. CASE q.argv # None \/ q.shell # None
  BY <1>2, <1>4, <1>5 DEF ApplyConfiguredProviderOverride
<1>6. CASE q.argv = None /\ q.shell = None
  <2>1. old.command \in Commands
    BY DEF Identities, Commands
  <2>2. request = [q EXCEPT !.argv = old.command]
    BY <1>1, <1>2, <1>4, <1>6 DEF ApplyConfiguredProviderOverride
  <2> QED
    BY <1>6, <2>1, <2>2 DEF Requests
<1> QED
  BY <1>5, <1>6

\* t is the records rs behind the new record r, as many as are kept.
Headed(t, rs, r) ==
    /\ t \in Seq(Records)
    /\ Len(t) = IF Len(rs) + 1 > MaxLaunchRecords THEN MaxLaunchRecords ELSE Len(rs) + 1
    /\ t[1] = r /\ \A i \in 2..Len(t) : t[i] = rs[i - 1]

LEMMA TrimmedIs ==
    ASSUME NEW rs \in Seq(Records), NEW r \in Records, NEW t, t = Trimmed(rs, r)
    PROVE  Headed(t, rs, r)
<1>1. MaxLaunchRecords \in Nat \ {0}
  BY MaxLaunchRecordsAssumption
<1>2. PICK all \in Seq(Records) : all = <<r>> \o rs
  <2>1. <<r>> \in Seq(Records)
    OBVIOUS
  <2>2. <<r>> \o rs \in Seq(Records)
    BY <2>1
  <2> QED
    BY <2>2
<1>3. Len(all) = Len(rs) + 1 /\ all[1] = r /\ \A i \in 2..Len(all) : all[i] = rs[i - 1]
  BY <1>2
<1>4. PICK m \in 1..Len(all) : m = IF Len(rs) + 1 > MaxLaunchRecords THEN MaxLaunchRecords ELSE Len(rs) + 1
  BY <1>1, <1>3
<1>5. t = SubSeq(all, 1, m)
  BY <1>2, <1>4 DEF Trimmed
<1>6. SubSeq(all, 1, m) \in Seq(Records) /\ Len(SubSeq(all, 1, m)) = m /\ \A i \in 1..m : SubSeq(all, 1, m)[i] = all[i]
  OBVIOUS
<1>7. t \in Seq(Records) /\ Len(t) = m /\ \A i \in 1..m : t[i] = all[i]
  BY <1>5, <1>6, ZenonT(60)
<1>8. t[1] = r
  BY <1>3, <1>4, <1>7
<1>9. ASSUME NEW i \in 2..Len(t) PROVE t[i] = rs[i - 1]
  <2>1. i \in 1..m /\ i \in 2..Len(all)
    BY <1>4, <1>7
  <2> QED
    BY <1>3, <1>7, <2>1
<1> QED
  BY <1>4, <1>7, <1>8, <1>9 DEF Headed

\* A launch is the most recent record; what is trimmed is max_launch_records launches old.
LEMMA LaunchKeepsHistory ==
    ASSUME NEW rs \in Seq(Records), NEW ls, NEW gone, History(rs, ls, gone),
           NEW r \in Records, r.id = Len(ls) + 1
    PROVE  History(Trimmed(rs, r), Append(ls, r), gone)
<1>1. MaxLaunchRecords \in Nat \ {0}
  BY MaxLaunchRecordsAssumption
<1>2. PICK t \in Seq(Records) :
        /\ t = Trimmed(rs, r)
        /\ Len(t) = IF Len(rs) + 1 > MaxLaunchRecords THEN MaxLaunchRecords ELSE Len(rs) + 1
        /\ t[1] = r /\ \A i \in 2..Len(t) : t[i] = rs[i - 1]
  <2>1. PICK t : t = Trimmed(rs, r)
    OBVIOUS
  <2>2. Headed(t, rs, r)
    BY <2>1, TrimmedIs
  <2> QED
    BY <2>1, <2>2 DEF Headed
<1>3. /\ ls \in Seq(Records) /\ \A n \in 1..Len(ls) : ls[n].id = n
      /\ Len(rs) <= MaxLaunchRecords /\ gone \subseteq 1..Len(ls)
  BY DEF History, Numbered, Recorded
<1>4. PICK new \in Seq(Records) : /\ new = Append(ls, r) /\ Len(new) = Len(ls) + 1
                                  /\ new[Len(ls) + 1] = r /\ \A n \in 1..Len(ls) : new[n] = ls[n]
  <2>1. /\ Append(ls, r) \in Seq(Records) /\ Len(Append(ls, r)) = Len(ls) + 1
        /\ Append(ls, r)[Len(ls) + 1] = r /\ \A n \in 1..Len(ls) : Append(ls, r)[n] = ls[n]
    BY <1>3
  <2> QED
    BY <2>1
<1>5. Numbered(new)
  BY <1>3, <1>4 DEF Numbered
<1>6. \A i \in 1..Len(rs) : rs[i].id \in 1..Len(ls) /\ rs[i] = ls[rs[i].id] /\ rs[i].id \notin gone
  BY DEF History, Recorded
<1>7. Recorded(t, new, gone)
  <2>1. Len(t) <= MaxLaunchRecords /\ gone \subseteq 1..Len(new)
    BY <1>1, <1>2, <1>3, <1>4
  <2>2. ASSUME NEW i \in 1..Len(t)
        PROVE  t[i].id \in 1..Len(new) /\ t[i] = new[t[i].id] /\ t[i].id \notin gone
    <3>1. CASE i = 1
      BY <1>2, <1>3, <1>4, <3>1
    <3>2. CASE i # 1
      <4>1. i - 1 \in 1..Len(rs) /\ t[i] = rs[i - 1]
        BY <1>1, <1>2, <3>2
      <4> QED
        BY <1>3, <1>4, <1>6, <4>1
    <3> QED
      BY <3>1, <3>2
  <2> QED
    BY <2>1, <2>2 DEF Recorded
<1>8. \A i, j \in 1..Len(rs) : i < j => rs[i].id - rs[j].id >= j - i
  BY DEF History, Ordered
<1>9. \A i \in 1..Len(rs) : Len(ls) + 1 - rs[i].id >= i
  <2> TAKE i \in 1..Len(rs)
  <2>1. rs[1].id \in 1..Len(ls) /\ rs[i].id \in 1..Len(ls)
    BY <1>6
  <2>2. i = 1 \/ rs[1].id - rs[i].id >= i - 1
    BY <1>8
  <2> QED
    BY <1>3, <2>1, <2>2
<1>10. Ordered(t)
  <2> SUFFICES ASSUME NEW i \in 1..Len(t), NEW j \in 1..Len(t), i < j
               PROVE  t[i].id - t[j].id >= j - i
    BY DEF Ordered
  <2>1. j - 1 \in 1..Len(rs) /\ t[j] = rs[j - 1]
    BY <1>1, <1>2, SMTT(60)
  <2>2. CASE i = 1
    <3>1. t[i].id = Len(ls) + 1 /\ Len(ls) + 1 - rs[j - 1].id >= j - 1
      BY <1>2, <1>9, <2>1, <2>2
    <3>2. PICK b : b = rs[j - 1].id
      OBVIOUS
    <3>3. b \in 1..Len(ls) /\ Len(ls) \in Nat
      BY <1>3, <1>6, <2>1, <3>2
    <3>4. Len(ls) + 1 - b >= j - i
      BY <2>2, <3>1, <3>2, <3>3
    <3>5. t[j].id = b
      BY <2>1, <3>2
    <3> QED
      BY <3>1, <3>3, <3>4, <3>5
  <2>3. CASE i # 1
    <3>1. i - 1 \in 1..Len(rs) /\ t[i] = rs[i - 1]
      BY <1>1, <1>2, <2>3
    <3> QED
      <4>1. rs[i - 1].id - rs[j - 1].id >= (j - 1) - (i - 1)
        BY <1>8, <2>1, <3>1, SMTT(60)
      <4> QED
        BY <2>1, <3>1, <4>1
  <2> QED
    BY <2>2, <2>3
<1>11. Accounted(t, new, gone)
  <2> SUFFICES ASSUME NEW n \in 1..Len(new), n \notin gone, ~(Len(new) - n >= MaxLaunchRecords)
               PROVE  \E i \in 1..Len(t) : t[i].id = n
    BY DEF Accounted
  <2>1. CASE n = Len(ls) + 1
    <3>1. 1 \in 1..Len(t) /\ t[1].id = n
      BY <1>1, <1>2, <2>1
    <3> QED
      BY <3>1
  <2>2. CASE n # Len(ls) + 1
    <3>1. n \in 1..Len(ls) /\ ~(Len(ls) - n >= MaxLaunchRecords)
      BY <1>1, <1>3, <1>4, <2>2, SMTT(60)
    <3>2. PICK i \in 1..Len(rs) : rs[i].id = n
      BY <3>1 DEF History, Accounted
    <3>3. i + 1 \in 2..Len(t)
      BY <1>1, <1>2, <1>3, <1>4, <1>9, <3>1, <3>2, SMTT(60)
    <3>4. t[i + 1] = rs[i]
      BY <1>2, <3>3, SMTT(60)
    <3> QED
      BY <3>2, <3>3, <3>4
  <2> QED
    BY <2>1, <2>2
<1> QED
  BY <1>2, <1>4, <1>5, <1>7, <1>10, <1>11 DEF History

LEMMA RemoveAtIs ==
    ASSUME NEW S, NEW rs \in Seq(S), NEW k \in 1..Len(rs)
    PROVE  LET t == RemoveAt(rs, k)
           IN  /\ t \in Seq(S) /\ Len(t) = Len(rs) - 1
               /\ \A i \in 1..Len(t) : t[i] = IF i < k THEN rs[i] ELSE rs[i + 1]
<1>1. PICK front \in Seq(S) : /\ front = SubSeq(rs, 1, k - 1) /\ Len(front) = k - 1
                              /\ \A i \in 1..(k - 1) : front[i] = rs[i]
  <2>1. /\ SubSeq(rs, 1, k - 1) \in Seq(S) /\ Len(SubSeq(rs, 1, k - 1)) = k - 1
        /\ \A i \in 1..(k - 1) : SubSeq(rs, 1, k - 1)[i] = rs[i]
    OBVIOUS
  <2> QED
    BY <2>1
<1>2. PICK rest \in Seq(S) : /\ rest = SubSeq(rs, k + 1, Len(rs)) /\ Len(rest) = Len(rs) - k
                             /\ \A i \in 1..(Len(rs) - k) : rest[i] = rs[k + i]
  <2>1. /\ SubSeq(rs, k + 1, Len(rs)) \in Seq(S) /\ Len(SubSeq(rs, k + 1, Len(rs))) = Len(rs) - k
        /\ \A i \in 1..(Len(rs) - k) : SubSeq(rs, k + 1, Len(rs))[i] = rs[k + i]
    OBVIOUS
  <2> QED
    BY <2>1
<1>3. /\ front \o rest \in Seq(S) /\ Len(front \o rest) = Len(rs) - 1
      /\ \A i \in 1..(Len(rs) - 1) :
            (front \o rest)[i] = IF i <= k - 1 THEN front[i] ELSE rest[i - (k - 1)]
  <2>1. /\ front \o rest \in Seq(S) /\ Len(front \o rest) = Len(front) + Len(rest)
        /\ \A i \in 1..(Len(front) + Len(rest)) :
              (front \o rest)[i] = IF i <= Len(front) THEN front[i] ELSE rest[i - Len(front)]
    BY ConcatProperties
  <2>2. Len(front) + Len(rest) = Len(rs) - 1
    <3>1. Len(rs) \in Nat /\ Len(front) = k - 1 /\ Len(rest) = Len(rs) - k
      BY <1>1, <1>2
    <3> QED
      BY <3>1
  <2> QED
    BY <1>1, <2>1, <2>2
<1>4. RemoveAt(rs, k) = front \o rest
  BY <1>1, <1>2 DEF RemoveAt
<1>5. ASSUME NEW i \in 1..(Len(rs) - 1)
      PROVE  (front \o rest)[i] = IF i < k THEN rs[i] ELSE rs[i + 1]
  <2>1. CASE i < k
    <3>1. i \in 1..(k - 1) /\ i <= k - 1
      BY <2>1
    <3> QED
      BY <1>1, <1>3, <2>1, <3>1
  <2>2. CASE ~(i < k)
    <3>1. i - (k - 1) \in 1..(Len(rs) - k) /\ k + (i - (k - 1)) = i + 1 /\ ~(i <= k - 1)
      BY <2>2
    <3>2. (front \o rest)[i] = rest[i - (k - 1)]
      BY <1>3, <3>1
    <3>3. rest[i - (k - 1)] = rs[k + (i - (k - 1))]
      BY <1>2, <3>1
    <3> QED
      BY <2>2, <3>1, <3>2, <3>3
  <2> QED
    BY <2>1, <2>2
<1> QED
  BY <1>3, <1>4, <1>5

\* A record that is deleted is the only one with its number.
LEMMA DeleteKeepsHistory ==
    ASSUME NEW rs \in Seq(Records), NEW ls, NEW gone, History(rs, ls, gone), NEW k \in 1..Len(rs)
    PROVE  History(RemoveAt(rs, k), ls, gone \cup {rs[k].id})
<1>1. MaxLaunchRecords \in Nat \ {0}
  BY MaxLaunchRecordsAssumption
<1>2. PICK t \in Seq(Records) : /\ t = RemoveAt(rs, k) /\ Len(t) = Len(rs) - 1
                                /\ \A i \in 1..Len(t) : t[i] = IF i < k THEN rs[i] ELSE rs[i + 1]
  <2>1. RemoveAt(rs, k) \in Seq(Records)
    BY RemoveAtIs
  <2> QED
    BY <2>1, RemoveAtIs
<1>3. ls \in Seq(Records) /\ Len(rs) <= MaxLaunchRecords /\ gone \subseteq 1..Len(ls)
  BY DEF History, Numbered, Recorded
<1>4. \A i \in 1..Len(rs) : rs[i].id \in 1..Len(ls) /\ rs[i] = ls[rs[i].id] /\ rs[i].id \notin gone
  BY DEF History, Recorded
<1>5. \A i, j \in 1..Len(rs) : i < j => rs[i].id - rs[j].id >= j - i
  BY DEF History, Ordered
<1>6. \A i, j \in 1..Len(rs) : i # j => rs[i].id # rs[j].id
  <2> TAKE i, j \in 1..Len(rs)
  <2>1. rs[i].id \in Nat /\ rs[j].id \in Nat
    BY <1>4
  <2> QED
    BY <1>5, <2>1, SMTT(60)
<1>7. \A i \in 1..Len(t) : \E j \in 1..Len(rs) : j # k /\ t[i] = rs[j]
  <2> TAKE i \in 1..Len(t)
  <2>1. CASE i < k
    BY <1>2, <2>1
  <2>2. CASE ~(i < k)
    <3>1. i + 1 \in 1..Len(rs) /\ i + 1 # k /\ t[i] = rs[i + 1]
      BY <1>2, <2>2
    <3> QED
      BY <3>1
  <2> QED
    BY <2>1, <2>2
<1>8. Recorded(t, ls, gone \cup {rs[k].id})
  <2>1. Len(t) <= MaxLaunchRecords
    BY <1>1, <1>2, <1>3
  <2>2. gone \cup {rs[k].id} \subseteq 1..Len(ls)
    BY <1>3, <1>4
  <2>3. ASSUME NEW i \in 1..Len(t)
        PROVE  t[i].id \in 1..Len(ls) /\ t[i] = ls[t[i].id] /\ t[i].id \notin gone \cup {rs[k].id}
    <3>1. PICK j \in 1..Len(rs) : j # k /\ t[i] = rs[j]
      BY <1>7
    <3>2. rs[j].id \in 1..Len(ls) /\ rs[j] = ls[rs[j].id] /\ rs[j].id \notin gone /\ rs[j].id # rs[k].id
      BY <1>4, <1>6, <3>1
    <3> QED
      BY <3>1, <3>2, Zenon
  <2> QED
    BY <2>1, <2>2, <2>3 DEF Recorded
<1>9. Ordered(t)
  <2> SUFFICES ASSUME NEW i \in 1..Len(t), NEW j \in 1..Len(t), i < j
               PROVE  t[i].id - t[j].id >= j - i
    BY DEF Ordered
  <2>1. PICK p \in 1..Len(rs) : t[i] = rs[p] /\ p = IF i < k THEN i ELSE i + 1
    <3>1. (IF i < k THEN i ELSE i + 1) \in 1..Len(rs)
      BY <1>2
    <3>2. t[i] = rs[IF i < k THEN i ELSE i + 1]
      BY <1>2
    <3> QED
      BY <3>1, <3>2
  <2>2. PICK q \in 1..Len(rs) : t[j] = rs[q] /\ q = IF j < k THEN j ELSE j + 1
    <3>1. (IF j < k THEN j ELSE j + 1) \in 1..Len(rs)
      BY <1>2
    <3>2. t[j] = rs[IF j < k THEN j ELSE j + 1]
      BY <1>2
    <3> QED
      BY <3>1, <3>2
  <2>3. p < q /\ q - p >= j - i
    BY <2>1, <2>2
  <2>4. rs[p].id - rs[q].id >= q - p
    BY <1>5, <2>3
  <2>5. PICK a \in Nat, b \in Nat : a = rs[p].id /\ b = rs[q].id
    BY <1>4
  <2>6. a - b >= j - i
    BY <2>3, <2>4, <2>5, SMTT(60)
  <2> QED
    BY <2>1, <2>2, <2>5, <2>6, Zenon
<1>10. Accounted(t, ls, gone \cup {rs[k].id})
  <2> SUFFICES ASSUME NEW n \in 1..Len(ls), n \notin gone, n # rs[k].id, ~(Len(ls) - n >= MaxLaunchRecords)
               PROVE  \E i \in 1..Len(t) : t[i].id = n
    BY DEF Accounted
  <2>1. PICK j \in 1..Len(rs) : rs[j].id = n
    BY DEF History, Accounted
  <2>2. PICK i \in 1..Len(t) : t[i] = rs[j]
    <3>1. j # k
      BY <2>1
    <3>2. CASE j < k
      BY <1>2, <3>2
    <3>3. CASE j > k
      <4>1. j - 1 \in 1..Len(t) /\ t[j - 1] = rs[j]
        BY <1>2, <3>3
      <4> QED
        BY <4>1
    <3> QED
      BY <3>1, <3>2, <3>3
  <2> QED
    BY <2>1, <2>2
<1> QED
  BY <1>2, <1>8, <1>9, <1>10 DEF History

LEMMA CreateSessionKeeps ==
    ASSUME Inv, CreateSession
    PROVE  Inv'
<1>1. PICK old \in Identities : old = LoadOrDefault /\ old.hostId = minted /\ minted \in {0, 1}
  BY DEF Inv
<1>b. PICK b \in Bodies :
        /\ ParseCreateSessionRequest(b)
        /\ \E request \in ResolveCreateSessionRequest(b) :
            /\ SaveHostIdentity([old EXCEPT !.records = Trimmed(@, LaunchRecord(request, Len(launches) + 1))])
            /\ launches' = Append(launches, LaunchRecord(request, Len(launches) + 1))
  BY <1>1 DEF CreateSession
<1>2. PICK request \in ResolveCreateSessionRequest(b) :
        /\ SaveHostIdentity([old EXCEPT !.records = Trimmed(@, LaunchRecord(request, Len(launches) + 1))])
        /\ launches' = Append(launches, LaunchRecord(request, Len(launches) + 1))
  BY <1>b
<1>3. request \in Requests
  BY <1>b, ResolvedIs
<1>4. History(old.records, launches, deleted) /\ old.records \in Seq(Records) /\ launches \in Seq(Records)
  BY <1>1 DEF Inv, HistoryOK, History, Numbered, Identities
<1>5. PICK r \in Records : r = LaunchRecord(request, Len(launches) + 1) /\ r.id = Len(launches) + 1
  <2>1. /\ LaunchRecord(request, Len(launches) + 1) \in Records
        /\ LaunchRecord(request, Len(launches) + 1).id = Len(launches) + 1
    BY <1>3, <1>4 DEF LaunchRecord, Requests, Records
  <2> QED
    BY <2>1
<1>6. History(Trimmed(old.records, r), launches', deleted) /\ Trimmed(old.records, r) \in Seq(Records)
  BY <1>2, <1>4, <1>5, LaunchKeepsHistory, TrimmedIs DEF Headed
<1>7. PICK new : new = [old EXCEPT !.records = Trimmed(old.records, r)]
  OBVIOUS
<1>8. /\ new \in Identities /\ new.hostId = old.hostId /\ new.records = Trimmed(old.records, r)
      /\ new.name = old.name /\ new.port = old.port /\ new.command = old.command /\ new.hub = old.hub
  BY <1>6, <1>7 DEF Identities
<1>9. LoadOrDefault' = new
  BY <1>2, <1>5, <1>7, <1>8, SaveLoads DEF Inv
<1>10. UNCHANGED <<minted, deleted, told>>
  BY DEF CreateSession
<1>11. ToldOK'
  BY <1>1, <1>8, <1>9, <1>10 DEF Inv, ToldOK
<1>12. HistoryOK'
  BY <1>6, <1>8, <1>9, <1>10 DEF HistoryOK
<1> QED
  BY <1>1, <1>8, <1>9, <1>10, <1>11, <1>12 DEF Inv, BodiesAreSound

LEMMA HandleDeleteHostRecordKeeps ==
    ASSUME Inv, HandleDeleteHostRecord
    PROVE  Inv'
<1>1. PICK old \in Identities : old = LoadOrDefault /\ old.hostId = minted /\ minted \in {0, 1}
  BY DEF Inv
<1>2. UNCHANGED <<minted, launches, told>>
  BY DEF HandleDeleteHostRecord
<1>3. PICK i \in 1..Len(old.records) :
        \/ /\ SaveHostIdentity([old EXCEPT !.records = RemoveAt(old.records, i)])
           /\ deleted' = deleted \cup {old.records[i].id}
        \/ SaveFails /\ UNCHANGED deleted
  BY <1>1 DEF HandleDeleteHostRecord
<1>4. CASE SaveFails /\ UNCHANGED deleted
  BY <1>2, <1>4, NotSaved DEF SaveFails
<1>5. CASE /\ SaveHostIdentity([old EXCEPT !.records = RemoveAt(old.records, i)])
           /\ deleted' = deleted \cup {old.records[i].id}
  <2>1. History(old.records, launches, deleted) /\ old.records \in Seq(Records)
    BY <1>1 DEF Inv, HistoryOK, Identities
  <2>2. PICK t \in Seq(Records) : t = RemoveAt(old.records, i) /\ History(t, launches, deleted')
    <3>1. RemoveAt(old.records, i) \in Seq(Records)
      BY <2>1, RemoveAtIs
    <3>2. History(RemoveAt(old.records, i), launches, deleted')
      BY <1>5, <2>1, DeleteKeepsHistory
    <3> QED
      BY <3>1, <3>2
  <2>3. PICK new : new = [old EXCEPT !.records = t]
    OBVIOUS
  <2>4. /\ new \in Identities /\ new.hostId = old.hostId /\ new.records = t
        /\ new.name = old.name /\ new.port = old.port /\ new.command = old.command /\ new.hub = old.hub
    BY <2>3 DEF Identities
  <2>5. LoadOrDefault' = new
    BY <1>5, <2>2, <2>3, <2>4, SaveLoads DEF Inv
  <2>6. ToldOK'
    BY <1>1, <1>2, <2>4, <2>5 DEF Inv, ToldOK
  <2>7. HistoryOK'
    BY <1>2, <2>2, <2>4, <2>5 DEF HistoryOK
  <2> QED
    BY <1>1, <1>2, <2>4, <2>5, <2>6, <2>7 DEF Inv, BodiesAreSound
<1> QED
  BY <1>3, <1>4, <1>5

LEMMA InvNext == Inv /\ [Next]_vars => Inv'
<1>1. CASE DaemonEnds \/ UNCHANGED vars
  BY <1>1, NotSaved DEF DaemonEnds, vars
<1> QED
  BY <1>1, ServeKeeps, EnsureHostIdentityKeeps, HandleHostConfigKeeps, SetHubKeeps,
     CreateSessionKeeps, HandleDeleteHostRecordKeeps DEF Next
-------------------------------------------------------------------------------
\* What an operator was told is saved is what the next load gives, whatever else was saved
\* since and however often the daemon was started, and the host keeps the identity that was
\* made for it first; as long as no launch is one that the file cannot hold.
THEOREM ConfigIsKept == BodiesAreSound => (Spec => []ConfigLasts)
<1> SUFFICES ASSUME BodiesAreSound PROVE Spec => []ConfigLasts
  OBVIOUS
<1>1. Inv => ConfigLasts
  <2> SUFFICES ASSUME Inv PROVE ConfigLasts
    OBVIOUS
  <2>1. PICK old : old = LoadOrDefault
    OBVIOUS
  <2>2. told = [name |-> old.name, port |-> old.port, command |-> old.command, hub |-> old.hub]
    BY <2>1 DEF Inv, ToldOK
  <2>3. \A k \in DOMAIN told : old[k] = told[k]
    BY <2>2
  <2> QED
    BY <2>1, <2>3 DEF Inv, ConfigLasts
<1>2. Init => Inv
  BY InvInit
<1> QED
  BY <1>1, <1>2, InvNext, PTL DEF Spec

\* The launch records are the recent launches, the latest first, for any bound on their
\* number and in any order of launches, deletions, settings and restarts.
THEOREM RecordsStayHistory == BodiesAreSound => (Spec => []RecordsAreHistory)
<1> SUFFICES ASSUME BodiesAreSound PROVE Spec => []RecordsAreHistory
  OBVIOUS
<1>1. Inv => RecordsAreHistory
  <2> SUFFICES ASSUME Inv PROVE RecordsAreHistory
    OBVIOUS
  <2>1. PICK rs \in Seq(Records) : rs = LoadOrDefault.records /\ History(rs, launches, deleted)
    BY DEF Inv, Identities, HistoryOK
  <2>2. launches \in Seq(Records) /\ DOMAIN rs = 1..Len(rs) /\ DOMAIN launches = 1..Len(launches)
    BY <2>1 DEF History, Numbered
  <2>3. ToSet(rs) = {rs[i] : i \in 1..Len(rs)} /\ ToSet(launches) = {launches[i] : i \in 1..Len(launches)}
    BY <2>2 DEF ToSet
  <2>4. {r.id : r \in ToSet(rs)} = {rs[i].id : i \in 1..Len(rs)}
    BY <2>3
  <2>5. ToSet(rs) \subseteq ToSet(launches) /\ {rs[i].id : i \in 1..Len(rs)} \cap deleted = {}
        /\ Len(rs) <= MaxLaunchRecords
    BY <2>1, <2>3 DEF History, Recorded
  <2>6. \A i \in 1..Len(rs) - 1 : rs[i].id > rs[i + 1].id
    <3> TAKE i \in 1..Len(rs) - 1
    <3>1. rs[i].id - rs[i + 1].id >= 1
      BY <2>1 DEF History, Ordered
    <3>2. PICK a \in Nat, b \in Nat : a = rs[i].id /\ b = rs[i + 1].id
      BY <2>1, SMTT(60) DEF History, Recorded
    <3> QED
      BY <3>1, <3>2
  <2>7. \A n \in 1..Len(launches) :
           n \in {rs[i].id : i \in 1..Len(rs)} \/ n \in deleted \/ Len(launches) - n >= MaxLaunchRecords
    BY <2>1 DEF History, Accounted
  <2> QED
    BY <2>1, <2>4, <2>5, <2>6, <2>7 DEF RecordsAreHistory
<1>2. Init => Inv
  BY InvInit
<1> QED
  BY <1>1, <1>2, InvNext, PTL DEF Spec
===============================================================================
