-------------------------------- MODULE Pairing -------------------------------
(***************************************************************************)
(* How a device becomes trusted: DefaultPairingService, the pairing routes *)
(* of http_shared.cpp, and FilePairingStore, whose file is what            *)
(* DefaultAuthorizer looks every bearer token up in.                       *)
(*                                                                         *)
(* A handler runs to completion on the io thread. What can come in between *)
(* is the death of the daemon, so ApprovePairing, which writes the file    *)
(* several times, is several steps. The file is replaced as a whole; a     *)
(* write fails and leaves it alone or, when the rename over it fails       *)
(* twice, removes it.                                                      *)
(*                                                                         *)
(* Abstractions. An id (of a pairing, of a device) is issued once: they    *)
(* are 64 random bits. A token is its device's id. A code is right or      *)
(* wrong. The clock does not go back. A file that cannot be read counts as *)
(* an empty one, as in LoadFromJsonFile.                                   *)
(***************************************************************************)
EXTENDS Integers, FiniteSets

CONSTANTS
    Pairings,   \* pairing ids
    Devices,    \* device ids
    HostUi,     \* the device id of the browser on the host itself
    Ttl,        \* pairing_request_ttl_ms_
    MaxTime,    \* bound: the clock
    MaxFaults   \* bound: writes of the file that fail

ASSUME PairingAssumption ==
    /\ HostUi \notin Devices
    /\ Ttl \in Int /\ MaxTime \in Nat /\ MaxFaults \in Nat

VARIABLES
    now,       \* the clock
    up,        \* is the daemon up?
    store,     \* the file: pending requests and approved devices; external: failed writes
    claims,    \* approved_claims_: the pairing and the device of each claim
    rejected,  \* the keys of rejected_claims_
    job,       \* the ApprovePairing under way, if any
    past,      \* what has happened to the pairings and the devices so far
    verdict    \* what the requester of a pairing was told last

vars == <<now, up, store, claims, rejected, job, past, verdict>>

Requests == [id : Pairings, at : 0..MaxTime]

Stores == [pending : SUBSET Requests, approved : SUBSET (Devices \cup {HostUi}),
           faults : 0..MaxFaults,
           file : {"kept", "lost"}]  \* lost: a failing write took it away

Claims == [pairing : Pairings, device : Devices]

Jobs == [pairing : Pairings, device : Devices, stage : {"stored", "undo"}]

Pasts == [pairings : SUBSET Pairings,  \* ids handed out
          made     : SUBSET Claims,    \* device ids handed out, with what for
          answered : SUBSET Devices,   \* their approval was answered with their record
          cut      : SUBSET Devices,   \* the daemon died during their approval
          revoked  : SUBSET Devices,   \* the host removed them
          received : SUBSET Devices]   \* they were given their token

Answers == {"none", "pending", "approved", "rejected", "expired"}
-------------------------------------------------------------------------------
IsExpired(r) == Ttl > 0 /\ r.at + Ttl < now

Expired == {r \in store.pending : IsExpired(r)}

Of(p) == {r \in store.pending : r.id = p}

\* WriteFileAtomically when it fails.
LostFile(n) == [pending |-> {}, approved |-> {}, faults |-> n, file |-> "lost"]

FailedWrites(s) ==
    IF s.faults < MaxFaults
    THEN {[s EXCEPT !.faults = @ + 1], LostFile(s.faults + 1)}
    ELSE {}

\* The loop of StartPairing and ApprovePairing over the expired requests: each
\* is removed with a write of its own, whose failure is ignored. Once the file is
\* lost there is nothing left to remove.
Purged ==
    {[store EXCEPT !.pending = @ \ removed, !.faults = @ + Cardinality(Expired \ removed)] :
        removed \in {r \in SUBSET Expired :
                        Cardinality(Expired \ r) <= MaxFaults - store.faults}}
    \cup {LostFile(n) : n \in {m \in 1..MaxFaults :
                                 m > store.faults /\ m - store.faults <= Cardinality(Expired)}}

\* RemovePendingPairing and RemoveApprovedPairing: done with the new content, or
\* not done, because there is nothing to remove or because the write fails.
Done(s) == [how |-> "done", store |-> s]
NotDone(s) == [how |-> "not done", store |-> s]

RemovePending(s, p) ==
    LET mine == {r \in s.pending : r.id = p}
    IN  IF mine = {} THEN {NotDone(s)}
        ELSE {Done([s EXCEPT !.pending = @ \ mine])} \cup {NotDone(f) : f \in FailedWrites(s)}

RemoveApproved(s, d) ==
    IF d \notin s.approved THEN {NotDone(s)}
    ELSE {Done([s EXCEPT !.approved = @ \ {d}])} \cup {NotDone(f) : f \in FailedWrites(s)}
-------------------------------------------------------------------------------
Init ==
    /\ now = 0
    /\ up = TRUE
    /\ store = [pending |-> {}, approved |-> {}, faults |-> 0, file |-> "kept"]
    /\ claims = {}
    /\ rejected = {}
    /\ job = {}
    /\ past = [pairings |-> {}, made |-> {}, answered |-> {}, cut |-> {},
               revoked |-> {}, received |-> {}]
    /\ verdict = [p \in Pairings |-> "none"]

\* Every route but the one at work waits for its turn on the io thread.
Idle == up /\ job = {}

\* external: time passes.
Tick ==
    /\ now < MaxTime
    /\ now' = now + 1
    /\ UNCHANGED <<up, store, claims, rejected, job, past, verdict>>

\* Mutant: the snapshot that is saved was not loaded before.
StartPairingAfresh(p) ==
    /\ Idle
    /\ p \notin past.pairings
    /\ past' = [past EXCEPT !.pairings = @ \cup {p}]
    /\ store' = [store EXCEPT !.pending = {[id |-> p, at |-> now]}, !.approved = {}]
    /\ UNCHANGED <<now, up, claims, rejected, job, verdict>>

\* POST /pairing/request.
StartPairing(p) ==
    /\ Idle
    /\ p \notin past.pairings
    /\ past' = [past EXCEPT !.pairings = @ \cup {p}]
    /\ \E s \in Purged :
          store' \in {[s EXCEPT !.pending = @ \cup {[id |-> p, at |-> now]}]} \cup FailedWrites(s)
    /\ UNCHANGED <<now, up, claims, rejected, job, verdict>>

\* POST /pairing/approve of a request that is unknown or has expired, or with
\* the wrong code.
ApproveRefused ==
    /\ Idle
    /\ store' \in Purged
    /\ UNCHANGED <<now, up, claims, rejected, job, past, verdict>>

\* POST /pairing/approve up to the write of the approved device. The request is
\* looked for in what was loaded before the expired ones were removed.
ApprovePairing(p, d) ==
    /\ Idle
    /\ Of(p) # {} /\ Of(p) \cap Expired = {}
    /\ \A c \in past.made : c.device # d
    /\ past' = [past EXCEPT !.made = @ \cup {[pairing |-> p, device |-> d]}]
    /\ \E s \in Purged :
          \/ /\ store' = [s EXCEPT !.approved = @ \cup {d}]
             /\ job' = {[pairing |-> p, device |-> d, stage |-> "stored"]}
          \/ /\ store' \in FailedWrites(s)
             /\ UNCHANGED job
    /\ UNCHANGED <<now, up, claims, rejected, verdict>>

\* Mutant: the request is left in the file.
ApproveKeepsRequest ==
    \E j \in job :
        /\ j.stage = "stored"
        /\ claims' = claims \cup {[pairing |-> j.pairing, device |-> j.device]}
        /\ rejected' = rejected \ {j.pairing}
        /\ past' = [past EXCEPT !.answered = @ \cup {j.device}]
        /\ job' = {}
        /\ UNCHANGED <<now, up, store, verdict>>

\* The rest of it: the request is removed, and the record becomes claimable and
\* is answered.
ApproveCompletes ==
    \E j \in job :
        /\ j.stage = "stored"
        /\ \E result \in RemovePending(store, j.pairing) :
              /\ store' = result.store
              /\ IF result.how = "done"
                 THEN /\ claims' = {c \in claims : c.pairing # j.pairing}
                                   \cup {[pairing |-> j.pairing, device |-> j.device]}
                      /\ rejected' = rejected \ {j.pairing}
                      /\ past' = [past EXCEPT !.answered = @ \cup {j.device}]
                      /\ job' = {}
                 ELSE /\ job' = {[j EXCEPT !.stage = "undo"]}
                      /\ UNCHANGED <<claims, rejected, past>>
        /\ UNCHANGED <<now, up, verdict>>

\* Mutant: the approved device is left in the store.
ApproveNotUndone ==
    \E j \in job :
        /\ j.stage = "undo"
        /\ job' = {}
        /\ UNCHANGED <<now, up, store, claims, rejected, past, verdict>>

\* Or it could not be removed, and the device is taken back.
ApproveUndone ==
    \E j \in job :
        /\ j.stage = "undo"
        /\ \E result \in RemoveApproved(store, j.device) : store' = result.store
        /\ job' = {}
        /\ UNCHANGED <<now, up, claims, rejected, past, verdict>>

\* Mutant: a rejection is only kept in memory.
RejectInMemory(p) ==
    /\ Idle
    /\ p \in past.pairings
    /\ claims' = {c \in claims : c.pairing # p}
    /\ rejected' = rejected \cup {p}
    /\ UNCHANGED <<now, up, store, job, past, verdict>>

\* POST /pairing/reject of an id the host has seen, also once it is approved.
RejectPairing(p) ==
    /\ Idle
    /\ p \in past.pairings
    /\ claims' = {c \in claims : c.pairing # p}
    /\ rejected' = rejected \cup {p}
    /\ \E result \in RemovePending(store, p) : store' = result.store
    /\ UNCHANGED <<now, up, job, past, verdict>>

\* GetPairingClaimStatus for the right code.
GetPairingClaimStatus(p) ==
    CASE \E c \in claims : c.pairing = p -> "approved"
      [] ~(\E c \in claims : c.pairing = p) /\ (p \in rejected \/ Of(p) = {}) -> "rejected"
      [] OTHER -> IF Of(p) \cap Expired # {} THEN "expired" ELSE "pending"

\* POST /pairing/claim by the requester. A claim is not used up.
ClaimApprovedPairing(p) ==
    /\ Idle
    /\ p \in past.pairings
    /\ verdict' = [verdict EXCEPT ![p] = GetPairingClaimStatus(p)]
    /\ past' = [past EXCEPT !.received = @ \cup {c.device : c \in {c \in claims : c.pairing = p}}]
    /\ UNCHANGED <<now, up, store, claims, rejected, job>>

\* POST /host/trusted-devices/{id}/expire and /remove. The claim stays.
RemoveTrustedDevice(d) ==
    /\ Idle
    /\ \E result \in RemoveApproved(store, d) :
          /\ store' = result.store
          /\ past' = IF result.how = "done" /\ d \in Devices THEN [past EXCEPT !.revoked = @ \cup {d}] ELSE past
    /\ UNCHANGED <<now, up, claims, rejected, job, verdict>>

\* The token of the browser on the host: made when there is none.
LocalBrowserToken ==
    /\ Idle
    /\ HostUi \notin store.approved
    /\ store' \in {[store EXCEPT !.approved = @ \cup {HostUi}]} \cup FailedWrites(store)
    /\ UNCHANGED <<now, up, claims, rejected, job, past, verdict>>

\* The daemon dies, at any point, and comes back with the file: also when it has
\* removed some of the expired requests and not yet all, or the request it
\* approves and not yet made the claim.
DaemonEnds ==
    /\ up
    /\ up' = FALSE
    /\ \E removed \in SUBSET (IF job = {} THEN Expired
                              ELSE UNION {Of(j.pairing) : j \in {k \in job : k.stage = "stored"}}) :
          store' = [store EXCEPT !.pending = @ \ removed]
    /\ claims' = {}
    /\ rejected' = {}
    /\ job' = {}
    /\ past' = [past EXCEPT !.cut = @ \cup {j.device : j \in job}]
    /\ UNCHANGED <<now, verdict>>

DaemonStarts ==
    /\ ~up
    /\ up' = TRUE
    /\ UNCHANGED <<now, store, claims, rejected, job, past, verdict>>

Next ==
    \/ Tick
    \/ \E p \in Pairings :
          \/ StartPairing(p)
          \/ \E d \in Devices : ApprovePairing(p, d)
          \/ RejectPairing(p)
          \/ ClaimApprovedPairing(p)
    \/ ApproveRefused
    \/ ApproveCompletes
    \/ ApproveUndone
    \/ \E d \in Devices \cup {HostUi} : RemoveTrustedDevice(d)
    \/ LocalBrowserToken
    \/ DaemonEnds
    \/ DaemonStarts

Spec == Init /\ [][Next]_vars
-------------------------------------------------------------------------------
\* Type invariant: the file, the claims and what is known of the past.
TypeOK ==
    /\ now \in 0..MaxTime
    /\ up \in BOOLEAN
    /\ store \in Stores
    /\ claims \in SUBSET Claims
    /\ rejected \in SUBSET Pairings
    /\ job \in SUBSET Jobs
    /\ past \in Pasts
    /\ verdict \in [Pairings -> Answers]

\* Trust lasts: a device that was given its token, or could still fetch it, is one
\* the authorizer knows, through every later pairing, removal, failed write, crash
\* and restart, until the host removes it or the file itself is lost.
TrustLasts ==
    store.file = "kept" =>
        past.received \cup {c.device : c \in claims} \subseteq store.approved \cup past.revoked

\* What the host was not told it approved is not trusted: an approval that was
\* refused leaves no device behind, although it writes the device first. One
\* failing write does not change that; a crash in the middle does.
NothingTrustedUntold ==
    store.faults <= 1 /\ job = {} =>
        store.approved \subseteq past.answered \cup past.cut \cup {HostUi}

\* A requester that was told its pairing is rejected or expired is not told later
\* that it is pending or approved, not by a daemon that was restarted either, as
\* long as writes do not fail.
VerdictIsFinal ==
    [][\A p \in Pairings :
          store'.faults = 0 /\ verdict[p] \in {"rejected", "expired"}
              => verdict'[p] \in {"rejected", "expired"}]_vars

\* A pairing leads to one trusted device at most, although its request stays in
\* the file until after the device is written: approving it again finds nothing,
\* unless a crash or a failing write cut the approval short.
OneDeviceEach ==
    store.faults = 0 =>
        \A c1, c2 \in past.made :
            c1.pairing = c2.pairing /\ {c1.device, c2.device} \subseteq store.approved \ past.cut
                => c1 = c2
===============================================================================
