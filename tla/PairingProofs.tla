----------------------------- MODULE PairingProofs ----------------------------
(***************************************************************************)
(* The invariants of Pairing, for any number of pairings, devices and      *)
(* failing writes, and any lifetime of a request.                          *)
(***************************************************************************)
EXTENDS Pairing, FiniteSetTheorems, TLAPS

PTypeOK == TypeOK /\ IsFiniteSet(store.pending)

\* Ids are issued once, and what refers to one refers to an issued one.
IdsOK ==
    /\ \A r \in store.pending : r.id \in past.pairings
    /\ \A r1, r2 \in store.pending : r1.id = r2.id => r1 = r2
    /\ \A c \in past.made : c.pairing \in past.pairings
    /\ \A c1, c2 \in past.made : c1.device = c2.device => c1 = c2
    /\ claims \subseteq past.made
    /\ rejected \subseteq past.pairings
    /\ \A d \in past.received : \E c \in past.made : c.device = d
    /\ \A d \in store.approved : d = HostUi \/ \E c \in past.made : c.device = d

\* An approval under way: it is the only one, its device is in the file and in
\* nobody's hands, and its request is there too unless a write has failed.
JobOK ==
    /\ \A j, k \in job : j = k
    /\ \A j \in job :
          /\ \E c \in past.made : c.device = j.device /\ c.pairing = j.pairing
          /\ j.device \notin past.received
          /\ \A c \in claims : c.device # j.device
          /\ store.file = "kept" => j.device \in store.approved
          /\ store.faults = 0 => j.stage = "stored" /\ Of(j.pairing) # {}

\* A device in the file is one the host was told of, or was about to be.
UntoldOK ==
    store.faults <= 1 =>
        \A d \in store.approved :
            d \in past.answered \cup past.cut \cup {HostUi} \/ \E j \in job : j.device = d

\* The request of a trusted device is gone, or its approval is still under way.
RequestGone ==
    store.faults = 0 =>
        \A c \in past.made :
            c.device \in store.approved \ past.cut
                => Of(c.pairing) = {} \/ \E j \in job : j.device = c.device

\* Behind a verdict that is final there is nothing left that could be approved.
VerdictOK ==
    store.faults = 0 =>
        /\ \A p \in rejected : Of(p) = {}
        /\ \A p \in Pairings :
              verdict[p] \in {"rejected", "expired"} =>
                  /\ p \in past.pairings
                  /\ \A c \in claims : c.pairing # p
                  /\ \A j \in job : j.pairing # p
                  /\ \A r \in Of(p) : IsExpired(r)

PInv ==
    /\ PTypeOK /\ IdsOK /\ JobOK /\ TrustLasts /\ UntoldOK
    /\ RequestGone /\ OneDeviceEach /\ VerdictOK

\* What failing writes and removals of requests make of the file.
Shrunk(s, t) ==
    /\ t \in Stores
    /\ IsFiniteSet(t.pending)
    /\ t.pending \subseteq s.pending
    /\ t.approved \subseteq s.approved
    /\ t.faults >= s.faults
    /\ t.file = "kept" => s.file = "kept" /\ t.approved = s.approved
-------------------------------------------------------------------------------
LEMMA FailedWritesShrink ==
    ASSUME NEW s \in Stores, IsFiniteSet(s.pending), NEW t \in FailedWrites(s)
    PROVE  Shrunk(s, t) /\ t.faults >= 1
<1>1. s.faults < MaxFaults /\ s.faults + 1 \in 0..MaxFaults /\ s.faults \in 0..MaxFaults
  BY PairingAssumption DEF FailedWrites, Stores
<1>2. CASE t = [s EXCEPT !.faults = @ + 1]
  <2>1. t \in Stores
    BY <1>1, <1>2 DEF Stores
  <2>2. /\ t.pending = s.pending /\ t.approved = s.approved
        /\ t.faults = s.faults + 1 /\ t.file = s.file
    BY <1>2 DEF Stores
  <2> QED
    BY <1>1, <2>1, <2>2 DEF Shrunk
<1>3. CASE t = LostFile(s.faults + 1)
  <2>1. t \in Stores
    BY <1>1, <1>3 DEF Stores, LostFile
  <2> QED
    BY <1>1, <1>3, <2>1, FS_EmptySet DEF Shrunk, LostFile
<1> QED
  BY <1>1, <1>2, <1>3 DEF FailedWrites

LEMMA PurgedShrinks ==
    ASSUME PTypeOK, NEW t \in Purged
    PROVE  /\ Shrunk(store, t)
           /\ t.faults = 0 => \A r \in store.pending : ~IsExpired(r) => r \in t.pending
<1>1. store \in Stores /\ IsFiniteSet(store.pending) /\ IsFiniteSet(Expired)
  BY FS_Subset DEF PTypeOK, TypeOK, Expired
<1>2. ASSUME NEW r \in SUBSET Expired, Cardinality(Expired \ r) <= MaxFaults - store.faults,
             t = [store EXCEPT !.pending = @ \ r, !.faults = @ + Cardinality(Expired \ r)]
      PROVE  /\ Shrunk(store, t)
             /\ \A x \in store.pending : ~IsExpired(x) => x \in t.pending
  <2>1. Cardinality(Expired \ r) \in Nat
    BY <1>1, FS_CardinalityType, FS_Subset
  <2>2. store.faults + Cardinality(Expired \ r) \in 0..MaxFaults /\ store.faults \in 0..MaxFaults
    BY <1>1, <1>2, <2>1, PairingAssumption DEF Stores
  <2>3. /\ t.pending = store.pending \ r /\ t.approved = store.approved
        /\ t.faults = store.faults + Cardinality(Expired \ r) /\ t.file = store.file
    BY <1>1, <1>2 DEF Stores
  <2>4. t \in Stores
    BY <1>1, <1>2, <2>2 DEF Stores
  <2>5. IsFiniteSet(t.pending)
    BY <1>1, <2>3, FS_Subset
  <2>6. t.faults >= store.faults
    BY <2>1, <2>2, <2>3
  <2> QED
    BY <2>3, <2>4, <2>5, <2>6 DEF Shrunk, Expired
<1>3. ASSUME NEW n \in 1..MaxFaults, n > store.faults, t = LostFile(n)
      PROVE  Shrunk(store, t) /\ t.faults # 0
  <2>1. store.faults \in 0..MaxFaults /\ n \in 0..MaxFaults /\ n # 0
    BY <1>1, <1>3, PairingAssumption DEF Stores
  <2>2. t \in Stores
    BY <1>3, <2>1 DEF Stores, LostFile
  <2> QED
    BY <1>3, <2>1, <2>2, FS_EmptySet DEF Shrunk, LostFile
<1>4. CASE \E n \in 1..MaxFaults : n > store.faults /\ t = LostFile(n)
  BY <1>3, <1>4
<1>5. CASE \E r \in {x \in SUBSET Expired : Cardinality(Expired \ x) <= MaxFaults - store.faults} :
              t = [store EXCEPT !.pending = @ \ r, !.faults = @ + Cardinality(Expired \ r)]
  <2>1. PICK r \in SUBSET Expired :
              /\ Cardinality(Expired \ r) <= MaxFaults - store.faults
              /\ t = [store EXCEPT !.pending = @ \ r, !.faults = @ + Cardinality(Expired \ r)]
    BY <1>5
  <2> QED
    BY <1>2, <2>1
<1>6. \/ t \in {[store EXCEPT !.pending = @ \ r, !.faults = @ + Cardinality(Expired \ r)] :
                  r \in {x \in SUBSET Expired : Cardinality(Expired \ x) <= MaxFaults - store.faults}}
      \/ t \in {LostFile(n) : n \in {m \in 1..MaxFaults :
                     m > store.faults /\ m - store.faults <= Cardinality(Expired)}}
  BY Zenon DEF Purged
<1> QED
  BY <1>4, <1>5, <1>6, Zenon

\* What the two removals leave, and when they say they are done.
LEMMA RemovePendingEffect ==
    ASSUME PTypeOK, NEW p, NEW result \in RemovePending(store, p)
    PROVE  /\ Shrunk(store, result.store)
           /\ result.how \in {"done", "not done"}
           /\ result.how = "done" => \A r \in result.store.pending : r.id # p
           /\ result.how # "done" => result.store.faults >= 1 \/ Of(p) = {}
           /\ result.store.faults = 0 => \A r \in result.store.pending : r.id # p
           /\ \A r \in store.pending : r.id # p /\ result.store.faults = 0 => r \in result.store.pending
<1>1. store \in Stores /\ IsFiniteSet(store.pending)
  BY DEF PTypeOK, TypeOK
<1>2. CASE Of(p) = {}
  <2>1. result = NotDone(store)
    BY <1>2 DEF RemovePending, Of
  <2>2. result.how = "not done" /\ result.store = store
    BY <2>1 DEF NotDone
  <2>3. Shrunk(store, store)
    BY <1>1 DEF Shrunk, Stores
  <2> QED
    BY <1>2, <2>2, <2>3 DEF Of
<1>3. CASE Of(p) # {} /\ result = Done([store EXCEPT !.pending = @ \ Of(p)])
  <2>1. result.how = "done" /\ result.store = [store EXCEPT !.pending = @ \ Of(p)]
    BY <1>3 DEF Done
  <2>2. /\ result.store \in Stores
        /\ result.store.pending = store.pending \ Of(p) /\ result.store.approved = store.approved
        /\ result.store.faults = store.faults /\ result.store.file = store.file
        /\ store.faults \in Int
    BY <1>1, <2>1 DEF Stores
  <2>3. IsFiniteSet(result.store.pending)
    BY <1>1, <2>2, FS_Subset
  <2> QED
    BY <2>1, <2>2, <2>3 DEF Shrunk, Of
<1>4. CASE Of(p) # {} /\ \E f \in FailedWrites(store) : result = NotDone(f)
  <2>1. PICK f \in FailedWrites(store) : result = NotDone(f)
    BY <1>4
  <2>2. result.how = "not done" /\ result.store = f
    BY <2>1 DEF NotDone
  <2>3. Shrunk(store, f) /\ f.faults >= 1
    BY <1>1, <2>1, FailedWritesShrink
  <2>4. f.faults # 0
    BY <2>3 DEF Shrunk, Stores
  <2> QED
    BY <2>2, <2>3, <2>4
<1> QED
  BY <1>2, <1>3, <1>4 DEF RemovePending, Of

LEMMA RemoveApprovedEffect ==
    ASSUME PTypeOK, NEW d, NEW result \in RemoveApproved(store, d)
    PROVE  /\ result.store \in Stores /\ IsFiniteSet(result.store.pending)
           /\ result.store.pending \subseteq store.pending
           /\ result.store.approved \subseteq store.approved
           /\ result.store.faults >= store.faults
           /\ result.how \in {"done", "not done"}
           /\ result.store.file = "kept" => store.file = "kept" /\ store.approved \ {d} \subseteq result.store.approved
           /\ result.store.file = "kept" /\ result.how # "done" => result.store.approved = store.approved
           /\ d \in result.store.approved => result.store.faults >= store.faults + 1
           /\ result.store.faults = 0 => result.store.pending = store.pending
<1>1. store \in Stores /\ IsFiniteSet(store.pending)
  BY DEF PTypeOK, TypeOK
<1>2. CASE d \notin store.approved
  <2>1. result = NotDone(store)
    BY <1>2 DEF RemoveApproved
  <2>2. result.how = "not done" /\ result.store = store
    BY <2>1 DEF NotDone
  <2>3. store.faults \in Int
    BY <1>1 DEF Stores
  <2>4. store.faults >= store.faults
    BY <2>3
  <2> QED
    BY <1>1, <1>2, <2>2, <2>4, Zenon
<1>3. CASE d \in store.approved /\ result = Done([store EXCEPT !.approved = @ \ {d}])
  <2>1. result.how = "done" /\ result.store = [store EXCEPT !.approved = @ \ {d}]
    BY <1>3 DEF Done
  <2>2. /\ result.store \in Stores
        /\ result.store.pending = store.pending /\ result.store.approved = store.approved \ {d}
        /\ result.store.faults = store.faults /\ result.store.file = store.file
        /\ store.faults \in Int
    BY <1>1, <2>1 DEF Stores
  <2> QED
    BY <1>1, <2>1, <2>2
<1>4. CASE d \in store.approved /\ \E f \in FailedWrites(store) : result = NotDone(f)
  <2>1. PICK f \in FailedWrites(store) : result = NotDone(f)
    BY <1>4
  <2>2. result.how = "not done" /\ result.store = f
    BY <2>1 DEF NotDone
  <2>3. Shrunk(store, f) /\ f.faults >= 1 /\ store.faults \in Int
    BY <1>1, <2>1, FailedWritesShrink DEF Stores
  <2>4. d \in f.approved => f.faults = store.faults + 1
    BY <1>1, <2>1 DEF FailedWrites, LostFile, Stores
  <2>5. f.faults \in Int /\ f.file \in {"kept", "lost"}
    BY <2>3 DEF Shrunk, Stores
  <2>6. f.faults # 0 /\ (d \in f.approved => f.faults >= store.faults + 1)
    BY <2>3, <2>4, <2>5
  <2>7. /\ f \in Stores /\ IsFiniteSet(f.pending) /\ f.pending \subseteq store.pending
        /\ f.approved \subseteq store.approved /\ f.faults >= store.faults
        /\ f.file = "kept" => store.file = "kept" /\ f.approved = store.approved
    BY <2>3 DEF Shrunk
  <2> QED
    BY <2>2, <2>6, <2>7, Zenon
<1> QED
  BY <1>2, <1>3, <1>4 DEF RemoveApproved
LEMMA PInvInit == Init => PInv
<1> SUFFICES ASSUME Init PROVE PInv
  OBVIOUS
<1>1. PTypeOK
  BY PairingAssumption, FS_EmptySet
     DEF Init, PTypeOK, TypeOK, Stores, Pasts, Answers
<1>2. IdsOK /\ JobOK /\ TrustLasts /\ UntoldOK /\ RequestGone /\ OneDeviceEach
  BY DEF Init, IdsOK, JobOK, TrustLasts, UntoldOK, RequestGone, OneDeviceEach
<1>3. VerdictOK
  BY DEF Init, VerdictOK
<1> QED
  BY <1>1, <1>2, <1>3 DEF PInv

\* A step that leaves everything but the clock and the daemon alone.
LEMMA FrameStep ==
    ASSUME PInv, UNCHANGED <<store, claims, rejected, job, past, verdict>>,
           up' \in BOOLEAN, now' \in 0..MaxTime, now' >= now
    PROVE  PInv'
<1>1. PTypeOK'
  BY DEF PInv, PTypeOK, TypeOK
<1>2. (IdsOK /\ JobOK /\ TrustLasts /\ UntoldOK /\ RequestGone /\ OneDeviceEach)'
  BY DEF PInv, IdsOK, JobOK, TrustLasts, UntoldOK, RequestGone, OneDeviceEach, Of
<1>3. \A r \in Requests : IsExpired(r) => IsExpired(r)'
  BY PairingAssumption DEF IsExpired, Requests, PInv, PTypeOK, TypeOK
<1>4. \A p : Of(p)' = Of(p)
  BY DEF Of
<1>5. \A p : Of(p) \subseteq Requests
  BY DEF Of, PInv, PTypeOK, TypeOK, Stores
<1>6. VerdictOK'
  BY <1>3, <1>4, <1>5 DEF PInv, VerdictOK
<1> QED
  BY <1>1, <1>2, <1>6 DEF PInv

\* A step between two approvals in which the file only shrinks, claims are at
\* most withdrawn, and whatever is rejected has no request left if writes work.
LEMMA ShrinkStep ==
    ASSUME PInv, job = {}, UNCHANGED <<now, up, job, verdict>>,
           Shrunk(store, store'),
           claims' \subseteq claims,
           rejected' \subseteq past'.pairings,
           store'.faults = 0 => \A p \in rejected' : \A r \in store'.pending : r.id # p,
           past' \in Pasts, past.pairings \subseteq past'.pairings,
           past'.made = past.made, past'.answered = past.answered, past'.cut = past.cut,
           past'.revoked = past.revoked, past'.received = past.received
    PROVE  PInv'
<1>1. PTypeOK'
  BY DEF PInv, PTypeOK, TypeOK, Shrunk, Pasts
<1>2. /\ store.faults \in Int /\ store'.faults \in Int /\ store'.faults >= store.faults
      /\ store.faults >= 0
  BY DEF PInv, PTypeOK, TypeOK, Shrunk, Stores
<1>3. (store'.faults = 0 => store.faults = 0) /\ (store'.faults <= 1 => store.faults <= 1)
  BY <1>2
<1>4. \A p : Of(p)' \subseteq Of(p)
  BY DEF Of, Shrunk
<1>5. IdsOK'
  BY DEF PInv, IdsOK, Shrunk
<1>6. JobOK'
  BY DEF JobOK
<1>7. TrustLasts'
  BY DEF PInv, TrustLasts, Shrunk
<1>8. UntoldOK'
  BY <1>3 DEF PInv, UntoldOK, Shrunk
<1>9. RequestGone' /\ OneDeviceEach'
  BY <1>3, <1>4 DEF PInv, RequestGone, OneDeviceEach, Shrunk
<1>10. VerdictOK'
  <2>1. \A r : IsExpired(r)' <=> IsExpired(r)
    BY DEF IsExpired
  <2>2. store'.faults = 0 => \A p \in rejected' : Of(p)' = {}
    BY DEF Of
  <2> QED
    BY <1>3, <1>4, <2>1, <2>2 DEF PInv, VerdictOK
<1> QED
  BY <1>1, <1>5, <1>6, <1>7, <1>8, <1>9, <1>10 DEF PInv
LEMMA TypeFacts ==
    ASSUME PInv
    PROVE  /\ store \in Stores /\ IsFiniteSet(store.pending) /\ past \in Pasts
           /\ claims \in SUBSET Claims /\ rejected \in SUBSET Pairings /\ job \in SUBSET Jobs
           /\ now \in 0..MaxTime /\ up \in BOOLEAN /\ verdict \in [Pairings -> Answers]
           /\ store.faults \in Int /\ store.faults >= 0
BY DEF PInv, PTypeOK, TypeOK, Stores

LEMMA StartPairingKeeps ==
    ASSUME PInv, NEW p \in Pairings, StartPairing(p)
    PROVE  PInv'
<1> USE TypeFacts
<1>1. /\ past' \in Pasts /\ past'.pairings = past.pairings \cup {p}
      /\ past'.made = past.made /\ past'.answered = past.answered /\ past'.cut = past.cut
      /\ past'.revoked = past.revoked /\ past'.received = past.received
  BY DEF StartPairing, Pasts
<1>2. PICK s \in Purged :
         store' \in {[s EXCEPT !.pending = @ \cup {[id |-> p, at |-> now]}]} \cup FailedWrites(s)
  BY DEF StartPairing
<1>3. Shrunk(store, s) /\ s \in Stores /\ IsFiniteSet(s.pending)
  BY <1>2, PurgedShrinks DEF PInv, Shrunk
<1>4. /\ job = {} /\ UNCHANGED <<now, up, claims, rejected, job, verdict>>
      /\ p \notin past.pairings
  BY DEF StartPairing, Idle
<1>5. CASE store' \in FailedWrites(s)
  <2>1. Shrunk(s, store') /\ store'.faults >= 1 /\ store' \in Stores
    BY <1>3, <1>5, FailedWritesShrink DEF Shrunk
  <2>2. Shrunk(store, store')
    BY <1>3, <2>1 DEF Shrunk, Stores
  <2>3. store'.faults # 0
    BY <2>1 DEF Stores
  <2>4. rejected' \subseteq past'.pairings /\ claims' \subseteq claims
    BY <1>1, <1>4 DEF PInv, IdsOK
  <2>5. past.pairings \subseteq past'.pairings
    BY <1>1
  <2> QED
    BY <1>1, <1>4, <2>2, <2>3, <2>4, <2>5, ShrinkStep, Zenon
<1>6. CASE store' = [s EXCEPT !.pending = @ \cup {[id |-> p, at |-> now]}]
  <2> DEFINE new == [id |-> p, at |-> now]
  <2>1. /\ store' \in Stores
        /\ store'.pending = s.pending \cup {new} /\ store'.approved = s.approved
        /\ store'.faults = s.faults /\ store'.file = s.file
        /\ new \in Requests /\ new.id = p
    BY <1>3, <1>6 DEF Stores, Requests
  <2>2. IsFiniteSet(store'.pending)
    <3>1. IsFiniteSet(s.pending \cup {new})
      BY <1>3, FS_AddElement, Zenon
    <3> QED
      BY <2>1, <3>1
  <2>3. PTypeOK'
    BY <1>1, <1>4, <2>1, <2>2 DEF PTypeOK, TypeOK
  <2>4. (store'.faults = 0 => store.faults = 0) /\ (store'.faults <= 1 => store.faults <= 1)
    BY <1>3, <2>1 DEF Shrunk, Stores
  <2>5. \A q : q # p => Of(q)' \subseteq Of(q)
    BY <1>3, <2>1 DEF Of, Shrunk
  <2>6. IdsOK'
    BY <1>1, <1>3, <1>4, <2>1 DEF PInv, IdsOK, Shrunk
  <2>7. JobOK'
    BY <1>4 DEF JobOK
  <2>8. TrustLasts'
    BY <1>1, <1>3, <1>4, <2>1 DEF PInv, TrustLasts, Shrunk
  <2>9. UntoldOK'
    BY <1>1, <1>3, <1>4, <2>1, <2>4 DEF PInv, UntoldOK, Shrunk
  <2>10. \A c \in past.made : c.pairing # p
    BY <1>4 DEF PInv, IdsOK
  <2>11. RequestGone' /\ OneDeviceEach'
    BY <1>1, <1>3, <1>4, <2>1, <2>4, <2>5, <2>10 DEF PInv, RequestGone, OneDeviceEach, Shrunk
  <2>12. store'.faults = 0 => \A q \in rejected' : Of(q)' = {}
    BY <1>4, <2>4, <2>5 DEF PInv, IdsOK, VerdictOK
  <2>13. \A r : IsExpired(r)' <=> IsExpired(r)
    BY <1>4 DEF IsExpired
  <2>14. VerdictOK'
    BY <1>1, <1>4, <2>4, <2>5, <2>12, <2>13 DEF PInv, VerdictOK
  <2> QED
    BY <2>3, <2>6, <2>7, <2>8, <2>9, <2>11, <2>14 DEF PInv
<1> QED
  BY <1>2, <1>5, <1>6
LEMMA ApproveRefusedKeeps ==
    ASSUME PInv, ApproveRefused
    PROVE  PInv'
<1>1. Shrunk(store, store') /\ job = {} /\ UNCHANGED <<now, up, claims, rejected, job, past, verdict>>
  BY PurgedShrinks DEF ApproveRefused, Idle, PInv
<1>2. store'.faults = 0 => store.faults = 0
  BY <1>1, TypeFacts DEF Shrunk, Stores
<1>3. store'.faults = 0 => \A p \in rejected' : \A r \in store'.pending : r.id # p
  BY <1>1, <1>2 DEF PInv, VerdictOK, Of, Shrunk
<1>4. rejected' \subseteq past'.pairings /\ past' \in Pasts
  BY <1>1, TypeFacts DEF PInv, IdsOK
<1> QED
  BY <1>1, <1>3, <1>4, ShrinkStep

LEMMA RejectPairingKeeps ==
    ASSUME PInv, NEW p \in Pairings, RejectPairing(p)
    PROVE  PInv'
<1>1. /\ job = {} /\ UNCHANGED <<now, up, job, past, verdict>>
      /\ claims' \subseteq claims /\ rejected' = rejected \cup {p} /\ p \in past.pairings
  BY DEF RejectPairing, Idle
<1>2. PICK result \in RemovePending(store, p) : store' = result.store
  BY DEF RejectPairing
<1>3. /\ Shrunk(store, store')
      /\ store'.faults = 0 => \A r \in store'.pending : r.id # p
  BY <1>2, RemovePendingEffect DEF PInv
<1>4. store'.faults = 0 => store.faults = 0
  BY <1>3, TypeFacts DEF Shrunk, Stores
<1>5. store'.faults = 0 => \A q \in rejected' : \A r \in store'.pending : r.id # q
  BY <1>1, <1>3, <1>4 DEF PInv, VerdictOK, Of, Shrunk
<1>6. rejected' \subseteq past'.pairings /\ past' \in Pasts
  BY <1>1, TypeFacts DEF PInv, IdsOK
<1> QED
  BY <1>1, <1>3, <1>5, <1>6, ShrinkStep

LEMMA LocalBrowserTokenKeeps ==
    ASSUME PInv, LocalBrowserToken
    PROVE  PInv'
<1>1. /\ job = {} /\ UNCHANGED <<now, up, claims, rejected, job, past, verdict>>
      /\ store' \in {[store EXCEPT !.approved = @ \cup {HostUi}]} \cup FailedWrites(store)
  BY DEF LocalBrowserToken, Idle
<1>2. CASE store' \in FailedWrites(store)
  <2>1. Shrunk(store, store') /\ store'.faults >= 1
    BY <1>2, TypeFacts, FailedWritesShrink
  <2>2. store'.faults # 0
    BY <2>1 DEF Shrunk, Stores
  <2>3. rejected' \subseteq past'.pairings /\ past' \in Pasts
    BY <1>1, TypeFacts DEF PInv, IdsOK
  <2> QED
    BY <1>1, <2>1, <2>2, <2>3, ShrinkStep
<1>3. CASE store' = [store EXCEPT !.approved = @ \cup {HostUi}]
  <2>1. /\ store' \in Stores
        /\ store'.pending = store.pending /\ store'.approved = store.approved \cup {HostUi}
        /\ store'.faults = store.faults /\ store'.file = store.file
    BY <1>3, TypeFacts DEF Stores
  <2>2. PTypeOK'
    BY <1>1, <2>1 DEF PInv, PTypeOK, TypeOK
  <2>3. \A q : Of(q)' = Of(q)
    BY <2>1 DEF Of
  <2>4. \A c \in past.made : c.device # HostUi
    BY TypeFacts, PairingAssumption DEF Pasts, Claims
  <2>5. IdsOK' /\ JobOK'
    BY <1>1, <2>1 DEF PInv, IdsOK, JobOK
  <2>6. TrustLasts' /\ UntoldOK'
    BY <1>1, <2>1 DEF PInv, TrustLasts, UntoldOK
  <2>7. RequestGone' /\ OneDeviceEach'
    BY <1>1, <2>1, <2>3, <2>4 DEF PInv, RequestGone, OneDeviceEach
  <2>8. \A r : IsExpired(r)' <=> IsExpired(r)
    BY <1>1 DEF IsExpired
  <2>9. VerdictOK'
    BY <1>1, <2>1, <2>3, <2>8 DEF PInv, VerdictOK
  <2> QED
    BY <2>2, <2>5, <2>6, <2>7, <2>9 DEF PInv
<1> QED
  BY <1>1, <1>2, <1>3

LEMMA DaemonEndsKeeps ==
    ASSUME PInv, DaemonEnds
    PROVE  PInv'
<1>1. /\ job' = {} /\ claims' = {} /\ rejected' = {} /\ up' = FALSE
      /\ UNCHANGED <<now, verdict>>
  BY DEF DaemonEnds
<1>10. /\ store' \in Stores /\ IsFiniteSet(store'.pending)
       /\ store'.pending \subseteq store.pending /\ store'.approved = store.approved
       /\ store'.faults = store.faults /\ store'.file = store.file
  <2>1. PICK removed : store' = [store EXCEPT !.pending = @ \ removed]
    BY DEF DaemonEnds
  <2>2. /\ store' \in Stores
        /\ store'.pending = store.pending \ removed /\ store'.approved = store.approved
        /\ store'.faults = store.faults /\ store'.file = store.file
    BY <2>1, TypeFacts DEF Stores
  <2> QED
    BY <2>2, TypeFacts, FS_Subset
<1>2. /\ past' \in Pasts /\ past'.cut = past.cut \cup {j.device : j \in job}
      /\ past'.made = past.made /\ past'.answered = past.answered
      /\ past'.pairings = past.pairings
      /\ past'.revoked = past.revoked /\ past'.received = past.received
  <2>1. {j.device : j \in job} \subseteq Devices
    BY TypeFacts DEF Jobs
  <2> QED
    BY <2>1, TypeFacts DEF DaemonEnds, Pasts
<1>3. PTypeOK'
  BY <1>1, <1>2, <1>10 DEF PInv, PTypeOK, TypeOK
<1>4. \A q : Of(q)' \subseteq Of(q)
  BY <1>10 DEF Of
<1>5. IdsOK' /\ JobOK' /\ TrustLasts'
  BY <1>1, <1>2, <1>10 DEF PInv, IdsOK, JobOK, TrustLasts
<1>6. UntoldOK'
  BY <1>1, <1>2, <1>10 DEF PInv, UntoldOK
<1>7. RequestGone' /\ OneDeviceEach'
  BY <1>1, <1>2, <1>4, <1>10 DEF PInv, RequestGone, OneDeviceEach
<1>8. \A r : IsExpired(r)' <=> IsExpired(r)
  BY <1>1 DEF IsExpired
<1>9. VerdictOK'
  BY <1>1, <1>2, <1>4, <1>8, <1>10 DEF PInv, VerdictOK
<1> QED
  BY <1>3, <1>5, <1>6, <1>7, <1>9 DEF PInv
LEMMA RemoveTrustedDeviceKeeps ==
    ASSUME PInv, NEW d \in Devices \cup {HostUi}, RemoveTrustedDevice(d)
    PROVE  PInv'
<1>1. /\ job = {} /\ UNCHANGED <<now, up, claims, rejected, job, verdict>>
  BY DEF RemoveTrustedDevice, Idle
<1>2. PICK result \in RemoveApproved(store, d) :
         /\ store' = result.store
         /\ past' = IF result.how = "done" /\ d \in Devices
                    THEN [past EXCEPT !.revoked = @ \cup {d}] ELSE past
  BY DEF RemoveTrustedDevice
<1>3. /\ store' \in Stores /\ IsFiniteSet(store'.pending)
      /\ store'.pending \subseteq store.pending
      /\ store'.approved \subseteq store.approved
      /\ store'.faults >= store.faults
      /\ store'.file = "kept" => store.file = "kept" /\ store.approved \ {d} \subseteq store'.approved
      /\ store'.file = "kept" /\ result.how # "done" => store'.approved = store.approved
  BY <1>2, RemoveApprovedEffect DEF PInv
<1>4. /\ past' \in Pasts /\ past.revoked \subseteq past'.revoked
      /\ past'.made = past.made /\ past'.answered = past.answered /\ past'.cut = past.cut
      /\ past'.pairings = past.pairings /\ past'.received = past.received
      /\ result.how = "done" /\ d \in Devices => d \in past'.revoked
  BY <1>2, TypeFacts DEF Pasts
<1>5. PTypeOK'
  BY <1>1, <1>3, <1>4 DEF PInv, PTypeOK, TypeOK
<1>6. (store'.faults = 0 => store.faults = 0) /\ (store'.faults <= 1 => store.faults <= 1)
  BY <1>3, TypeFacts DEF Stores
<1>7. \A q : Of(q)' \subseteq Of(q)
  BY <1>3 DEF Of
<1>8. IdsOK' /\ JobOK'
  BY <1>1, <1>3, <1>4 DEF PInv, IdsOK, JobOK
<1>9. TrustLasts'
  <2>1. HostUi \notin past.received \cup {c.device : c \in claims}
    BY TypeFacts, PairingAssumption DEF Pasts, Claims
  <2> QED
    BY <1>1, <1>3, <1>4, <2>1 DEF PInv, TrustLasts
<1>10. UntoldOK'
  BY <1>1, <1>3, <1>4, <1>6 DEF PInv, UntoldOK
<1>11. RequestGone' /\ OneDeviceEach'
  BY <1>1, <1>3, <1>4, <1>6, <1>7 DEF PInv, RequestGone, OneDeviceEach
<1>12. \A r : IsExpired(r)' <=> IsExpired(r)
  BY <1>1 DEF IsExpired
<1>13. VerdictOK'
  BY <1>1, <1>4, <1>6, <1>7, <1>12 DEF PInv, VerdictOK
<1> QED
  BY <1>5, <1>8, <1>9, <1>10, <1>11, <1>13 DEF PInv

\* What the requester is told when it is told that it is over.
LEMMA FinalAnswer ==
    ASSUME PInv, job = {}, NEW p \in Pairings
    PROVE  /\ GetPairingClaimStatus(p) \in Answers
           /\ GetPairingClaimStatus(p) \in {"rejected", "expired"} /\ store.faults = 0 =>
                 /\ \A c \in claims : c.pairing # p
                 /\ \A r \in Of(p) : IsExpired(r)
<1>1. CASE \E c \in claims : c.pairing = p
  BY <1>1 DEF GetPairingClaimStatus, Answers
<1>2. CASE ~(\E c \in claims : c.pairing = p) /\ (p \in rejected \/ Of(p) = {})
  BY <1>2 DEF GetPairingClaimStatus, Answers, PInv, VerdictOK
<1>3. CASE ~(\E c \in claims : c.pairing = p) /\ ~(p \in rejected \/ Of(p) = {})
  <2>1. GetPairingClaimStatus(p) = IF Of(p) \cap Expired # {} THEN "expired" ELSE "pending"
    BY <1>3 DEF GetPairingClaimStatus
  <2>2. Of(p) \cap Expired # {} => \A r \in Of(p) : IsExpired(r)
    BY DEF Of, Expired, PInv, IdsOK
  <2> QED
    BY <1>3, <2>1, <2>2 DEF Answers
<1> QED
  BY <1>1, <1>2, <1>3

LEMMA ClaimKeeps ==
    ASSUME PInv, NEW p \in Pairings, ClaimApprovedPairing(p)
    PROVE  PInv'
<1> DEFINE got == {c.device : c \in {c \in claims : c.pairing = p}}
<1>1. /\ job = {} /\ UNCHANGED <<now, up, store, claims, rejected, job>>
      /\ p \in past.pairings
      /\ verdict' = [verdict EXCEPT ![p] = GetPairingClaimStatus(p)]
  BY DEF ClaimApprovedPairing, Idle
<1>2. got \subseteq Devices /\ got \subseteq {c.device : c \in claims}
  BY TypeFacts DEF Claims
<1>3. /\ past' \in Pasts /\ past'.received = past.received \cup got
      /\ past'.made = past.made /\ past'.answered = past.answered /\ past'.cut = past.cut
      /\ past'.pairings = past.pairings /\ past'.revoked = past.revoked
  BY <1>2, TypeFacts DEF ClaimApprovedPairing, Pasts
<1>4. PTypeOK'
  BY <1>1, <1>3, TypeFacts, FinalAnswer DEF PInv, PTypeOK, TypeOK
<1>5. \A q : Of(q)' = Of(q)
  BY <1>1 DEF Of
<1>6. IdsOK'
  BY <1>1, <1>2, <1>3 DEF PInv, IdsOK
<1>7. JobOK' /\ TrustLasts'
  BY <1>1, <1>2, <1>3 DEF PInv, JobOK, TrustLasts
<1>8. UntoldOK' /\ RequestGone' /\ OneDeviceEach'
  BY <1>1, <1>3, <1>5 DEF PInv, UntoldOK, RequestGone, OneDeviceEach
<1>9. \A r : IsExpired(r)' <=> IsExpired(r)
  BY <1>1 DEF IsExpired
<1>10. VerdictOK'
  BY <1>1, <1>3, <1>5, <1>9, TypeFacts, FinalAnswer DEF PInv, VerdictOK
<1> QED
  BY <1>4, <1>6, <1>7, <1>8, <1>10 DEF PInv
LEMMA ApprovePairingKeeps ==
    ASSUME PInv, NEW p \in Pairings, NEW d \in Devices, ApprovePairing(p, d)
    PROVE  PInv'
<1> DEFINE new == [pairing |-> p, device |-> d]
<1>1. /\ job = {} /\ UNCHANGED <<now, up, claims, rejected, verdict>>
      /\ Of(p) # {} /\ Of(p) \cap Expired = {}
      /\ \A c \in past.made : c.device # d
  BY DEF ApprovePairing, Idle
<1>2. /\ past' \in Pasts /\ past'.made = past.made \cup {new}
      /\ past'.answered = past.answered /\ past'.cut = past.cut
      /\ past'.pairings = past.pairings /\ past'.revoked = past.revoked
      /\ past'.received = past.received
      /\ new \in Claims /\ new.pairing = p /\ new.device = d
  BY TypeFacts DEF ApprovePairing, Pasts, Claims
<1>3. p \in past.pairings
  BY <1>1 DEF PInv, IdsOK, Of
<1>4. d \notin past.received /\ d \notin store.approved /\ \A c \in claims : c.device # d
  BY <1>1, PairingAssumption DEF PInv, IdsOK
<1>5. PICK s \in Purged :
         \/ /\ store' = [s EXCEPT !.approved = @ \cup {d}]
            /\ job' = {[pairing |-> p, device |-> d, stage |-> "stored"]}
         \/ store' \in FailedWrites(s) /\ UNCHANGED job
  BY DEF ApprovePairing
<1>6. /\ Shrunk(store, s) /\ s \in Stores /\ IsFiniteSet(s.pending)
      /\ s.faults = 0 => \A r \in store.pending : ~IsExpired(r) => r \in s.pending
  BY <1>5, PurgedShrinks DEF PInv, Shrunk
<1>7. CASE store' \in FailedWrites(s) /\ UNCHANGED job
  <2>1. Shrunk(s, store') /\ store'.faults >= 1 /\ store' \in Stores /\ IsFiniteSet(store'.pending)
    BY <1>6, <1>7, FailedWritesShrink DEF Shrunk
  <2>2. Shrunk(store, store')
    BY <1>6, <2>1, TypeFacts DEF Shrunk, Stores
  <2>3. store'.faults # 0 /\ (store'.faults <= 1 => store.faults <= 1)
    BY <2>1, <2>2, TypeFacts DEF Stores, Shrunk
  <2>4. PTypeOK'
    BY <1>1, <1>2, <1>7, <2>1 DEF PInv, PTypeOK, TypeOK
  <2>5. IdsOK'
    BY <1>1, <1>2, <1>3, <2>2 DEF PInv, IdsOK, Shrunk
  <2>6. JobOK' /\ RequestGone' /\ OneDeviceEach' /\ VerdictOK'
    BY <1>1, <1>7, <2>3 DEF JobOK, RequestGone, OneDeviceEach, VerdictOK
  <2>7. TrustLasts' /\ UntoldOK'
    BY <1>1, <1>2, <1>7, <2>2, <2>3 DEF PInv, TrustLasts, UntoldOK, Shrunk
  <2> QED
    BY <2>4, <2>5, <2>6, <2>7 DEF PInv
<1>8. CASE /\ store' = [s EXCEPT !.approved = @ \cup {d}]
           /\ job' = {[pairing |-> p, device |-> d, stage |-> "stored"]}
  <2> DEFINE j == [pairing |-> p, device |-> d, stage |-> "stored"]
  <2>1. /\ store' \in Stores
        /\ store'.pending = s.pending /\ store'.approved = s.approved \cup {d}
        /\ store'.faults = s.faults /\ store'.file = s.file
    BY <1>6, <1>8 DEF Stores
  <2>2. job' = {j} /\ j \in Jobs /\ j.pairing = p /\ j.device = d /\ j.stage = "stored"
    BY <1>8 DEF Jobs
  <2>3. PTypeOK'
    BY <1>1, <1>2, <1>6, <2>1, <2>2 DEF PInv, PTypeOK, TypeOK
  <2>4. (store'.faults = 0 => store.faults = 0) /\ (store'.faults <= 1 => store.faults <= 1)
    BY <1>6, <2>1, TypeFacts DEF Shrunk, Stores
  <2>5. \A q : Of(q)' \subseteq Of(q)
    BY <1>6, <2>1 DEF Of, Shrunk
  <2>6. store'.faults = 0 => Of(p)' # {}
    BY <1>1, <1>6, <2>1 DEF Of, Expired
  <2>7. IdsOK'
    BY <1>1, <1>2, <1>3, <1>6, <2>1 DEF PInv, IdsOK, Shrunk
  <2>8. JobOK'
    BY <1>1, <1>2, <1>4, <2>1, <2>2, <2>6 DEF JobOK
  <2>9. TrustLasts'
    BY <1>1, <1>2, <1>6, <2>1 DEF PInv, TrustLasts, Shrunk
  <2>10. UntoldOK'
    BY <1>1, <1>2, <1>6, <2>1, <2>2, <2>4 DEF PInv, UntoldOK, Shrunk
  <2>11. RequestGone'
    BY <1>1, <1>2, <1>6, <2>1, <2>2, <2>4, <2>5 DEF PInv, RequestGone, Shrunk
  <2>12. store.faults = 0 => \A c \in past.made : c.pairing = p => c.device \notin store.approved \ past.cut
    BY <1>1 DEF PInv, RequestGone
  <2>13. OneDeviceEach'
    BY <1>1, <1>2, <1>6, <2>1, <2>4, <2>12 DEF PInv, OneDeviceEach, Shrunk
  <2>14. \A r : IsExpired(r)' <=> IsExpired(r)
    BY <1>1 DEF IsExpired
  <2>15. store.faults = 0 => verdict[p] \notin {"rejected", "expired"}
    BY <1>1 DEF PInv, VerdictOK, Expired, Of
  <2>16. VerdictOK'
    BY <1>1, <1>2, <2>2, <2>4, <2>5, <2>14, <2>15 DEF PInv, VerdictOK
  <2> QED
    BY <2>3, <2>7, <2>8, <2>9, <2>10, <2>11, <2>13, <2>16 DEF PInv
<1> QED
  BY <1>5, <1>7, <1>8

LEMMA ApproveCompletesKeeps ==
    ASSUME PInv, ApproveCompletes
    PROVE  PInv'
<1>1. PICK j \in job : /\ j.stage = "stored"
                       /\ \E result \in RemovePending(store, j.pairing) :
                             /\ store' = result.store
                             /\ IF result.how = "done"
                                THEN /\ claims' = {c \in claims : c.pairing # j.pairing}
                                                   \cup {[pairing |-> j.pairing, device |-> j.device]}
                                     /\ rejected' = rejected \ {j.pairing}
                                     /\ past' = [past EXCEPT !.answered = @ \cup {j.device}]
                                     /\ job' = {}
                                ELSE /\ job' = {[j EXCEPT !.stage = "undo"]}
                                     /\ UNCHANGED <<claims, rejected, past>>
                       /\ UNCHANGED <<now, up, verdict>>
  BY DEF ApproveCompletes
<1>2. PICK result \in RemovePending(store, j.pairing) :
         /\ store' = result.store
         /\ IF result.how = "done"
            THEN /\ claims' = {c \in claims : c.pairing # j.pairing}
                               \cup {[pairing |-> j.pairing, device |-> j.device]}
                 /\ rejected' = rejected \ {j.pairing}
                 /\ past' = [past EXCEPT !.answered = @ \cup {j.device}]
                 /\ job' = {}
            ELSE /\ job' = {[j EXCEPT !.stage = "undo"]}
                 /\ UNCHANGED <<claims, rejected, past>>
  BY <1>1
<1>3. /\ Shrunk(store, store')
      /\ result.how = "done" => \A r \in store'.pending : r.id # j.pairing
      /\ result.how # "done" => store'.faults >= 1 \/ Of(j.pairing) = {}
  BY <1>2, RemovePendingEffect DEF PInv
<1>4. /\ j \in Jobs /\ job = {j} /\ j.pairing \in Pairings /\ j.device \in Devices
  BY TypeFacts DEF PInv, JobOK, Jobs
<1>5. /\ store' \in Stores /\ IsFiniteSet(store'.pending)
      /\ store'.faults = 0 => store.faults = 0
      /\ store'.faults <= 1 => store.faults <= 1
      /\ store'.faults >= 1 => store'.faults # 0
  BY <1>3, TypeFacts DEF Shrunk, Stores
<1>6. \A q : Of(q)' \subseteq Of(q)
  BY <1>3 DEF Of, Shrunk
<1>7. \A r : IsExpired(r)' <=> IsExpired(r)
  BY <1>1 DEF IsExpired
<1>8. CASE result.how # "done"
  <2> DEFINE k == [j EXCEPT !.stage = "undo"]
  <2>1. /\ job' = {k} /\ k \in Jobs /\ k.pairing = j.pairing /\ k.device = j.device
        /\ UNCHANGED <<now, up, claims, rejected, past, verdict>>
    BY <1>1, <1>2, <1>4, <1>8 DEF Jobs
  <2>2. store'.faults # 0
    BY <1>3, <1>4, <1>5, <1>8 DEF PInv, JobOK
  <2>3. PTypeOK'
    BY <1>5, <2>1 DEF PInv, PTypeOK, TypeOK
  <2>4. IdsOK'
    BY <1>3, <2>1 DEF PInv, IdsOK, Shrunk
  <2>5. JobOK'
    BY <1>3, <1>4, <2>1, <2>2 DEF PInv, JobOK, Shrunk
  <2>6. TrustLasts'
    BY <1>3, <2>1 DEF PInv, TrustLasts, Shrunk
  <2>7. UntoldOK'
    BY <1>3, <1>4, <1>5, <2>1 DEF PInv, UntoldOK, Shrunk
  <2>8. RequestGone' /\ OneDeviceEach' /\ VerdictOK'
    BY <2>2 DEF RequestGone, OneDeviceEach, VerdictOK
  <2> QED
    BY <2>3, <2>4, <2>5, <2>6, <2>7, <2>8 DEF PInv
<1>9. CASE result.how = "done"
  <2> DEFINE new == [pairing |-> j.pairing, device |-> j.device]
  <2>1. /\ claims' = {c \in claims : c.pairing # j.pairing} \cup {new}
        /\ rejected' = rejected \ {j.pairing} /\ job' = {}
        /\ UNCHANGED <<now, up, verdict>>
    BY <1>1, <1>2, <1>9
  <2>2. /\ past' \in Pasts /\ past'.answered = past.answered \cup {j.device}
        /\ past'.made = past.made /\ past'.cut = past.cut
        /\ past'.pairings = past.pairings /\ past'.revoked = past.revoked
        /\ past'.received = past.received
    BY <1>2, <1>4, <1>9, TypeFacts DEF Pasts
  <2>3. new \in Claims /\ new.pairing = j.pairing /\ new.device = j.device
    BY <1>4 DEF Claims
  <2>4. new \in past.made
    <3>1. PICK c \in past.made : c.device = j.device /\ c.pairing = j.pairing
      BY <1>4 DEF PInv, JobOK
    <3>2. c \in Claims
      BY TypeFacts DEF Pasts
    <3> QED
      BY <3>1, <3>2 DEF Claims
  <2>5. PTypeOK'
    BY <1>5, <2>1, <2>2, <2>3, TypeFacts DEF PTypeOK, TypeOK
  <2>6. IdsOK'
    BY <1>3, <2>1, <2>2, <2>4 DEF PInv, IdsOK, Shrunk
  <2>7. JobOK'
    BY <2>1 DEF JobOK
  <2>8. TrustLasts'
    BY <1>3, <1>4, <2>1, <2>2, <2>3 DEF PInv, TrustLasts, JobOK, Shrunk
  <2>9. UntoldOK'
    BY <1>3, <1>4, <1>5, <2>1, <2>2 DEF PInv, UntoldOK, Shrunk
  <2>10. Of(j.pairing)' = {}
    BY <1>3, <1>9 DEF Of
  <2>11. RequestGone'
    BY <1>3, <1>4, <1>5, <1>6, <2>1, <2>2, <2>3, <2>4, <2>10
       DEF PInv, IdsOK, RequestGone, Shrunk
  <2>12. OneDeviceEach'
    BY <1>3, <1>5, <2>2 DEF PInv, OneDeviceEach, Shrunk
  <2>13. VerdictOK'
    BY <1>4, <1>5, <1>6, <1>7, <2>1, <2>2, <2>3 DEF PInv, VerdictOK
  <2> QED
    BY <2>5, <2>6, <2>7, <2>8, <2>9, <2>11, <2>12, <2>13 DEF PInv
<1> QED
  BY <1>8, <1>9

LEMMA ApproveUndoneKeeps ==
    ASSUME PInv, ApproveUndone
    PROVE  PInv'
<1>1. PICK j \in job : /\ j.stage = "undo"
                       /\ \E result \in RemoveApproved(store, j.device) : store' = result.store
                       /\ job' = {}
                       /\ UNCHANGED <<now, up, claims, rejected, past, verdict>>
  BY DEF ApproveUndone
<1>2. PICK result \in RemoveApproved(store, j.device) : store' = result.store
  BY <1>1
<1>3. /\ store' \in Stores /\ IsFiniteSet(store'.pending)
      /\ store'.pending \subseteq store.pending
      /\ store'.approved \subseteq store.approved
      /\ store'.faults >= store.faults
      /\ store'.file = "kept" =>
            store.file = "kept" /\ store.approved \ {j.device} \subseteq store'.approved
      /\ j.device \in store'.approved => store'.faults >= store.faults + 1
  BY <1>2, RemoveApprovedEffect DEF PInv
<1>4. job = {j} /\ store.faults # 0
  BY <1>1 DEF PInv, JobOK
<1>5. /\ store'.faults # 0
      /\ store'.faults <= 1 => store.faults <= 1 /\ j.device \notin store'.approved
  BY <1>3, <1>4, TypeFacts DEF Stores
<1>6. PTypeOK'
  BY <1>1, <1>3 DEF PInv, PTypeOK, TypeOK
<1>7. IdsOK' /\ JobOK'
  BY <1>1, <1>3 DEF PInv, IdsOK, JobOK
<1>8. TrustLasts'
  BY <1>1, <1>3 DEF PInv, TrustLasts, JobOK
<1>9. UntoldOK'
  BY <1>1, <1>3, <1>4, <1>5 DEF PInv, UntoldOK
<1>10. RequestGone' /\ OneDeviceEach' /\ VerdictOK'
  BY <1>5 DEF RequestGone, OneDeviceEach, VerdictOK
<1> QED
  BY <1>6, <1>7, <1>8, <1>9, <1>10 DEF PInv
-------------------------------------------------------------------------------
LEMMA PInvNext == PInv /\ [Next]_vars => PInv'
<1> SUFFICES ASSUME PInv, [Next]_vars PROVE PInv'
  OBVIOUS
<1>1. CASE UNCHANGED vars
  <2>1. /\ UNCHANGED <<store, claims, rejected, job, past, verdict>>
        /\ up' \in BOOLEAN /\ now' \in 0..MaxTime /\ now' >= now
    BY <1>1, TypeFacts DEF vars
  <2> QED
    BY <2>1, FrameStep
<1>2. CASE Tick \/ DaemonStarts
  <2>1. /\ UNCHANGED <<store, claims, rejected, job, past, verdict>>
        /\ up' \in BOOLEAN /\ now' \in 0..MaxTime /\ now' >= now
    <3>1. CASE Tick
      <4>1. now' \in 0..MaxTime /\ now' >= now
        BY <3>1, TypeFacts, PairingAssumption DEF Tick
      <4> QED
        BY <3>1, <4>1, TypeFacts DEF Tick
    <3>2. CASE DaemonStarts
      <4>1. now' \in 0..MaxTime /\ now' >= now
        BY <3>2, TypeFacts, PairingAssumption DEF DaemonStarts
      <4> QED
        BY <3>2, <4>1 DEF DaemonStarts
    <3> QED
      BY <1>2, <3>1, <3>2
  <2> QED
    BY <2>1, FrameStep
<1>3. ASSUME NEW p \in Pairings,
             \/ StartPairing(p)
             \/ \E d \in Devices : ApprovePairing(p, d)
             \/ RejectPairing(p)
             \/ ClaimApprovedPairing(p)
      PROVE  PInv'
  BY <1>3, StartPairingKeeps, ApprovePairingKeeps, RejectPairingKeeps, ClaimKeeps
<1>4. CASE ApproveRefused \/ ApproveCompletes \/ ApproveUndone \/ LocalBrowserToken \/ DaemonEnds
  BY <1>4, ApproveRefusedKeeps, ApproveCompletesKeeps, ApproveUndoneKeeps,
     LocalBrowserTokenKeeps, DaemonEndsKeeps
<1>5. ASSUME NEW d \in Devices \cup {HostUi}, RemoveTrustedDevice(d)
      PROVE  PInv'
  BY <1>5, RemoveTrustedDeviceKeeps
<1> QED
  BY <1>1, <1>2, <1>3, <1>4, <1>5 DEF Next

\* The inductive invariant.
THEOREM PairingInvariant == Spec => []PInv
BY PInvInit, PInvNext, PTL DEF Spec

\* DefaultPairingService, its routes and its file keep their types.
THEOREM PairingTypes == Spec => []TypeOK
<1>1. PInv => TypeOK
  BY DEF PInv, PTypeOK
<1> QED
  BY <1>1, PairingInvariant, PTL

\* A device with a token, or one it can still fetch, is known to the authorizer
\* until the host removes it, whatever is paired, removed, or cut short by a
\* crash meanwhile.
THEOREM TrustIsSafe == Spec => []TrustLasts
<1>1. PInv => TrustLasts
  BY DEF PInv
<1> QED
  BY <1>1, PairingInvariant, PTL

\* ApprovePairing takes back what it wrote when it cannot finish: one failing
\* write never leaves a trusted device the host was not told of.
THEOREM UntoldIsSafe == Spec => []NothingTrustedUntold
<1>1. PInv => NothingTrustedUntold
  BY DEF PInv, UntoldOK, NothingTrustedUntold
<1> QED
  BY <1>1, PairingInvariant, PTL

\* ApprovePairing cannot turn one request into two trusted devices.
THEOREM OneDeviceIsSafe == Spec => []OneDeviceEach
<1>1. PInv => OneDeviceEach
  BY DEF PInv
<1> QED
  BY <1>1, PairingInvariant, PTL

\* GetPairingClaimStatus does not go back on a rejection or an expiry.
THEOREM VerdictIsSafe == Spec => VerdictIsFinal
<1>1. ASSUME PInv, PInv', [Next]_vars, NEW p \in Pairings,
             store'.faults = 0, verdict[p] \in {"rejected", "expired"}
      PROVE  verdict'[p] \in {"rejected", "expired"}
  <2>1. CASE verdict' = verdict
    BY <1>1, <2>1
  <2>2. ASSUME NEW q \in Pairings, ClaimApprovedPairing(q)
        PROVE  verdict'[p] \in {"rejected", "expired"}
    <3>1. /\ verdict' = [verdict EXCEPT ![q] = GetPairingClaimStatus(q)] /\ store' = store
          /\ verdict \in [Pairings -> Answers]
      BY <1>1, <2>2, TypeFacts DEF ClaimApprovedPairing
    <3>2. /\ \A c \in claims : c.pairing # p
          /\ \A r \in Of(p) : IsExpired(r)
      BY <1>1, <3>1 DEF PInv, VerdictOK
    <3>3. CASE p \in rejected \/ Of(p) = {}
      BY <1>1, <3>1, <3>2, <3>3 DEF GetPairingClaimStatus
    <3>4. CASE ~(p \in rejected \/ Of(p) = {})
      <4>1. Of(p) \cap Expired # {}
        BY <3>2, <3>4 DEF Of, Expired
      <4>2. GetPairingClaimStatus(p) = "expired"
        BY <3>2, <3>4, <4>1 DEF GetPairingClaimStatus
      <4> QED
        BY <1>1, <3>1, <4>2
    <3> QED
      BY <3>3, <3>4
  <2> QED
    BY <1>1, <2>1, <2>2
       DEF Next, vars, Tick, StartPairing, ApproveRefused, ApprovePairing, ApproveCompletes,
           ApproveUndone, RejectPairing, RemoveTrustedDevice, LocalBrowserToken, DaemonEnds,
           DaemonStarts
<1>2. PInv /\ PInv' /\ [Next]_vars =>
         [\A p \in Pairings :
             store'.faults = 0 /\ verdict[p] \in {"rejected", "expired"}
                 => verdict'[p] \in {"rejected", "expired"}]_vars
  BY <1>1
<1> QED
  BY <1>2, PairingInvariant, PTL DEF Spec, VerdictIsFinal
===============================================================================
