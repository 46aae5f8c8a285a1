-------------------------- MODULE StreamDeliveryProofs --------------------------
(***************************************************************************)
(* Proofs about StreamDelivery, for any number of observers, any capacity  *)
(* of the output buffer and any sizes of reads and tails: the books of the *)
(* stream are kept (StreamBooks), and what is queued for a connection is   *)
(* the stream in order (InOrder).                                          *)
(***************************************************************************)
EXTENDS StreamDelivery, FiniteSetTheorems, SequenceTheorems, TLAPS

\* The output buffer cs after t bytes, with s as its next sequence. That it is an
\* unbroken run is stated from its end, where the next chunk goes.
Chunk == [seq : Nat, first : Nat, last : Nat]

RunOK(cs, t, s) ==
    /\ cs \in Seq(Chunk)
    /\ t \in Nat /\ s \in 1..t + 1
    /\ t > 0 => cs # <<>> /\ cs[Len(cs)].last = t
    /\ t = 0 => cs = <<>> /\ s = 1
    /\ \A i \in 1..Len(cs) :
          /\ 1 <= cs[i].first /\ cs[i].first <= cs[i].last /\ cs[i].last <= t
          /\ 1 <= cs[i].seq /\ cs[i].seq = s - 1 - Len(cs) + i
          /\ i < Len(cs) => cs[i + 1].first = cs[i].last + 1

\* The frames in a queue: those with output carry rising, disjoint pieces of the
\* stream that lie beyond what the client has got.
QueueOK(cn) ==
    /\ \A i \in 1..Len(cn.pending) :
          LET frame == cn.pending[i]
          IN  /\ frame.next <= cn.reserved
              /\ frame.kind = "output" => cn.got < frame.first /\ frame.first <= frame.last
              /\ frame.kind # "output" => frame.first = 1 /\ frame.last = 0
    /\ \A i, j \in 1..Len(cn.pending) :
          i < j /\ cn.pending[i].kind = "output" /\ cn.pending[j].kind = "output" =>
              cn.pending[i].last < cn.pending[j].first

\* The last byte queued for a connection.
IsLast(cn, b) ==
    /\ b = cn.got \/ \E i \in 1..Len(cn.pending) : b = cn.pending[i].last
    /\ cn.got <= b
    /\ \A i \in 1..Len(cn.pending) : cn.pending[i].last <= b

\* A connection is at byte b of the stream: that is where the chunk before the
\* reserved sequence ends, and the chunks from that sequence on lie beyond it.
IsAt(cn, cs, b) ==
    \A k \in 1..Len(cs) :
        /\ cs[k].seq >= cn.reserved => b < cs[k].first
        /\ cs[k].seq = cn.reserved - 1 => b = cs[k].last

\* The sequence window of an observer.
Window(cn) ==
    /\ \A i \in 1..Len(cn.pending) : cn.delivered <= cn.pending[i].next
    /\ \A i, j \in 1..Len(cn.pending) : i <= j => cn.pending[i].next <= cn.pending[j].next
    /\ IF cn.pending = <<>> THEN cn.delivered = cn.reserved
       ELSE cn.pending[Len(cn.pending)].next = cn.reserved

StreamOK(cn, cs, t, s) ==
    /\ cn.reserved <= s
    /\ QueueOK(cn)
    /\ \E b \in 0..t : IsLast(cn, b) /\ IsAt(cn, cs, b)

ConnOK(c) ==
    /\ conn[c].phase = "idle" => conn[c] = NewConn
    /\ Open(c) => StreamOK(conn[c], chunks, taken, nextSeq)
    /\ Open(c) /\ c \in Viewers => Window(conn[c])

\* The remote controller's wait, and its turn on the io thread, last as long as its connection.
DriverWaits == "driver" \in armed \cup ready \/ io.by = "driver" => Open(Driver)

Inv ==
    /\ TypeOK
    /\ DriverWaits
    /\ RunOK(chunks, taken, nextSeq)
    /\ SizeBytes(chunks) <= Capacity
    /\ \A c \in Clients : ConnOK(c)
-------------------------------------------------------------------------------
LEMMA Predecessor ==
    ASSUME NEW n \in Nat, NEW i \in 1..n, i # 1
    PROVE  i - 1 \in 1..n /\ (i - 1) + 1 = i /\ i - 1 <= i
  OBVIOUS

LEMMA MaxIs == ASSUME NEW S \in SUBSET Int, NEW m \in S, \A y \in S : y <= m PROVE Max(S) = m
<1>1. \A y \in S : m >= y
  OBVIOUS
<1>2. Max(S) \in S /\ \A y \in S : Max(S) >= y
  BY <1>1, Zenon DEF Max
<1>3. Max(S) \in Int /\ m \in Int /\ Max(S) >= m /\ m >= Max(S)
  BY <1>1, <1>2
<1> QED
  BY <1>3

LEMMA MinIs == ASSUME NEW S \in SUBSET Int, NEW m \in S, \A y \in S : m <= y PROVE Min(S) = m
<1>2. Min(S) \in S /\ \A y \in S : Min(S) <= y
  BY Zenon DEF Min
<1>3. Min(S) \in Int /\ m \in Int /\ Min(S) <= m /\ m <= Min(S)
  BY <1>2
<1> QED
  BY <1>3

\* The size of the buffer is a number as long as its bytes are numbers up to some bound.
LEMMA SizeFinite ==
    ASSUME NEW cs \in Seq(Chunk), NEW t \in Nat, \A i \in 1..Len(cs) : cs[i].last <= t
    PROVE  /\ IsFiniteSet(UNION {Bytes(cs[i]) : i \in DOMAIN cs})
           /\ SizeBytes(cs) \in Nat
<1> DEFINE held == UNION {Bytes(cs[i]) : i \in DOMAIN cs}
<1>1. ASSUME NEW b \in held PROVE b \in 0..t
  <2>1. PICK i \in 1..Len(cs) : b \in cs[i].first..cs[i].last
    BY DEF Bytes
  <2>2. cs[i] \in Chunk
    OBVIOUS
  <2>3. cs[i].first \in Nat /\ cs[i].last \in Nat
    BY <2>2 DEF Chunk
  <2>4. cs[i].last <= t
    OBVIOUS
  <2> QED
    BY <2>1, <2>3, <2>4
<1>2. IsFiniteSet(held)
  <2>1. IsFiniteSet(0..t)
    BY FS_Interval
  <2>2. held \in SUBSET (0..t)
    BY <1>1
  <2> QED
    BY <2>1, <2>2, FS_Subset
<1> QED
  BY <1>2, FS_CardinalityType DEF SizeBytes

\* Append keeps the buffer an unbroken run within its capacity, also when it had to cut
\* the new chunk: then nothing else is left. Every chunk is an old one or the new one.
LEMMA AppendKeeps ==
    ASSUME NEW cs, NEW t, NEW s, RunOK(cs, t, s), NEW n \in Nat \ {0},
           NEW cut, cut = (IF n > Capacity THEN n - Capacity ELSE 0),
           NEW c \in Chunk, c.seq = s, c.first = t + 1 + cut, c.last = t + n,
           NEW a \in Seq(Chunk), Len(a) = Len(cs) + 1, a[Len(cs) + 1] = c,
           \A i \in 1..Len(cs) : a[i] = cs[i],
           NEW r \in EvictIfNeeded(a)
    PROVE  /\ RunOK(r, t + n, s + 1)
           /\ SizeBytes(r) <= Capacity
           /\ \A k \in 1..Len(r) : (\E i \in 1..Len(cs) : r[k] = cs[i]) \/ (r[k].seq = s /\ t < r[k].first)
<1>0. /\ Capacity \in Nat \ {0} /\ t \in Nat /\ s \in Nat /\ cs \in Seq(Chunk) /\ Len(cs) \in Nat
      /\ 1 <= s
  BY StreamAssumption DEF RunOK
<1>N. PICK N \in Nat : N = Len(cs) + 1
  BY <1>0
<1>1. /\ cut \in Nat /\ cut < n /\ c.last - c.first + 1 <= Capacity
      /\ cut > 0 => c.last - c.first + 1 = Capacity
      /\ c.first \in Nat /\ c.last \in Nat /\ c.first <= c.last
  BY <1>0, SMTT(60) DEF Chunk
<1>R. ASSUME NEW j \in 1..Len(cs)
      PROVE  /\ cs[j].first \in Nat /\ cs[j].last \in Nat /\ cs[j].seq \in Nat
             /\ 1 <= cs[j].first /\ cs[j].first <= cs[j].last /\ cs[j].last <= t
             /\ 1 <= cs[j].seq /\ cs[j].seq = s - 1 - Len(cs) + j
             /\ j < Len(cs) => cs[j + 1].first = cs[j].last + 1
  <2>1. cs[j] \in Chunk
    BY <1>0
  <2> QED
    BY <2>1 DEF RunOK, Chunk
<1>2. Len(a) = N /\ a[N] = c
  BY <1>N
<1>3. PICK i \in 1..N + 1 :
        /\ r = SubSeq(a, i, N)
        /\ SizeBytes(r) <= Capacity
        /\ \A j \in 1..i - 1 : ~(SizeBytes(SubSeq(a, j, N)) <= Capacity)
  BY <1>2, Zenon DEF EvictIfNeeded
<1>4. i \in 1..N
  <2>1. SUFFICES ASSUME i = N + 1 PROVE FALSE
    BY <1>0, <1>N
  <2> DEFINE one == SubSeq(a, N, N)
  <2>2. one \in Seq(Chunk) /\ Len(one) = 1 /\ one[1] = c
    BY <1>0, <1>N, <1>1, <1>2
  <2>3. UNION {Bytes(one[k]) : k \in DOMAIN one} = c.first..c.last
    <3>1. {Bytes(one[k]) : k \in DOMAIN one} = {c.first..c.last}
      <4>1. DOMAIN one = {1}
        BY <2>2
      <4> QED
        BY <2>2, <4>1 DEF Bytes
    <3> QED
      BY <3>1
  <2>4. SizeBytes(one) <= Capacity
    <3>1. SizeBytes(one) = Cardinality(c.first..c.last)
      BY <2>3 DEF SizeBytes
    <3>2. Cardinality(c.first..c.last) = c.last - c.first + 1
      <4>1. c.first \in Int /\ c.last \in Int
        BY <1>1
      <4> QED
        BY <4>1, <1>1, FS_Interval, SMTT(60)
    <3> QED
      BY <3>1, <3>2, <1>1
  <2> QED
    BY <2>1, <2>4, <1>3, <1>0, <1>N
<1>5. /\ r \in Seq(Chunk) /\ Len(r) = N - i + 1
      /\ \A k \in 1..N - i + 1 : r[k] = a[i + k - 1]
  <2>1. \A j \in i..N : a[j] \in Chunk
    BY <1>0, <1>N, <1>2, <1>4
  <2>2. i \in Int /\ N \in Int /\ i <= N
    BY <1>N, <1>4
  <2>3. /\ SubSeq(a, i, N) \in Seq(Chunk)
        /\ Len(SubSeq(a, i, N)) = N - i + 1
        /\ \A k \in 1..N - i + 1 : SubSeq(a, i, N)[k] = a[i + k - 1]
    BY <2>1, <2>2, SubSeqProperties
  <2> QED
    BY <2>3, <1>3
<1>L. Len(r) \in Nat /\ Len(r) \in 1..Len(r)
  BY <1>N, <1>4, <1>5, SMTT(60)
<1>6. ASSUME NEW k \in 1..Len(r)
      PROVE  /\ r[k] \in Chunk
             /\ k < Len(r) => i + k - 1 \in 1..Len(cs) /\ r[k] = cs[i + k - 1]
             /\ k = Len(r) => r[k] = c
  <2>1. r[k] \in Chunk /\ r[k] = a[i + k - 1]
    BY <1>5
  <2>2. k < Len(r) => i + k - 1 \in 1..Len(cs)
    BY <1>0, <1>N, <1>4, <1>5
  <2>3. k = Len(r) => i + k - 1 = N
    BY <1>0, <1>N, <1>4, <1>5
  <2> QED
    BY <2>1, <2>2, <2>3, <1>2
<1>7. cut > 0 => i = N
  <2>1. SUFFICES ASSUME cut > 0, i < N PROVE FALSE
    BY <1>4, <1>0, <1>N
  <2> DEFINE held == UNION {Bytes(r[j]) : j \in DOMAIN r}
  <2>k. PICK k \in 1..Len(r) : k = N - i
    <3>1. N - i \in 1..N - i + 1
      BY <1>0, <1>N, <1>4, <2>1
    <3> QED
      BY <3>1, <1>5
  <2>2. k \in 1..Len(r) /\ k + 1 \in 1..Len(r) /\ r[k] = cs[Len(cs)] /\ r[k + 1] = c
    <3>1. k < Len(r) /\ k + 1 = Len(r) /\ k + 1 \in 1..Len(r)
      BY <1>0, <1>N, <1>4, <1>5, <2>k, SMTT(60)
    <3>2. i + k - 1 = Len(cs)
      BY <1>N, <2>k, <1>0, <1>4
    <3> QED
      BY <3>1, <3>2, <1>6
  <2>3. t > 0 /\ cs[Len(cs)].last = t /\ cs[Len(cs)].first <= t /\ cs[Len(cs)] \in Chunk
    BY <1>0, <1>N, <1>4, <2>1, SMTT(60) DEF RunOK
  <2>4. (c.first..c.last) \cup {t} \subseteq held
    <3>1. DOMAIN r = 1..Len(r)
      BY <1>5
    <3>2. t \in Bytes(r[k])
      BY <2>2, <2>3, <1>0 DEF Bytes, Chunk
    <3>3. Bytes(r[k + 1]) = c.first..c.last
      BY <2>2 DEF Bytes
    <3> QED
      BY <2>2, <3>1, <3>2, <3>3
  <2>5. /\ IsFiniteSet((c.first..c.last) \cup {t})
        /\ Cardinality((c.first..c.last) \cup {t}) = Capacity + 1
    <3>1. IsFiniteSet(c.first..c.last) /\ Cardinality(c.first..c.last) = Capacity
      BY <1>0, <1>N, <1>1, <2>1, FS_Interval
    <3>2. t \notin c.first..c.last
      BY <1>0, <1>N, <1>1, SMTT(60)
    <3> QED
      BY <3>1, <3>2, FS_AddElement
  <2>6. \A j \in 1..Len(r) : r[j].last <= t + n
    <3> SUFFICES ASSUME NEW j \in 1..Len(r) PROVE r[j].last <= t + n
      OBVIOUS
    <3>1. CASE j < Len(r)
      <4>1. i + j - 1 \in 1..Len(cs) /\ r[j] = cs[i + j - 1]
        BY <3>1, <1>6
      <4>2. r[j].last \in Nat /\ r[j].last <= t
        BY <4>1, <1>R
      <4> QED
        BY <4>2, <1>0, SMTT(60)
    <3>2. CASE j = Len(r)
      <4>1. r[j] = c
        BY <3>2, <1>6
      <4> QED
        BY <4>1, <1>0
    <3> QED
      BY <3>1, <3>2, <1>5
  <2>7. IsFiniteSet(held) /\ SizeBytes(r) = Cardinality(held) /\ Cardinality(held) \in Nat
    <3>1. t + n \in Nat /\ r \in Seq(Chunk)
      BY <1>0, <1>5
    <3>2. IsFiniteSet(held) /\ SizeBytes(r) \in Nat
      BY <3>1, <2>6, SizeFinite
    <3> QED
      BY <3>2 DEF SizeBytes
  <2>8. Cardinality((c.first..c.last) \cup {t}) <= Cardinality(held)
    BY <2>4, <2>7, FS_Subset
  <2> QED
    <3>1. Capacity + 1 <= SizeBytes(r) /\ SizeBytes(r) <= Capacity /\ SizeBytes(r) \in Nat
      BY <2>5, <2>7, <2>8, <1>3
    <3> QED
      BY <3>1, <1>0
<1>8. ASSUME NEW k \in 1..Len(r)
      PROVE  /\ 1 <= r[k].first /\ r[k].first <= r[k].last /\ r[k].last <= t + n
             /\ 1 <= r[k].seq /\ r[k].seq = s + 1 - 1 - Len(r) + k
  <2>1. CASE k < Len(r)
    <3>1. i + k - 1 \in 1..Len(cs) /\ r[k] = cs[i + k - 1]
      BY <2>1, <1>6
    <3>2. s - 1 - Len(cs) + (i + k - 1) = s + 1 - 1 - Len(r) + k
      BY <1>0, <1>N, <1>4, <1>5
    <3>3. /\ r[k].first \in Nat /\ r[k].last \in Nat /\ 1 <= r[k].first
          /\ r[k].first <= r[k].last /\ r[k].last <= t /\ 1 <= r[k].seq
      BY <3>1, <1>R
    <3>4. r[k].seq = s - 1 - Len(cs) + (i + k - 1)
      BY <3>1, <1>R
    <3>5. r[k].last <= t + n
      BY <3>3, <1>0, SMTT(60)
    <3>6. r[k].seq = s + 1 - 1 - Len(r) + k
      BY <3>2, <3>4, ZenonT(60)
    <3> QED
      BY <3>3, <3>5, <3>6, ZenonT(60)
  <2>2. CASE k = Len(r)
    <3>1. r[k] = c /\ s = s + 1 - 1 - Len(r) + k
      BY <2>2, <1>0, <1>N, <1>4, <1>5, <1>6, SMTT(60)
    <3> QED
      BY <3>1, <1>0, <1>1
  <2> QED
    BY <2>1, <2>2, <1>0, <1>N, <1>4, <1>5, SMTT(60)
<1>9. ASSUME NEW k \in 1..Len(r), k < Len(r) PROVE r[k + 1].first = r[k].last + 1
  <2>1. cut = 0
    BY <1>9, <1>7, <1>5, <1>4, <1>0, <1>N, <1>1
  <2>2. CASE k + 1 < Len(r)
    <3>1. k + 1 \in 1..Len(r)
      BY <1>9, <1>5, <1>0, <1>N, <1>4, SMTT(60)
    <3>2. /\ i + k - 1 \in 1..Len(cs) /\ r[k] = cs[i + k - 1]
          /\ i + (k + 1) - 1 \in 1..Len(cs) /\ r[k + 1] = cs[i + (k + 1) - 1]
      BY <3>1, <2>2, <1>9, <1>6
    <3>3. i + (k + 1) - 1 = (i + k - 1) + 1 /\ i + k - 1 < Len(cs)
      BY <3>2, <1>4, <1>5, <1>0, <1>N
    <3> QED
      BY <3>2, <3>3, <1>R
  <2>3. CASE k + 1 = Len(r)
    <3>1. r[k + 1] = c /\ r[k] = cs[Len(cs)] /\ Len(cs) > 0
      <4>1. k + 1 \in 1..Len(r) /\ i + k - 1 = Len(cs)
        <5>1. Len(r) = N - i + 1 /\ k + 1 = Len(r)
          BY <1>5, <2>3
        <5>2. k = N - i
          BY <5>1, <1>N, <1>4, SMTT(60)
        <5> QED
          BY <5>1, <5>2, <1>0, <1>N, <1>4
      <4>2. r[k + 1] = c /\ r[k] = cs[i + k - 1] /\ i + k - 1 \in 1..Len(cs)
        BY <4>1, <2>3, <1>6, <1>9
      <4> QED
        BY <4>1, <4>2, <1>0, SMTT(60)
    <3>2. cs[Len(cs)].last = t
      BY <3>1, <1>0, <1>N DEF RunOK
    <3> QED
      BY <3>1, <3>2, <2>1, <1>0, <1>N, <1>1, SMTT(60)
  <2>4. k + 1 < Len(r) \/ k + 1 = Len(r)
    BY <1>9, <1>L
  <2> QED
    BY <2>2, <2>3, <2>4
<1>10. RunOK(r, t + n, s + 1)
  <2>1. t + n \in Nat /\ t + n > 0 /\ s + 1 \in 1..(t + n) + 1
    BY <1>0, <1>N DEF RunOK
  <2>2. r # <<>> /\ r[Len(r)].last = t + n
    <3>1. r[Len(r)] = c
      BY <1>L, <1>6
    <3>2. r # <<>>
      BY <1>L
    <3> QED
      BY <3>1, <3>2
  <2> QED
    BY <2>1, <2>2, <1>5, <1>8, <1>9, SMTT(60) DEF RunOK
<1> QED
  <2>1. \A k \in 1..Len(r) : (\E j \in 1..Len(cs) : r[k] = cs[j]) \/ (r[k].seq = s /\ t < r[k].first)
    <3> SUFFICES ASSUME NEW k \in 1..Len(r)
                 PROVE  (\E j \in 1..Len(cs) : r[k] = cs[j]) \/ (r[k].seq = s /\ t < r[k].first)
      OBVIOUS
    <3>1. CASE k < Len(r)
      BY <3>1, <1>6
    <3>2. CASE k = Len(r)
      BY <3>2, <1>0, <1>1, <1>6
    <3> QED
      BY <3>1, <3>2, <1>5
  <2> QED
    BY <2>1, <1>10, <1>3
-------------------------------------------------------------------------------
\* An event in a queue: it carries no bytes and the reservation made before.
Quiet(frame, reserved) ==
    frame.kind # "output" /\ frame.first = 1 /\ frame.last = 0 /\ frame.next = reserved

\* An output frame that ends with the buffer.
Piece(frame, t, s) ==
    /\ frame \in Frames /\ frame.kind = "output"
    /\ frame.next = s /\ frame.last = t /\ frame.first <= frame.last

\* The frames of one call: events, with one output frame at k, or with none (k = 0).
Batch(frames, k, reserved, t, s) ==
    /\ frames \in Seq(Frames)
    /\ k \in 0..Len(frames)
    /\ \A i \in 1..Len(frames) : i # k => Quiet(frames[i], reserved)
    /\ k > 0 => Piece(frames[k], t, s)

\* What QueueFrames does to the connection cn.
Queued(cn, frames, new) ==
    /\ new.pending = cn.pending \o frames
    /\ new.reserved = Max({cn.reserved} \cup {frames[i].next : i \in DOMAIN frames})
    /\ new.got = cn.got /\ new.delivered = cn.delivered

LEMMA ReservedIs ==
    ASSUME NEW r \in Nat, NEW s \in Nat, r <= s, NEW t, NEW frames, NEW k, Batch(frames, k, r, t, s)
    PROVE  Max({r} \cup {frames[i].next : i \in DOMAIN frames}) = IF k = 0 THEN r ELSE s
<1> DEFINE S == {r} \cup {frames[i].next : i \in DOMAIN frames}
<1>1. \A i \in 1..Len(frames) : frames[i].next = IF i = k THEN s ELSE r
  BY DEF Batch, Quiet, Piece
<1>2. DOMAIN frames = 1..Len(frames) /\ k \in 0..Len(frames) /\ Len(frames) \in Nat
  BY DEF Batch
<1>3. \A y \in S : y = r \/ (k > 0 /\ y = s)
  BY <1>1, <1>2
<1>4. k > 0 => s \in S
  BY <1>1, <1>2
<1>5. r \in S
  OBVIOUS
<1> HIDE DEF S
<1>6. S \in SUBSET Int
  BY <1>3
<1>7. Max(S) = IF k = 0 THEN r ELSE s
  <2>1. CASE k = 0
    <3>1. \A y \in S : y <= r
      BY <2>1, <1>3
    <3> QED
      BY <3>1, <2>1, <1>5, <1>6, MaxIs
  <2>2. CASE k > 0
    <3>1. \A y \in S : y <= s
      BY <2>2, <1>3
    <3> QED
      BY <3>1, <2>2, <1>4, <1>6, MaxIs
  <2> QED
    BY <1>2, <2>1, <2>2
<1> QED
  BY <1>7 DEF S

LEMMA FrameNumbers ==
    ASSUME NEW f \in Frames PROVE f.next \in Nat /\ f.first \in Nat /\ f.last \in Nat
  BY StreamAssumption DEF Frames

\* QueueFrames with such a batch, whose output continues beyond the last byte queued.
LEMMA QueueKeeps ==
    ASSUME NEW cn \in Conns, NEW cs, NEW t, NEW s, RunOK(cs, t, s),
           cn.reserved <= s, QueueOK(cn),
           NEW b \in 0..t, IsLast(cn, b), IsAt(cn, cs, b),
           NEW frames, NEW k, Batch(frames, k, cn.reserved, t, s), k > 0 => b < frames[k].first,
           NEW new, Queued(cn, frames, new)
    PROVE  /\ new.reserved = IF k = 0 THEN cn.reserved ELSE s
           /\ new.pending \in Seq(Frames)
           /\ IsLast(new, IF k = 0 THEN b ELSE t)
           /\ StreamOK(new, cs, t, s)
           /\ Window(cn) /\ k \in {0, Len(frames)} => Window(new)
<1> DEFINE P == cn.pending
           Q == new.pending
           r == cn.reserved
           last == IF k = 0 THEN b ELSE t
<1>1. /\ P \in Seq(Frames) /\ frames \in Seq(Frames) /\ r \in Nat /\ cn.got \in Nat /\ cn.delivered \in Nat
      /\ s \in Nat /\ t \in Nat /\ k \in 0..Len(frames) /\ Len(frames) \in Nat /\ Len(P) \in Nat
      /\ b \in Nat /\ b <= t /\ last \in Nat /\ last \in 0..t /\ b <= last
  BY DEF Conns, Batch, RunOK
<1>2. new.reserved = IF k = 0 THEN r ELSE s
  <2>1. r <= s
    OBVIOUS
  <2>2. Max({r} \cup {frames[i].next : i \in DOMAIN frames}) = IF k = 0 THEN r ELSE s
    BY <2>1, <1>1, ReservedIs
  <2> QED
    BY <2>2 DEF Queued
<1>3. /\ Q \in Seq(Frames) /\ Len(Q) = Len(P) + Len(frames)
      /\ \A i \in 1..Len(P) + Len(frames) : Q[i] = IF i <= Len(P) THEN P[i] ELSE frames[i - Len(P)]
  BY <1>1, ConcatProperties DEF Queued
<1>4. ASSUME NEW i \in 1..Len(Q)
      PROVE  \/ i <= Len(P) /\ Q[i] = P[i] /\ P[i] \in Frames
             \/ i = Len(P) + k /\ k > 0 /\ Piece(Q[i], t, s) /\ b < Q[i].first
             \/ i > Len(P) /\ Quiet(Q[i], r)
  <2>1. CASE i <= Len(P)
    BY <2>1, <1>1, <1>3
  <2>2. CASE i > Len(P)
    <3>1. PICK j \in 1..Len(frames) : j = i - Len(P)
      <4>1. i - Len(P) \in 1..Len(frames)
        <5>1. i \in 1..Len(P) + Len(frames)
          BY <1>3
        <5> QED
          BY <5>1, <2>2, <1>1
      <4> QED
        BY <4>1
    <3>2. Q[i] = frames[j]
      BY <3>1, <2>2, <1>1, <1>3
    <3>3. CASE j = k
      BY <3>1, <3>2, <3>3, <1>1, SMTT(60) DEF Batch
    <3>4. CASE j # k
      BY <3>1, <3>2, <3>4, <2>2 DEF Batch
    <3> QED
      BY <3>3, <3>4
  <2> QED
    BY <2>1, <2>2, <1>1, <1>3
<1>5. ASSUME NEW i \in 1..Len(P)
      PROVE  /\ P[i].next \in Nat /\ P[i].first \in Nat /\ P[i].last \in Nat
             /\ P[i].next <= r /\ P[i].last <= b
             /\ P[i].kind = "output" => cn.got < P[i].first /\ P[i].first <= P[i].last
             /\ P[i].kind # "output" => P[i].first = 1 /\ P[i].last = 0
             /\ i \in 1..Len(Q) /\ Q[i] = P[i]
  <2>1. P[i] \in Frames
    BY <1>1
  <2> QED
    <3>1. P[i].next \in Nat /\ P[i].first \in Nat /\ P[i].last \in Nat
      BY <2>1, FrameNumbers
    <3>2. P[i].next <= r /\ P[i].last <= b
      BY DEF QueueOK, IsLast
    <3>3. /\ P[i].kind = "output" => cn.got < P[i].first /\ P[i].first <= P[i].last
          /\ P[i].kind # "output" => P[i].first = 1 /\ P[i].last = 0
      BY DEF QueueOK
    <3>4. i \in 1..Len(Q) /\ Q[i] = P[i]
      <4>1. i \in 1..Len(P) + Len(frames) /\ i <= Len(P)
        BY <1>1
      <4> QED
        BY <4>1, <1>3
    <3> QED
      BY <3>1, <3>2, <3>3, <3>4
<1>6. cn.got <= b
  BY DEF IsLast
<1>7. QueueOK(new)
  <2>1. ASSUME NEW i \in 1..Len(Q)
        PROVE  /\ Q[i].next <= new.reserved
               /\ Q[i].kind = "output" => new.got < Q[i].first /\ Q[i].first <= Q[i].last
               /\ Q[i].kind # "output" => Q[i].first = 1 /\ Q[i].last = 0
    <3>1. new.got = cn.got
      BY DEF Queued
    <3>2. CASE i <= Len(P) /\ Q[i] = P[i]
      <4>1. i \in 1..Len(P)
        BY <3>2, <1>1
      <4>2. r <= new.reserved /\ new.reserved \in Nat
        BY <1>1, <1>2
      <4>3. Q[i].next \in Nat /\ Q[i].next <= r
        BY <4>1, <1>5
      <4>4. Q[i].next <= new.reserved
        BY <4>2, <4>3, <1>1, SMTT(60)
      <4> QED
        BY <4>1, <4>4, <3>1, <1>5
    <3>3. CASE k > 0 /\ Piece(Q[i], t, s) /\ b < Q[i].first
      <4>1. Q[i].first \in Nat /\ Q[i].next = s /\ Q[i].kind = "output" /\ Q[i].first <= Q[i].last
        BY <3>3, FrameNumbers DEF Piece
      <4>2. cn.got < Q[i].first
        BY <4>1, <3>3, <1>1, <1>6, SMTT(60)
      <4> QED
        BY <4>1, <4>2, <3>1, <3>3, <1>1, <1>2, SMTT(60)
    <3>4. CASE Quiet(Q[i], r)
      BY <3>4, <1>1, <1>2, SMTT(60) DEF Quiet
    <3> QED
      BY <3>2, <3>3, <3>4, <1>4
  <2>2. ASSUME NEW i \in 1..Len(Q), NEW j \in 1..Len(Q), i < j,
               Q[i].kind = "output", Q[j].kind = "output"
        PROVE  Q[i].last < Q[j].first
    <3>1. i <= Len(P) /\ Q[i] = P[i]
      <4>2. ~(i > Len(P) /\ Quiet(Q[i], r)) /\ ~(j > Len(P) /\ Quiet(Q[j], r))
        BY <2>2 DEF Quiet
      <4>3. j <= Len(P) \/ j = Len(P) + k
        BY <4>2, <1>4
      <4> QED
        <5>1. Len(P) \in Nat /\ k \in Nat /\ i \in Nat /\ j \in Nat /\ i < j
          BY <1>1, <1>3, <2>2
        <5>2. i # Len(P) + k
          BY <5>1, <4>3
        <5> QED
          BY <5>2, <4>2, <1>4
    <3>2. CASE j <= Len(P)
      <4>1. i \in 1..Len(P) /\ j \in 1..Len(P) /\ Q[j] = P[j]
        BY <3>1, <3>2, <1>5, <1>1
      <4> QED
        BY <4>1, <3>1, <2>2 DEF QueueOK
    <3>3. CASE j > Len(P)
      <4>1. Piece(Q[j], t, s) /\ b < Q[j].first
        BY <3>3, <2>2, <1>4, <1>1, SMTT(60) DEF Quiet
      <4> QED
        <5>1. Q[j].first \in Nat /\ i \in 1..Len(P)
          BY <4>1, <3>1, <1>1, FrameNumbers DEF Piece
        <5>2. Q[i].last \in Nat /\ Q[i].last <= b
          BY <5>1, <1>5
        <5> QED
          <6>1. b \in Nat /\ b < Q[j].first
            BY <4>1, <1>1
          <6> QED
            BY <6>1, <5>1, <5>2
    <3> QED
      BY <3>2, <3>3, <1>1, <1>3
  <2> QED
    BY <2>1, <2>2 DEF QueueOK
<1>8. IsLast(new, last)
  <2>1. new.got = cn.got /\ new.got <= last
    BY <1>1, <1>6 DEF Queued
  <2>2. ASSUME NEW i \in 1..Len(Q) PROVE Q[i].last <= last
    <3>2. CASE i <= Len(P) /\ Q[i] = P[i]
      BY <3>2, <1>1, <1>3, <1>5, SMTT(60)
    <3>3. CASE k > 0 /\ Piece(Q[i], t, s)
      BY <3>3, <1>1 DEF Piece
    <3>4. CASE Quiet(Q[i], r)
      BY <3>4, <1>1 DEF Quiet
    <3> QED
      BY <3>2, <3>3, <3>4, <1>4
  <2>3. last = new.got \/ \E i \in 1..Len(Q) : last = Q[i].last
    <3>1. CASE k = 0
      <4>1. b = cn.got \/ \E i \in 1..Len(P) : b = P[i].last
        BY DEF IsLast
      <4> QED
        BY <4>1, <3>1, <2>1, <1>5
    <3>2. CASE k > 0
      <4>1. Len(P) + k \in 1..Len(Q) /\ Q[Len(P) + k] = frames[k]
        <5>1. Len(P) + k \in 1..Len(P) + Len(frames) /\ ~(Len(P) + k <= Len(P)) /\ (Len(P) + k) - Len(P) = k
          BY <3>2, <1>1
        <5> QED
          BY <5>1, <1>3
      <4>2. frames[k].last = t
        BY <3>2 DEF Batch, Piece
      <4>3. last = t
        BY <3>2, <1>1
      <4>4. Q[Len(P) + k].last = last
        BY <4>1, <4>2, <4>3, ZenonT(60)
      <4> QED
        BY <4>1, <4>4, ZenonT(60)
    <3> QED
      BY <3>1, <3>2, <1>1
  <2> QED
    BY <2>1, <2>2, <2>3 DEF IsLast
<1>9. IsAt(new, cs, last)
  <2>1. CASE k = 0
    BY <2>1, <1>2 DEF IsAt
  <2>2. CASE k > 0
    <3>1. ASSUME NEW j \in 1..Len(cs)
          PROVE  /\ cs[j].seq < s
                 /\ cs[j].seq = s - 1 => cs[j].last = t
      <4>1. cs[j].seq = s - 1 - Len(cs) + j /\ Len(cs) \in Nat
        BY DEF RunOK
      <4>2. cs[j].seq = s - 1 => j = Len(cs)
        BY <4>1, <1>1
      <4>3. cs[Len(cs)].last = t
        <5>1. t > 0
          BY <1>1 DEF RunOK
        <5> QED
          BY <5>1 DEF RunOK
      <4> QED
        BY <4>1, <4>2, <4>3, <1>1, SMTT(60)
    <3>2. new.reserved = s /\ last = t
      BY <2>2, <1>1, <1>2
    <3>3. ASSUME NEW j \in 1..Len(cs) PROVE cs[j].seq \in Nat
      BY SMTT(60) DEF RunOK, Chunk
    <3> QED
      BY <3>1, <3>2, <3>3, <1>1, SMTT(60) DEF IsAt
  <2> QED
    BY <2>1, <2>2, <1>1
<1>10. StreamOK(new, cs, t, s)
  <2>1. new.reserved <= s
    BY <1>1, <1>2
  <2> QED
    BY <2>1, <1>1, <1>7, <1>8, <1>9 DEF StreamOK
<1>11. ASSUME Window(cn), k \in {0, Len(frames)} PROVE Window(new)
  <2>1. new.delivered = cn.delivered
    BY DEF Queued
  <2>2. cn.delivered <= r
    BY <1>11, <1>1, <1>5, SMTT(60) DEF Window
  <2>3. ASSUME NEW i \in 1..Len(Q)
        PROVE  /\ new.delivered <= Q[i].next
               /\ i > Len(P) => r <= Q[i].next
               /\ i > Len(P) /\ i < Len(Q) => Q[i].next = r
               /\ i = Len(Q) /\ i > Len(P) => Q[i].next = new.reserved
    <3>2. CASE i <= Len(P) /\ Q[i] = P[i]
      BY <3>2, <2>1, <1>11, <1>1, <1>3, SMTT(60) DEF Window
    <3>3. CASE i = Len(P) + k /\ k > 0 /\ Piece(Q[i], t, s)
      <4>1. i = Len(Q)
        BY <3>3, <1>11, <1>1, <1>3, SMTT(60)
      <4> QED
        BY <4>1, <3>3, <2>1, <2>2, <1>1, <1>2 DEF Piece
    <3>4. CASE i > Len(P) /\ i # Len(P) + k /\ Quiet(Q[i], r)
      <4>1. i = Len(Q) => k = 0
        BY <3>4, <1>11, <1>1, <1>3
      <4> QED
        BY <4>1, <3>4, <2>1, <2>2, <1>1, <1>2 DEF Quiet
    <3>5. CASE i > Len(P) /\ i = Len(P) + k /\ Quiet(Q[i], r)
      <4>1. k > 0 /\ Q[i] = frames[k]
        <5>1. k > 0 /\ i - Len(P) = k /\ ~(i <= Len(P)) /\ i \in 1..Len(P) + Len(frames)
          BY <3>5, <1>1, <1>3
        <5> QED
          BY <5>1, <1>3
      <4> QED
        BY <4>1, <3>5 DEF Quiet, Batch, Piece
    <3> QED
      BY <3>2, <3>3, <3>4, <3>5, <1>4
  <2>4. ASSUME NEW i \in 1..Len(Q), NEW j \in 1..Len(Q), i <= j
        PROVE  Q[i].next <= Q[j].next
    <3>0. Q[i] \in Frames /\ Q[j] \in Frames
      BY <1>3
    <3>1. CASE j <= Len(P)
      <4>1. i \in 1..Len(P) /\ j \in 1..Len(P)
        BY <3>1, <2>4, <1>1, <1>3
      <4> QED
        BY <4>1, <2>4, <1>5, <1>11 DEF Window
    <3>2. CASE j > Len(P) /\ i <= Len(P)
      <4>1. i \in 1..Len(P)
        BY <3>2, <1>1
      <4>2. Q[i].next <= r /\ r <= Q[j].next /\ Q[i].next \in Nat /\ Q[j].next \in Nat
        <5>1. Q[i].next \in Nat /\ Q[j].next \in Nat
          BY <3>0, FrameNumbers
        <5>2. Q[i].next <= r
          BY <4>1, <1>5
        <5>3. r <= Q[j].next
          BY <3>2, <2>3
        <5> QED
          BY <5>1, <5>2, <5>3
      <4>3. r \in Nat
        BY <1>1
      <4> QED
        BY <4>2, <4>3
    <3>3. CASE i > Len(P) /\ i < Len(Q)
      <4>1. Q[i].next = r /\ j > Len(P)
        BY <3>3, <2>3, <2>4, <1>1
      <4> QED
        BY <4>1, <2>3, <2>4
    <3>4. CASE i = Len(Q)
      <4>1. i = j
        BY <3>4, <2>4, <1>1, <1>3
      <4>2. Q[i].next \in Nat
        BY <3>0, FrameNumbers
      <4> QED
        BY <4>1, <4>2
    <3> QED
      <4>1. Len(Q) \in Nat /\ Len(P) \in Nat /\ i \in Nat /\ j \in Nat /\ i <= Len(Q)
        BY <1>1, <1>3
      <4> QED
        BY <4>1, <3>1, <3>2, <3>3, <3>4
  <2>5. IF Q = <<>> THEN new.delivered = new.reserved ELSE Q[Len(Q)].next = new.reserved
    <3>1. CASE Len(frames) = 0
      <4>1. k = 0 /\ Len(Q) = Len(P) /\ new.reserved = r
        BY <3>1, <1>1, <1>2, <1>3
      <4>2. Q = <<>> <=> P = <<>>
        BY <4>1, <1>1, <1>3
      <4>3. P # <<>> => Q[Len(Q)] = P[Len(P)]
        BY <4>1, <1>1, <1>3, <1>5, SMTT(60)
      <4> QED
        BY <4>1, <4>2, <4>3, <2>1, <1>11 DEF Window
    <3>2. CASE Len(frames) > 0
      <4>1. Len(Q) > Len(P) /\ Len(Q) \in 1..Len(Q) /\ Q # <<>>
        BY <3>2, <1>1, <1>3
      <4> QED
        BY <4>1, <2>3
    <3> QED
      BY <3>1, <3>2, <1>1
  <2> QED
    BY <2>3, <2>4, <2>5 DEF Window
<1> QED
  BY <1>2, <1>3, <1>8, <1>10, <1>11

\* A completed write: what was queued last stays the same, and the window moves by a frame.
LEMMA ReceivedKeeps ==
    ASSUME NEW cn \in Conns, NEW cs, NEW t, NEW s, StreamOK(cn, cs, t, s), cn.pending # <<>>,
           NEW new, new.pending = Tail(cn.pending), new.delivered = Head(cn.pending).next,
           new.reserved = Max({cn.reserved, Head(cn.pending).next}),
           new.got = IF Head(cn.pending).first <= Head(cn.pending).last THEN Head(cn.pending).last ELSE cn.got
    PROVE  /\ new.reserved = cn.reserved
           /\ new.pending \in Seq(Frames)
           /\ StreamOK(new, cs, t, s)
           /\ \A b \in Nat : IsLast(cn, b) => IsLast(new, b)
           /\ Window(cn) => Window(new)
<1> DEFINE P == cn.pending
           Q == new.pending
<1>1. /\ P \in Seq(Frames) /\ cn.reserved \in Nat /\ cn.got \in Nat /\ cn.delivered \in Nat
      /\ Len(P) \in Nat /\ Len(P) > 0
  BY StreamAssumption DEF Conns
<1>2. Head(P) = P[1] /\ P[1] \in Frames /\ 1 \in 1..Len(P)
  BY <1>1
<1>3. P[1].next \in Nat /\ P[1].first \in Nat /\ P[1].last \in Nat
  BY <1>2, FrameNumbers
<1>4. QueueOK(cn)
  BY DEF StreamOK
<1>5. /\ P[1].next <= cn.reserved
      /\ P[1].kind = "output" => cn.got < P[1].first /\ P[1].first <= P[1].last
      /\ P[1].kind # "output" => P[1].first = 1 /\ P[1].last = 0
  BY <1>2, <1>4 DEF QueueOK
<1>6. new.reserved = cn.reserved
  <2>1. Max({cn.reserved, P[1].next}) = cn.reserved
    <3>1. /\ {cn.reserved, P[1].next} \in SUBSET Int
          /\ cn.reserved \in {cn.reserved, P[1].next}
          /\ \A y \in {cn.reserved, P[1].next} : y <= cn.reserved
      BY <1>1, <1>3, <1>5
    <3> QED
      BY <3>1, MaxIs
  <2> QED
    BY <2>1, <1>2
<1>7. /\ Q \in Seq(Frames) /\ Len(Q) = Len(P) - 1
      /\ \A i \in 1..Len(Q) : Q[i] = P[i + 1]
  BY <1>1, HeadTailProperties
<1>8. new.got = (IF P[1].kind = "output" THEN P[1].last ELSE cn.got) /\ new.got \in Nat
  BY <1>1, <1>2, <1>3, <1>5
<1>9. ASSUME NEW i \in 1..Len(Q) PROVE i + 1 \in 1..Len(P) /\ Q[i] = P[i + 1]
  BY <1>1, <1>7
<1>10. QueueOK(new)
  <2>1. ASSUME NEW i \in 1..Len(Q)
        PROVE  /\ Q[i].next <= new.reserved
               /\ Q[i].kind = "output" => new.got < Q[i].first /\ Q[i].first <= Q[i].last
               /\ Q[i].kind # "output" => Q[i].first = 1 /\ Q[i].last = 0
    <3>1. 1 < i + 1 /\ i + 1 \in 1..Len(P) /\ Q[i] = P[i + 1]
      BY <1>9
    <3>2. P[1].kind = "output" /\ Q[i].kind = "output" => P[1].last < Q[i].first
      BY <3>1, <1>2, <1>4 DEF QueueOK
    <3>3. /\ Q[i].next <= cn.reserved
          /\ Q[i].kind = "output" => cn.got < Q[i].first /\ Q[i].first <= Q[i].last
          /\ Q[i].kind # "output" => Q[i].first = 1 /\ Q[i].last = 0
      BY <3>1, <1>4 DEF QueueOK
    <3> QED
      BY <3>2, <3>3, <1>6, <1>8
  <2>2. ASSUME NEW i \in 1..Len(Q), NEW j \in 1..Len(Q), i < j,
               Q[i].kind = "output", Q[j].kind = "output"
        PROVE  Q[i].last < Q[j].first
    <3>1. i + 1 < j + 1
      BY <2>2, <1>7, <1>1
    <3> QED
      BY <3>1, <2>2, <1>9, <1>4, SMTT(60) DEF QueueOK
  <2> QED
    BY <2>1, <2>2 DEF QueueOK
<1>11. ASSUME NEW b \in Nat, IsLast(cn, b) PROVE IsLast(new, b)
  <2>1. P[1].last <= b /\ cn.got <= b
    BY <1>11, <1>2 DEF IsLast
  <2>2. new.got <= b
    BY <2>1, <1>8
  <2>3. \A i \in 1..Len(Q) : Q[i].last <= b
    BY <1>9, <1>11 DEF IsLast
  <2>4. b = new.got \/ \E i \in 1..Len(Q) : b = Q[i].last
    <3>1. CASE b = cn.got
      <4>1. P[1].kind # "output"
        BY <3>1, <2>1, <1>1, <1>3, <1>5
      <4> QED
        BY <4>1, <3>1, <1>8
    <3>2. ASSUME NEW i \in 1..Len(P), b = P[i].last PROVE b = new.got \/ \E j \in 1..Len(Q) : b = Q[j].last
      <4>1. CASE i = 1
        BY <4>1, <3>2, <1>1, <1>3, <1>5, <1>8, <2>1
      <4>2. CASE i > 1
        <5>1. i - 1 \in 1..Len(Q) /\ (i - 1) + 1 = i
          BY <4>2, <1>1, <1>7
        <5>2. Q[i - 1] = P[i]
          BY <5>1, <1>7
        <5> QED
          BY <5>1, <5>2, <3>2
      <4> QED
        BY <4>1, <4>2, <1>1
    <3> QED
      BY <3>1, <3>2, <1>11 DEF IsLast
  <2> QED
    BY <2>2, <2>3, <2>4 DEF IsLast
<1>12. StreamOK(new, cs, t, s)
  <2>1. PICK b \in 0..t : IsLast(cn, b) /\ IsAt(cn, cs, b)
    BY DEF StreamOK
  <2>2. IsLast(new, b)
    BY <2>1, <1>11
  <2>3. IsAt(new, cs, b)
    BY <2>1, <1>6 DEF IsAt
  <2>4. new.reserved <= s
    BY <1>6 DEF StreamOK
  <2> QED
    BY <2>1, <2>2, <2>3, <2>4, <1>10 DEF StreamOK
<1>13. ASSUME Window(cn) PROVE Window(new)
  <2>1. new.delivered = P[1].next
    BY <1>2
  <2>2. ASSUME NEW i \in 1..Len(Q) PROVE new.delivered <= Q[i].next
    <3>1. 1 <= i + 1 /\ i + 1 \in 1..Len(P) /\ Q[i] = P[i + 1]
      BY <1>9
    <3> QED
      BY <3>1, <2>1, <1>2, <1>13 DEF Window
  <2>3. ASSUME NEW i \in 1..Len(Q), NEW j \in 1..Len(Q), i <= j PROVE Q[i].next <= Q[j].next
    <3>1. i + 1 <= j + 1
      BY <2>3, <1>1, <1>7
    <3> QED
      BY <3>1, <1>9, <1>13 DEF Window
  <2>4. P[Len(P)].next = cn.reserved
    BY <1>13 DEF Window
  <2>5. Q = <<>> => Len(P) = 1
    <3>1. Len(<<>>) = 0
      BY EmptySeq
    <3>2. Q = <<>> => Len(Q) = Len(<<>>)
      BY Zenon
    <3>3. Len(Q) = Len(P) - 1 /\ Len(P) \in Nat
      BY <1>1, <1>7
    <3>4. Len(Q) = 0 => Len(P) = 1
      BY <3>3
    <3> QED
      BY <3>1, <3>2, <3>4, Zenon
  <2>6. Q # <<>> => Len(Q) \in 1..Len(Q) /\ Q[Len(Q)] = P[Len(P)]
    <3>1. Q # <<>> => Len(Q) \in 1..Len(Q) /\ Len(Q) + 1 = Len(P)
      BY <1>1, <1>7
    <3> QED
      BY <3>1, <1>9
  <2>7. IF Q = <<>> THEN new.delivered = new.reserved ELSE Q[Len(Q)].next = new.reserved
    BY <2>1, <2>4, <2>5, <2>6, <1>6
  <2> QED
    BY <2>2, <2>3, <2>7 DEF Window
<1> QED
  BY <1>6, <1>7, <1>11, <1>12, <1>13

\* Output that is read and appended leaves a connection where it is in the stream.
LEMMA AppendKeepsStream ==
    ASSUME NEW cn \in Conns, NEW cs, NEW t \in Nat, NEW s \in Nat, StreamOK(cn, cs, t, s),
           NEW n \in Nat \ {0}, NEW r, RunOK(r, t + n, s + 1),
           \A k \in 1..Len(r) : (\E i \in 1..Len(cs) : r[k] = cs[i]) \/ (r[k].seq = s /\ t < r[k].first)
    PROVE  StreamOK(cn, r, t + n, s + 1)
<1>1. PICK b \in 0..t : IsLast(cn, b) /\ IsAt(cn, cs, b)
  BY DEF StreamOK
<1>2. cn.reserved \in Nat /\ cn.reserved <= s
  BY StreamAssumption DEF StreamOK, Conns
<1>3. ASSUME NEW k \in 1..Len(r)
      PROVE  /\ r[k].seq >= cn.reserved => b < r[k].first
             /\ r[k].seq = cn.reserved - 1 => b = r[k].last
  <2>1. CASE \E i \in 1..Len(cs) : r[k] = cs[i]
    BY <2>1, <1>1 DEF IsAt
  <2>2. CASE r[k].seq = s /\ t < r[k].first
    <3>1. r[k] \in Chunk
      BY DEF RunOK
    <3>2. r[k].first \in Nat
      BY <3>1 DEF Chunk
    <3> QED
      BY <3>2, <2>2, <1>1, <1>2, SMTT(60)
  <2> QED
    BY <2>1, <2>2
<1>4. b \in 0..t + n /\ cn.reserved <= s + 1
  BY <1>1, <1>2
<1> QED
  BY <1>1, <1>3, <1>4 DEF StreamOK, IsAt
-------------------------------------------------------------------------------
\* A slice ends with the buffer. It starts right behind the chunk before the sequence
\* asked for, or, if that one is gone, with the oldest there is.
Continues(first, seq) ==
    \E m \in 1..Len(chunks) :
        /\ first = chunks[m].first /\ chunks[m].seq >= seq
        /\ m = 1 \/ (m - 1 \in 1..Len(chunks) /\ chunks[m - 1].seq = seq - 1)

LEMMA Buffered ==
    ASSUME Inv, NEW i \in 1..Len(chunks)
    PROVE  /\ taken \in Nat /\ taken > 0 /\ taken <= MaxBytes
           /\ nextSeq \in Nat /\ nextSeq <= MaxBytes + 1 /\ Len(chunks) \in Nat
           /\ chunks[i].seq \in Nat /\ chunks[i].first \in Nat /\ chunks[i].last \in Nat
           /\ chunks[i].seq = nextSeq - 1 - Len(chunks) + i
           /\ 1 <= chunks[i].first /\ chunks[i].first <= chunks[i].last /\ chunks[i].last <= taken
           /\ Len(chunks) \in 1..Len(chunks)
           /\ Last(chunks).seq = nextSeq - 1 /\ Last(chunks).last = taken
<1>1. RunOK(chunks, taken, nextSeq) /\ TypeOK /\ MaxBytes \in Nat
  BY StreamAssumption DEF Inv
<1>2. chunks \in Seq(Chunk) /\ Len(chunks) \in Nat /\ chunks # <<>>
  BY <1>1 DEF RunOK
<1>3. taken \in Nat /\ nextSeq \in Nat /\ nextSeq <= taken + 1 /\ taken > 0
  BY <1>1, <1>2 DEF RunOK
<1>4. taken <= MaxBytes
  BY <1>1 DEF TypeOK
<1>5. chunks[i] \in Chunk /\ Len(chunks) \in 1..Len(chunks)
  BY <1>2
<1>6. /\ chunks[i].seq = nextSeq - 1 - Len(chunks) + i
      /\ 1 <= chunks[i].first /\ chunks[i].first <= chunks[i].last /\ chunks[i].last <= taken
  BY <1>1 DEF RunOK
<1>7. Last(chunks).seq = nextSeq - 1 - Len(chunks) + Len(chunks) /\ Last(chunks).last = taken
  BY <1>1, <1>3, <1>5 DEF RunOK, Last
<1> QED
  BY <1>1, <1>2, <1>3, <1>4, <1>5, <1>6, <1>7, SMTT(60) DEF Chunk

LEMMA SliceIs ==
    ASSUME Inv, NEW seq \in 1..nextSeq, SliceFromSequence(seq) # <<>>
    PROVE  \E o : SliceFromSequence(seq) = <<o>> /\ Piece(o, taken, nextSeq) /\ Continues(o.first, seq)
<1> DEFINE from == {i \in DOMAIN chunks : chunks[i].seq >= seq}
<1>1. from # {} /\ SliceFromSequence(seq) = Slice(from)
  BY DEF SliceFromSequence, Slice
<1>2. RunOK(chunks, taken, nextSeq) /\ chunks \in Seq(Chunk) /\ DOMAIN chunks = 1..Len(chunks)
  BY DEF Inv, RunOK
<1>3. PICK i \in 1..Len(chunks) : chunks[i].seq >= seq
  BY <1>1, <1>2
<1>4. PICK n \in Nat : n = Len(chunks)
  <2>1. Len(chunks) \in Nat
    BY <1>3, Buffered
  <2> QED
    BY <2>1
<1>5. PICK d \in Int : d = nextSeq - 1 - n
  BY <1>3, <1>4, Buffered
<1>6. \A j \in 1..n : chunks[j].seq = d + j /\ chunks[j].seq \in Nat
  BY <1>4, <1>5, Buffered
<1>7. seq \in Nat /\ seq >= 1
  BY <1>3, Buffered
<1>8. PICK m \in 1..n : m = IF seq <= d + 1 THEN 1 ELSE seq - d
  <2>1. i \in 1..n /\ d + i >= seq
    BY <1>3, <1>4, <1>6
  <2> QED
    BY <2>1, <1>5, <1>7
<1>9. chunks[m].seq >= seq /\ (m = 1 \/ (m - 1 \in 1..n /\ chunks[m - 1].seq = seq - 1))
  <2>1. d + m >= seq /\ (m = 1 \/ (m - 1 \in 1..n /\ d + (m - 1) = seq - 1))
    BY <1>5, <1>7, <1>8
  <2> QED
    BY <2>1, <1>6, <1>8
<1>10. Min(from) = m
  <2>1. m \in from
    BY <1>2, <1>4, <1>9
  <2>2. ASSUME NEW y \in from PROVE y \in Int /\ m <= y
    <3>1. y \in 1..n /\ d + y >= seq
      BY <1>2, <1>4, <1>6
    <3> QED
      BY <3>1, <1>5, <1>7, <1>8
  <2>3. from \in SUBSET Int
    BY <2>2
  <2> HIDE DEF from
  <2> QED
    BY <2>1, <2>2, <2>3, MinIs
<1>11. PICK o : o = [kind |-> "output", next |-> Last(chunks).seq + 1, first |-> chunks[m].first, last |-> Last(chunks).last]
  OBVIOUS
<1>12. SliceFromSequence(seq) = <<o>>
  BY <1>1, <1>10, <1>11 DEF Slice
<1>13. /\ m \in 1..Len(chunks)
       /\ Last(chunks).seq + 1 = nextSeq /\ Last(chunks).last = taken
       /\ chunks[m].first \in 1..taken /\ taken \in 1..MaxBytes /\ nextSeq \in 1..MaxBytes + 1
  <2>1. m \in 1..Len(chunks)
    BY <1>4, <1>8
  <2>2. Last(chunks).seq = nextSeq - 1 /\ nextSeq \in Nat /\ Last(chunks).last = taken /\ taken \in Nat
    BY <2>1, Buffered
  <2>3. /\ chunks[m].first \in Nat /\ chunks[m].last \in Nat /\ 1 <= chunks[m].first
        /\ chunks[m].first <= chunks[m].last /\ chunks[m].last <= taken
        /\ taken > 0 /\ taken <= MaxBytes /\ nextSeq <= MaxBytes + 1
    BY <2>1, Buffered
  <2>4. MaxBytes \in Nat /\ nextSeq >= 1
    BY StreamAssumption, <1>2 DEF RunOK
  <2> QED
    BY <2>1, <2>2, <2>3, <2>4
<1>14. Piece(o, taken, nextSeq) /\ o.first = chunks[m].first
  BY <1>11, <1>13, StreamAssumption DEF Piece, Frames
<1> QED
  BY <1>4, <1>9, <1>12, <1>13, <1>14 DEF Continues

LEMMA TailIs ==
    ASSUME Inv, TailSlice # <<>>
    PROVE  \E o : TailSlice = <<o>> /\ Piece(o, taken, nextSeq) /\ 0 < o.first
<1>1. RunOK(chunks, taken, nextSeq) /\ chunks \in Seq(Chunk) /\ chunks # <<>> /\ 1 \in 1..Len(chunks)
  BY DEF Inv, RunOK, TailSlice
<1>2. /\ taken \in Nat /\ taken > 0 /\ taken <= MaxBytes /\ nextSeq <= MaxBytes + 1 /\ nextSeq >= 1
      /\ nextSeq \in Nat /\ Last(chunks).seq = nextSeq - 1 /\ Last(chunks).last = taken
      /\ chunks[1].first \in Nat /\ 1 <= chunks[1].first /\ chunks[1].first <= taken
  <2>1. nextSeq >= 1
    BY <1>1 DEF RunOK
  <2>2. /\ chunks[1].first \in Nat /\ chunks[1].last \in Nat /\ 1 <= chunks[1].first
        /\ chunks[1].first <= chunks[1].last /\ chunks[1].last <= taken /\ taken \in Nat
    BY <1>1, Buffered
  <2>3. chunks[1].first <= taken
    BY <2>2
  <2> QED
    BY <1>1, <2>1, <2>2, <2>3, Buffered
<1>3. MaxBytes \in Nat /\ TailMax \in Nat \ {0}
  BY StreamAssumption
<1>4. PICK a \in Int : a = Last(chunks).last - TailMax + 1
  BY <1>2, <1>3
<1>5. PICK h \in Nat : h = Head(chunks).first /\ 1 <= h /\ h <= taken
  BY <1>1, <1>2
<1>6. Max({h, a}) = IF h >= a THEN h ELSE a
  <2>1. CASE h >= a
    <3>1. {h, a} \in SUBSET Int /\ h \in {h, a} /\ \A y \in {h, a} : y <= h
      BY <2>1
    <3> QED
      BY <2>1, <3>1, MaxIs
  <2>2. CASE ~(h >= a)
    <3>1. {h, a} \in SUBSET Int /\ a \in {h, a} /\ \A y \in {h, a} : y <= a
      BY <2>2
    <3> QED
      BY <2>2, <3>1, MaxIs
  <2> QED
    BY <2>1, <2>2
<1>7. Max({h, a}) \in 1..taken
  BY <1>2, <1>3, <1>4, <1>5, <1>6
<1>8. PICK o : o = [kind |-> "output", next |-> Last(chunks).seq + 1, last |-> Last(chunks).last, first |-> Max({h, a})]
  OBVIOUS
<1>9. TailSlice = <<o>>
  BY <1>1, <1>4, <1>5, <1>8 DEF TailSlice
<1>10. Last(chunks).seq + 1 = nextSeq
  BY <1>2
<1>11. Piece(o, taken, nextSeq) /\ o.first = Max({h, a})
  BY <1>2, <1>3, <1>7, <1>8, <1>10 DEF Piece, Frames
<1> QED
  BY <1>7, <1>9, <1>11

\* The batches the handlers queue: events, events before output, output before events.
Events(frames, reserved) ==
    frames \in Seq(Frames) /\ \A i \in 1..Len(frames) : Quiet(frames[i], reserved)

LEMMA OneEvent ==
    ASSUME NEW r \in 1..MaxBytes + 1
    PROVE  Events(<<Event(r)>>, r) /\ Events(<<Exit(r)>>, r) /\ Events(<<>>, r)
<1>1. Event(r) \in Frames /\ Exit(r) \in Frames
  BY StreamAssumption DEF Event, Exit, Frames
<1>2. Quiet(Event(r), r) /\ Quiet(Exit(r), r)
  BY DEF Quiet, Event, Exit
<1>3. ASSUME NEW e \in Frames, Quiet(e, r) PROVE Events(<<e>>, r)
  BY <1>3 DEF Events
<1> QED
  BY <1>1, <1>2, <1>3 DEF Events

LEMMA EventsConcat ==
    ASSUME NEW r, NEW e, NEW f, Events(e, r), Events(f, r) PROVE Events(e \o f, r)
<1>1. e \in Seq(Frames) /\ f \in Seq(Frames) /\ Len(e) \in Nat /\ Len(f) \in Nat
  BY DEF Events
<1>2. /\ e \o f \in Seq(Frames) /\ Len(e \o f) = Len(e) + Len(f)
      /\ \A i \in 1..Len(e) + Len(f) : (e \o f)[i] = IF i <= Len(e) THEN e[i] ELSE f[i - Len(e)]
  BY <1>1, ConcatProperties
<1>3. ASSUME NEW i \in 1..Len(e \o f) PROVE Quiet((e \o f)[i], r)
  <2>1. i \in 1..Len(e) + Len(f)
    BY <1>2
  <2>2. CASE i <= Len(e)
    <3>1. i \in 1..Len(e) /\ (e \o f)[i] = e[i]
      BY <2>1, <2>2, <1>1, <1>2
    <3> QED
      BY <3>1 DEF Events
  <2>3. CASE i > Len(e)
    <3>1. i - Len(e) \in 1..Len(f) /\ ~(i <= Len(e))
      BY <2>1, <2>3, <1>1
    <3>2. (e \o f)[i] = f[i - Len(e)]
      BY <2>1, <3>1, <1>2
    <3> QED
      BY <3>1, <3>2 DEF Events
  <2> QED
    BY <2>1, <2>2, <2>3, <1>1
<1> QED
  BY <1>2, <1>3 DEF Events

LEMMA EventsAreABatch ==
    ASSUME NEW r, NEW e, Events(e, r), NEW t, NEW s PROVE Batch(e, 0, r, t, s)
  BY DEF Events, Batch

LEMMA EventsThenOutput ==
    ASSUME NEW r, NEW e, Events(e, r), NEW t, NEW s, NEW o, Piece(o, t, s)
    PROVE  \E k \in Nat :
              /\ k > 0 /\ k = Len(e \o <<o>>) /\ (e \o <<o>>)[k] = o
              /\ Batch(e \o <<o>>, k, r, t, s)
<1>1. e \in Seq(Frames) /\ <<o>> \in Seq(Frames) /\ Len(e) \in Nat /\ Len(<<o>>) = 1
  BY DEF Events, Piece
<1>2. /\ e \o <<o>> \in Seq(Frames) /\ Len(e \o <<o>>) = Len(e) + 1
      /\ \A i \in 1..Len(e) + 1 : (e \o <<o>>)[i] = IF i <= Len(e) THEN e[i] ELSE <<o>>[i - Len(e)]
  BY <1>1, ConcatProperties
<1>3. PICK k \in Nat : k = Len(e) + 1
  BY <1>1
<1>4. k > 0 /\ k \in 1..Len(e) + 1 /\ ~(k <= Len(e)) /\ k - Len(e) = 1
  BY <1>1, <1>3
<1>5. (e \o <<o>>)[k] = o
  BY <1>2, <1>4
<1>6. ASSUME NEW i \in 1..Len(e \o <<o>>), i # k PROVE Quiet((e \o <<o>>)[i], r)
  <2>1. i \in 1..Len(e) /\ i \in 1..Len(e) + 1
    BY <1>1, <1>2, <1>3, <1>6
  <2>2. (e \o <<o>>)[i] = e[i]
    BY <2>1, <1>1, <1>2
  <2> QED
    BY <2>1, <2>2 DEF Events
<1>7. Batch(e \o <<o>>, k, r, t, s)
  BY <1>2, <1>3, <1>4, <1>5, <1>6 DEF Batch
<1> QED
  BY <1>2, <1>3, <1>4, <1>5, <1>7

LEMMA OutputThenEvents ==
    ASSUME NEW r, NEW e, Events(e, r), NEW t, NEW s, NEW o, Piece(o, t, s)
    PROVE  Batch(<<o>> \o e, 1, r, t, s) /\ (<<o>> \o e)[1] = o /\ Len(<<o>> \o e) = Len(e) + 1
<1>1. e \in Seq(Frames) /\ <<o>> \in Seq(Frames) /\ Len(e) \in Nat /\ Len(<<o>>) = 1
  BY DEF Events, Piece
<1>2. /\ <<o>> \o e \in Seq(Frames) /\ Len(<<o>> \o e) = 1 + Len(e)
      /\ \A i \in 1..1 + Len(e) : (<<o>> \o e)[i] = IF i <= 1 THEN <<o>>[i] ELSE e[i - 1]
  BY <1>1, ConcatProperties
<1>3. (<<o>> \o e)[1] = o
  BY <1>1, <1>2
<1>4. ASSUME NEW i \in 1..Len(<<o>> \o e), i # 1 PROVE Quiet((<<o>> \o e)[i], r)
  <2>1. i - 1 \in 1..Len(e) /\ i \in 1..1 + Len(e) /\ ~(i <= 1)
    BY <1>1, <1>2, <1>4
  <2>2. (<<o>> \o e)[i] = e[i - 1]
    BY <2>1, <1>2
  <2> QED
    BY <2>1, <2>2 DEF Events
<1> QED
  BY <1>1, <1>2, <1>3, <1>4 DEF Batch

LEMMA StatusAreEvents ==
    ASSUME NEW c, conn[c] \in Conns, NEW changed
    PROVE  Events(StatusEvents(c, changed), conn[c].reserved)
<1> DEFINE r == conn[c].reserved
<1>1. r \in 1..MaxBytes + 1
  BY DEF Conns
<1>2. /\ Events(IF changed \/ (~Live /\ ~conn[c].told) THEN <<Event(r)>> ELSE <<>>, r)
      /\ Events(IF ~Live /\ ~conn[c].told THEN <<Exit(r)>> ELSE <<>>, r)
  BY <1>1, OneEvent
<1> QED
  BY <1>2, EventsConcat DEF StatusEvents
-------------------------------------------------------------------------------
LastOf(cn) == Max({cn.got} \cup {cn.pending[i].last : i \in DOMAIN cn.pending})

\* What InOrder says of a step that makes new out of the connection cn.
Continued(cn, new) ==
    LastOf(new) # LastOf(cn) =>
        LET frame == Last(new.pending)
            first == IF frame.kind = "output" THEN frame.first
                     ELSE new.pending[Len(new.pending) - 1].first
        IN  \/ first = LastOf(cn) + 1
            \/ LastOf(cn) + 1 < first /\ first = chunks[1].first

LEMMA LastIs ==
    ASSUME NEW cn, cn.pending \in Seq(Frames), cn.got \in Nat, NEW b \in Nat, IsLast(cn, b)
    PROVE  LastOf(cn) = b
<1> DEFINE S == {cn.got} \cup {cn.pending[i].last : i \in DOMAIN cn.pending}
<1>1. DOMAIN cn.pending = 1..Len(cn.pending)
  OBVIOUS
<1>2. b \in S
  BY <1>1 DEF IsLast
<1>3. ASSUME NEW y \in S PROVE y \in Int /\ y <= b
  <2>1. CASE y = cn.got
    BY <2>1 DEF IsLast
  <2>2. ASSUME NEW i \in 1..Len(cn.pending), y = cn.pending[i].last PROVE y \in Int /\ y <= b
    <3>1. cn.pending[i] \in Frames
      OBVIOUS
    <3> QED
      BY <3>1, <2>2, FrameNumbers DEF IsLast
  <2> QED
    BY <2>1, <2>2, <1>1
<1> HIDE DEF S
<1>4. Max(S) = b
  BY <1>2, <1>3, MaxIs
<1> QED
  BY <1>4 DEF LastOf, S

\* A slice from the reservation on continues the stream, or skips what has been evicted.
LEMMA Beyond ==
    ASSUME Inv, NEW cn, NEW b \in 0..taken, IsAt(cn, chunks, b),
           cn.reserved \in Nat, NEW first, Continues(first, cn.reserved)
    PROVE  b < first /\ (first = b + 1 \/ (b + 1 < first /\ first = chunks[1].first))
<1>1. PICK m \in 1..Len(chunks) :
        /\ first = chunks[m].first /\ chunks[m].seq >= cn.reserved
        /\ m = 1 \/ (m - 1 \in 1..Len(chunks) /\ chunks[m - 1].seq = cn.reserved - 1)
  BY DEF Continues
<1>2. b \in Nat /\ first \in Nat /\ b < first
  <2>1. taken \in Nat /\ chunks[m].first \in Nat
    BY Buffered
  <2> QED
    BY <1>1, <2>1 DEF IsAt
<1>3. CASE m = 1
  BY <1>1, <1>2, <1>3
<1>4. CASE m # 1
  <2>1. PICK j \in 1..Len(chunks) : j = m - 1 /\ chunks[j].seq = cn.reserved - 1
    BY <1>1, <1>4
  <2>2. chunks[j].last = b
    BY <2>1 DEF IsAt
  <2>3. j < Len(chunks) /\ m = j + 1
    BY <2>1, Buffered
  <2>4. chunks[j + 1].first = chunks[j].last + 1
    BY <2>3 DEF Inv, RunOK
  <2> QED
    BY <2>2, <2>3, <2>4, <1>1, <1>2
<1> QED
  BY <1>3, <1>4

LEMMA QueueFramesIs ==
    ASSUME NEW c, conn[c] \in Conns, NEW frames, NEW told \in BOOLEAN, NEW new,
           new = [QueueFrames(c, frames) EXCEPT !.told = told] \/ (new = QueueFrames(c, frames) /\ told = conn[c].told)
    PROVE  /\ Queued(conn[c], frames, new)
           /\ new.phase = conn[c].phase
           /\ new.pending \in Seq(Frames) /\ new.reserved \in 1..MaxBytes + 1 => new \in Conns
<1>1. PICK p, r :
        /\ p = conn[c].pending \o frames
        /\ r = Max({conn[c].reserved} \cup {frames[i].next : i \in DOMAIN frames})
  OBVIOUS
<1>2. new = [conn[c] EXCEPT !.pending = p, !.reserved = r, !.told = told]
  BY <1>1 DEF QueueFrames, Conns
<1>3. /\ new.pending = p /\ new.reserved = r /\ new.told = told /\ new.phase = conn[c].phase
      /\ new.got = conn[c].got /\ new.delivered = conn[c].delivered
  BY <1>2 DEF Conns
<1>4. p \in Seq(Frames) /\ r \in 1..MaxBytes + 1 => new \in Conns
  BY <1>2 DEF Conns
<1> QED
  BY <1>1, <1>3, <1>4 DEF Queued

\* Sending to a connection that is open.
LEMMA SendKeeps ==
    ASSUME Inv, NEW c \in Clients, Open(c),
           NEW frames, NEW k, Batch(frames, k, conn[c].reserved, taken, nextSeq),
           k > 0 => Continues(frames[k].first, conn[c].reserved) /\ k \in {Len(frames), Len(frames) - 1},
           c \in Viewers => k \in {0, Len(frames)},
           NEW told \in BOOLEAN, NEW new,
           new = [QueueFrames(c, frames) EXCEPT !.told = told] \/ (new = QueueFrames(c, frames) /\ told = conn[c].told)
    PROVE  /\ new \in Conns /\ new.phase = "open"
           /\ StreamOK(new, chunks, taken, nextSeq)
           /\ c \in Viewers => Window(new)
           /\ Continued(conn[c], new)
<1> DEFINE cn == conn[c]
<1>1. /\ cn \in Conns /\ StreamOK(cn, chunks, taken, nextSeq) /\ (c \in Viewers => Window(cn))
      /\ RunOK(chunks, taken, nextSeq) /\ cn.reserved \in Nat /\ cn.got \in Nat /\ cn.pending \in Seq(Frames)
  <2>1. cn \in Conns
    BY DEF Inv, TypeOK
  <2>2. ConnOK(c) /\ RunOK(chunks, taken, nextSeq)
    BY DEF Inv
  <2> QED
    BY <2>1, <2>2, StreamAssumption DEF ConnOK, Conns
<1>2. PICK b \in 0..taken : IsLast(cn, b) /\ IsAt(cn, chunks, b)
  BY <1>1 DEF StreamOK
<1>3. taken \in Nat /\ b \in Nat /\ nextSeq \in 1..MaxBytes + 1
  BY <1>1, <1>2 DEF RunOK, Inv, TypeOK
<1>4. k > 0 => b < frames[k].first /\ (frames[k].first = b + 1 \/ (b + 1 < frames[k].first /\ frames[k].first = chunks[1].first))
  BY <1>1, <1>2, Beyond
<1>5. /\ Queued(cn, frames, new) /\ new.phase = cn.phase
      /\ new.pending \in Seq(Frames) /\ new.reserved \in 1..MaxBytes + 1 => new \in Conns
  BY <1>1, QueueFramesIs
<1>6. /\ new.reserved = IF k = 0 THEN cn.reserved ELSE nextSeq
      /\ new.pending \in Seq(Frames)
      /\ IsLast(new, IF k = 0 THEN b ELSE taken)
      /\ StreamOK(new, chunks, taken, nextSeq)
      /\ Window(cn) /\ k \in {0, Len(frames)} => Window(new)
  <2>1. cn.reserved <= nextSeq /\ QueueOK(cn)
    BY <1>1 DEF StreamOK
  <2>2. k > 0 => b < frames[k].first
    BY <1>4
  <2> QED
    BY <2>1, <2>2, <1>1, <1>2, <1>5, QueueKeeps, ZenonT(60)
<1>7. new \in Conns /\ new.phase = "open"
  BY <1>1, <1>3, <1>5, <1>6 DEF Conns, Open
<1>8. Continued(cn, new)
  <2>1. LastOf(cn) = b
    BY <1>1, <1>2, <1>3, LastIs
  <2>2. LastOf(new) = IF k = 0 THEN b ELSE taken
    <3>1. new.got \in Nat
      BY <1>1, <1>5 DEF Queued
    <3> QED
      BY <3>1, <1>3, <1>6, LastIs
  <2>3. CASE k = 0
    BY <2>1, <2>2, <2>3 DEF Continued
  <2>4. CASE k > 0
    <3>1. /\ Len(cn.pending) \in Nat /\ Len(frames) \in Nat /\ k \in 1..Len(frames)
          /\ Len(new.pending) = Len(cn.pending) + Len(frames)
          /\ \A i \in 1..Len(cn.pending) + Len(frames) :
                new.pending[i] = IF i <= Len(cn.pending) THEN cn.pending[i] ELSE frames[i - Len(cn.pending)]
      <4>1. frames \in Seq(Frames) /\ k \in 0..Len(frames) /\ new.pending = cn.pending \o frames
        BY <1>5 DEF Batch, Queued
      <4> QED
        BY <4>1, <2>4, <1>1, ConcatProperties
    <3>2. ASSUME NEW i \in 1..Len(frames) PROVE new.pending[Len(cn.pending) + i] = frames[i]
      <4>1. /\ Len(cn.pending) + i \in 1..Len(cn.pending) + Len(frames)
            /\ ~(Len(cn.pending) + i <= Len(cn.pending)) /\ (Len(cn.pending) + i) - Len(cn.pending) = i
        <5>1. PICK p \in Nat, f \in Nat : p = Len(cn.pending) /\ f = Len(frames)
          BY <3>1
        <5>2. i \in 1..f
          BY <5>1
        <5>3. p + i \in 1..p + f /\ ~(p + i <= p) /\ (p + i) - p = i
          BY <5>2
        <5> QED
          BY <5>1, <5>3
      <4> QED
        BY <4>1, <3>1
    <3>3. frames[k].kind = "output"
      BY <2>4 DEF Batch, Piece
    <3>4. Last(new.pending) = frames[Len(frames)]
      <4>1. Len(frames) \in 1..Len(frames)
        BY <3>1
      <4>2. Last(new.pending) = new.pending[Len(cn.pending) + Len(frames)]
        BY <3>1 DEF Last
      <4> QED
        BY <4>1, <4>2, <3>2
    <3>5. CASE k = Len(frames)
      BY <3>3, <3>4, <3>5, <2>1, <1>4, <2>4 DEF Continued
    <3>6. CASE k = Len(frames) - 1
      <4>1. frames[Len(frames)].kind # "output"
        <5>1. Len(frames) \in 1..Len(frames) /\ Len(frames) # k
          BY <3>1, <3>6
        <5> QED
          BY <5>1 DEF Batch, Quiet
      <4>2. new.pending[Len(new.pending) - 1] = frames[k]
        <5>1. Len(new.pending) - 1 = Len(cn.pending) + k
          BY <3>1, <3>6
        <5> QED
          BY <5>1, <3>1, <3>2
      <4> QED
        BY <4>1, <4>2, <3>4, <2>1, <1>4, <2>4 DEF Continued
    <3> QED
      BY <3>5, <3>6, <2>4
  <2> QED
    BY <2>3, <2>4 DEF Batch
<1> QED
  BY <1>1, <1>6, <1>7, <1>8
-------------------------------------------------------------------------------
\* What a send leaves of the connection c.
KeptBy(c, new) ==
    /\ new \in Conns /\ new.phase = "open"
    /\ StreamOK(new, chunks, taken, nextSeq)
    /\ c \in Viewers => Window(new)
    /\ Continued(conn[c], new)

LEMMA ConnFacts ==
    ASSUME Inv, NEW c \in Clients
    PROVE  /\ conn[c] \in Conns /\ ConnOK(c)
           /\ conn[c].reserved \in 1..MaxBytes + 1 /\ conn[c].reserved \in Nat
           /\ Open(c) => conn[c].reserved \in 1..nextSeq
<1>1. conn[c] \in Conns /\ ConnOK(c) /\ nextSeq \in Nat
  BY StreamAssumption DEF Inv, TypeOK
<1>2. conn[c].reserved \in 1..MaxBytes + 1 /\ conn[c].reserved \in Nat
  BY <1>1, StreamAssumption DEF Conns
<1>3. Open(c) => conn[c].reserved <= nextSeq
  BY <1>1 DEF ConnOK, StreamOK
<1> QED
  BY <1>1, <1>2, <1>3, StreamAssumption

LEMMA EventsKept ==
    ASSUME Inv, NEW c \in Clients, Open(c),
           NEW frames, Events(frames, conn[c].reserved), NEW told \in BOOLEAN, NEW new,
           new = [QueueFrames(c, frames) EXCEPT !.told = told] \/ (new = QueueFrames(c, frames) /\ told = conn[c].told)
    PROVE  KeptBy(c, new)
<1>1. PICK k : k = 0
  OBVIOUS
<1>2. Batch(frames, k, conn[c].reserved, taken, nextSeq)
  BY <1>1, EventsAreABatch
<1>3. ~(k > 0) /\ k \in {0, Len(frames)}
  BY <1>1
<1> QED
  BY <1>2, <1>3, SendKeeps DEF KeptBy

LEMMA ViewerSendKept ==
    ASSUME Inv, NEW c \in Viewers, Open(c), NEW changed
    PROVE  KeptBy(c, ViewerSend(c, changed))
<1>1. c \in Clients /\ conn[c] \in Conns /\ conn[c].reserved \in 1..nextSeq
  BY ConnFacts DEF Clients
<1> DEFINE E == StatusEvents(c, changed)
           S == SliceFromSequence(conn[c].reserved)
<1>2. Events(E, conn[c].reserved)
  BY <1>1, StatusAreEvents
<1>3. Live \in BOOLEAN /\ ViewerSend(c, changed) = [QueueFrames(c, E \o S) EXCEPT !.told = ~Live]
  BY DEF ViewerSend, Live
<1> HIDE DEF E, S
<1>4. CASE S = <<>>
  <2>1. E \o S = E
    BY <1>2, <1>4, ConcatEmptySeq DEF Events
  <2> QED
    BY <2>1, <1>1, <1>2, <1>3, EventsKept
<1>5. CASE S # <<>>
  <2>1. PICK o : S = <<o>> /\ Piece(o, taken, nextSeq) /\ Continues(o.first, conn[c].reserved)
    BY <1>1, <1>5, SliceIs DEF S
  <2>2. PICK k \in Nat : /\ k > 0 /\ k = Len(E \o S) /\ (E \o S)[k] = o
                         /\ Batch(E \o S, k, conn[c].reserved, taken, nextSeq)
    BY <2>1, <1>2, EventsThenOutput
  <2> QED
    BY <2>1, <2>2, <1>1, <1>3, SendKeeps DEF KeptBy
<1> QED
  BY <1>4, <1>5

LEMMA DriverSendKept ==
    ASSUME Inv, Open(Driver), NEW output \in {<<>>, FlushOutput}
    PROVE  KeptBy(Driver, DriverSend(output))
<1>1. /\ Driver \in Clients /\ Driver \notin Viewers /\ conn[Driver] \in Conns
      /\ conn[Driver].reserved \in 1..nextSeq /\ conn[Driver].reserved \in 1..MaxBytes + 1
  BY StreamAssumption, ConnFacts DEF Clients
<1> DEFINE E == IF ~Live /\ ~conn[Driver].told THEN <<Exit(conn[Driver].reserved)>> ELSE <<>>
<1>2. Events(E, conn[Driver].reserved) /\ E \in Seq(Frames) /\ Len(E) \in {0, 1}
  <2>1. Events(E, conn[Driver].reserved)
    BY <1>1, OneEvent
  <2> QED
    BY <2>1 DEF Events
<1>3. Live \in BOOLEAN /\ DriverSend(output) = [QueueFrames(Driver, output \o E) EXCEPT !.told = ~Live]
  BY DEF DriverSend, Live
<1> HIDE DEF E
<1>4. CASE output = <<>>
  <2>1. output \o E = E
    BY <1>2, <1>4, ConcatEmptySeq
  <2> QED
    BY <2>1, <1>1, <1>2, <1>3, EventsKept
<1>5. CASE output # <<>>
  <2>1. PICK o : output = <<o>> /\ Piece(o, taken, nextSeq) /\ Continues(o.first, conn[Driver].reserved)
    BY <1>1, <1>5, SliceIs DEF FlushOutput
  <2>2. Batch(output \o E, 1, conn[Driver].reserved, taken, nextSeq) /\ (output \o E)[1] = o /\ Len(output \o E) = Len(E) + 1
    BY <2>1, <1>2, OutputThenEvents
  <2>3. 1 \in {Len(output \o E), Len(output \o E) - 1}
    BY <2>2, <1>2
  <2> QED
    BY <2>1, <2>2, <2>3, <1>1, <1>3, SendKeeps DEF KeptBy
<1> QED
  BY <1>4, <1>5

LEMMA CommandKept ==
    ASSUME Inv, NEW c \in Viewers, Open(c)
    PROVE  /\ KeptBy(c, QueueFrames(c, <<Event(conn[c].reserved)>>))
           /\ KeptBy(c, [QueueFrames(c, StatusEvents(c, TRUE)) EXCEPT !.told = ~Live])
<1>1. c \in Clients /\ conn[c] \in Conns /\ conn[c].reserved \in 1..MaxBytes + 1
  BY ConnFacts DEF Clients
<1>2. /\ Events(<<Event(conn[c].reserved)>>, conn[c].reserved)
      /\ Events(StatusEvents(c, TRUE), conn[c].reserved)
  BY <1>1, OneEvent, StatusAreEvents
<1>3. Live \in BOOLEAN /\ conn[c].told \in BOOLEAN
  BY <1>1 DEF Live, Conns
<1>4. KeptBy(c, QueueFrames(c, <<Event(conn[c].reserved)>>))
  BY <1>1, <1>2, <1>3, EventsKept
<1>5. KeptBy(c, [QueueFrames(c, StatusEvents(c, TRUE)) EXCEPT !.told = ~Live])
  BY <1>1, <1>2, <1>3, EventsKept
<1> QED
  BY <1>4, <1>5

\* A write that completes.
LEMMA ReceivedKept ==
    ASSUME Inv, NEW c \in Clients, Open(c), conn[c].pending # <<>>
    PROVE  KeptBy(c, Received(c))
<1>1. /\ conn[c] \in Conns /\ StreamOK(conn[c], chunks, taken, nextSeq)
      /\ c \in Viewers => Window(conn[c])
      /\ conn[c].pending \in Seq(Frames) /\ conn[c].got \in Nat
      /\ conn[c].reserved \in 1..MaxBytes + 1
  BY ConnFacts, StreamAssumption DEF ConnOK, Conns
<1>2. PICK p, d, r, g, new :
        /\ p = Tail(conn[c].pending) /\ d = Head(conn[c].pending).next
        /\ r = Max({conn[c].reserved, Head(conn[c].pending).next})
        /\ g = IF Head(conn[c].pending).first <= Head(conn[c].pending).last
               THEN Head(conn[c].pending).last ELSE conn[c].got
        /\ new = Received(c)
  OBVIOUS
<1>3. new = [conn[c] EXCEPT !.pending = p, !.delivered = d, !.reserved = r, !.got = g]
  BY <1>2 DEF Received
<1>4. /\ new.pending = p /\ new.delivered = d /\ new.reserved = r /\ new.got = g
      /\ new.phase = conn[c].phase
  BY <1>1, <1>3 DEF Conns
<1>5. /\ new.reserved = conn[c].reserved
      /\ new.pending \in Seq(Frames)
      /\ StreamOK(new, chunks, taken, nextSeq)
      /\ \A b \in Nat : IsLast(conn[c], b) => IsLast(new, b)
      /\ Window(conn[c]) => Window(new)
  BY <1>1, <1>2, <1>4, ReceivedKeeps, ZenonT(60)
<1>6. Head(conn[c].pending) \in Frames
  BY <1>1
<1>7. d \in 1..MaxBytes + 1 /\ g \in 0..MaxBytes /\ g \in Nat
  BY <1>1, <1>2, <1>6, StreamAssumption, SMTT(60) DEF Frames, Conns
<1>8. new \in Conns
  <2>1. p \in Seq(Frames) /\ r \in 1..MaxBytes + 1
    BY <1>1, <1>4, <1>5
  <2> QED
    BY <2>1, <1>1, <1>3, <1>7 DEF Conns
<1>9. Continued(conn[c], new)
  <2>1. PICK b \in 0..taken : IsLast(conn[c], b)
    BY <1>1 DEF StreamOK
  <2>2. b \in Nat
    BY <2>1, StreamAssumption DEF Inv, TypeOK
  <2>3. LastOf(conn[c]) = b
    BY <2>1, <2>2, <1>1, LastIs
  <2>4. LastOf(new) = b
    <3>1. IsLast(new, b) /\ new.pending \in Seq(Frames) /\ new.got \in Nat
      BY <2>1, <2>2, <1>4, <1>5, <1>7
    <3> QED
      BY <3>1, <2>2, LastIs
  <2> QED
    BY <2>3, <2>4 DEF Continued
<1> QED
  BY <1>1, <1>2, <1>4, <1>5, <1>8, <1>9 DEF KeptBy, Open

LEMMA NewConnFacts ==
    /\ NewConn \in Conns
    /\ NewConn.phase = "idle" /\ NewConn.reserved = 1 /\ NewConn.delivered = 1 /\ NewConn.told = FALSE
    /\ NewConn.pending = <<>> /\ NewConn.got = 0
    /\ [NewConn EXCEPT !.phase = "closed"] \in Conns /\ [NewConn EXCEPT !.phase = "closed"].phase = "closed"
<1>1. PICK e \in Seq(Frames) : e = <<>>
  BY EmptySeq
<1>2. NewConn = [phase |-> "idle", reserved |-> 1, delivered |-> 1, told |-> FALSE, pending |-> e, got |-> 0]
  BY <1>1 DEF NewConn
<1>3. PICK new : new = NewConn
  OBVIOUS
<1>4. 1 \in 1..MaxBytes + 1 /\ 0 \in 0..MaxBytes
  BY StreamAssumption
<1>5. new \in Conns
  BY <1>2, <1>3, <1>4 DEF Conns
<1>6. [new EXCEPT !.phase = "closed"] \in Conns /\ [new EXCEPT !.phase = "closed"].phase = "closed"
  BY <1>5 DEF Conns
<1>7. /\ new.phase = "idle" /\ new.reserved = 1 /\ new.delivered = 1
      /\ new.pending = e /\ new.got = 0
  BY <1>2, <1>3
<1>8. new.told = FALSE
  BY <1>2, <1>3
<1> QED
  BY <1>1, <1>3, <1>5, <1>6, <1>7, <1>8

\* A connection that has been queued nothing yet.
Fresh(cn, cs, t, s) ==
    /\ cn \in Conns /\ RunOK(cs, t, s) /\ cn.reserved <= s
    /\ QueueOK(cn) /\ Window(cn) /\ IsLast(cn, 0) /\ IsAt(cn, cs, 0)

LEMMA FreshKeeps ==
    ASSUME NEW cn, NEW cs, NEW t, NEW s, Fresh(cn, cs, t, s),
           NEW frames, NEW k, Batch(frames, k, cn.reserved, t, s),
           k \in {0, Len(frames)}, k > 0 => 0 < frames[k].first,
           NEW new, Queued(cn, frames, new)
    PROVE  /\ new.reserved \in {cn.reserved, s}
           /\ new.pending \in Seq(Frames)
           /\ StreamOK(new, cs, t, s) /\ Window(new)
<1>1. PICK b \in 0..t : b = 0
  BY DEF Fresh, RunOK
<1>2. /\ cn \in Conns /\ RunOK(cs, t, s) /\ cn.reserved <= s
      /\ QueueOK(cn) /\ Window(cn) /\ IsLast(cn, b) /\ IsAt(cn, cs, b)
  BY <1>1 DEF Fresh
<1>3. k > 0 => b < frames[k].first
  BY <1>1
<1>4. /\ new.reserved = IF k = 0 THEN cn.reserved ELSE s
      /\ new.pending \in Seq(Frames)
      /\ IsLast(new, IF k = 0 THEN b ELSE t)
      /\ StreamOK(new, cs, t, s)
      /\ Window(cn) /\ k \in {0, Len(frames)} => Window(new)
  BY <1>2, <1>3, QueueKeeps
<1> QED
  BY <1>2, <1>4

\* An observer that is accepted starts with events and the tail of the buffer.
LEMMA OpensQueue ==
    ASSUME Inv, NEW c \in Viewers, conn[c].phase = "idle", NEW first,
           first = TailSlice \/ first = <<Event(1)>>
    PROVE  /\ Fresh(conn[c], chunks, taken, nextSeq)
           /\ \E k : /\ Batch(StatusEvents(c, TRUE) \o first, k, conn[c].reserved, taken, nextSeq)
                     /\ k \in {0, Len(StatusEvents(c, TRUE) \o first)}
                     /\ k > 0 => 0 < (StatusEvents(c, TRUE) \o first)[k].first
<1>1. conn[c] = NewConn /\ conn[c] \in Conns /\ RunOK(chunks, taken, nextSeq) /\ taken \in Nat /\ nextSeq \in 1..MaxBytes + 1
  BY ConnFacts DEF ConnOK, Clients, Inv, RunOK, TypeOK
<1> DEFINE cn == conn[c]
           E == StatusEvents(c, TRUE)
<1>2. /\ cn.reserved = 1 /\ cn.delivered = 1 /\ cn.got = 0 /\ cn.pending = <<>> /\ 1 \in 1..MaxBytes + 1
      /\ Len(cn.pending) = 0 /\ 1 <= nextSeq
  BY <1>1, NewConnFacts, StreamAssumption
<1>3. cn.reserved <= nextSeq /\ QueueOK(cn) /\ Window(cn) /\ 0 \in 0..taken /\ IsLast(cn, 0)
  BY <1>1, <1>2 DEF QueueOK, Window, IsLast
<1>4. IsAt(cn, chunks, 0)
  <2>1. ASSUME NEW i \in 1..Len(chunks) PROVE 0 < chunks[i].first /\ ~(chunks[i].seq = 1 - 1)
    BY <1>1, Buffered DEF RunOK
  <2> QED
    BY <2>1, <1>2 DEF IsAt
<1>5. Events(E, 1)
  BY <1>1, <1>2, StatusAreEvents
<1> HIDE DEF E
<1>6. PICK k : /\ Batch(E \o first, k, 1, taken, nextSeq) /\ k \in {0, Len(E \o first)}
               /\ k > 0 => 0 < (E \o first)[k].first
  <2>1. CASE first # <<>> /\ first = TailSlice
    <3>1. PICK o : first = <<o>> /\ Piece(o, taken, nextSeq) /\ 0 < o.first
      BY <2>1, TailIs
    <3>2. PICK k \in Nat : /\ k > 0 /\ k = Len(E \o <<o>>) /\ (E \o <<o>>)[k] = o
                           /\ Batch(E \o <<o>>, k, 1, taken, nextSeq)
      BY <3>1, <1>5, EventsThenOutput
    <3> QED
      BY <3>1, <3>2, Zenon
  <2>2. CASE first = <<>> \/ first = <<Event(1)>>
    <3>1. Events(first, 1)
      BY <2>2, <1>2, OneEvent
    <3>2. Batch(E \o first, 0, 1, taken, nextSeq)
      BY <3>1, <1>5, EventsConcat, EventsAreABatch
    <3>3. ~(0 > 0)
      OBVIOUS
    <3> QED
      BY <3>2, <3>3
  <2> QED
    BY <2>1, <2>2, <1>2
<1>7. Fresh(cn, chunks, taken, nextSeq)
  BY <1>1, <1>3, <1>4 DEF Fresh
<1> QED
  BY <1>2, <1>6, <1>7 DEF E

LEMMA OpensKept ==
    ASSUME Inv, NEW c \in Viewers, conn[c].phase = "idle", Fresh(conn[c], chunks, taken, nextSeq),
           NEW frames, NEW k, Batch(frames, k, conn[c].reserved, taken, nextSeq),
           k \in {0, Len(frames)}, k > 0 => 0 < frames[k].first,
           NEW new, new = [QueueFrames(c, frames) EXCEPT !.phase = "open", !.told = ~Live]
    PROVE  /\ new \in Conns /\ new.phase = "open"
           /\ StreamOK(new, chunks, taken, nextSeq) /\ Window(new)
<1> DEFINE cn == conn[c]
<1>1. cn \in Conns /\ cn.reserved \in 1..MaxBytes + 1 /\ nextSeq \in 1..MaxBytes + 1
  BY DEF Fresh, Conns, Inv, TypeOK
<1>2. PICK p, r : /\ p = cn.pending \o frames
                  /\ r = Max({cn.reserved} \cup {frames[i].next : i \in DOMAIN frames})
  OBVIOUS
<1>3. new = [cn EXCEPT !.pending = p, !.reserved = r, !.phase = "open", !.told = ~Live]
  BY <1>1, <1>2 DEF QueueFrames, Conns
<1>4. /\ new.pending = p /\ new.reserved = r /\ new.got = cn.got /\ new.delivered = cn.delivered
      /\ new.phase = "open"
  BY <1>1, <1>3 DEF Conns
<1>5. Queued(cn, frames, new)
  BY <1>2, <1>4 DEF Queued
<1>6. /\ new.reserved \in {cn.reserved, nextSeq}
      /\ new.pending \in Seq(Frames)
      /\ StreamOK(new, chunks, taken, nextSeq) /\ Window(new)
  <2>1. ASSUME NEW x, Queued(cn, frames, x)
        PROVE  /\ x.reserved \in {cn.reserved, nextSeq}
               /\ x.pending \in Seq(Frames)
               /\ StreamOK(x, chunks, taken, nextSeq) /\ Window(x)
    BY <2>1, FreshKeeps, Zenon
  <2> QED
    BY <2>1, <1>5
<1>7. p \in Seq(Frames) /\ r \in 1..MaxBytes + 1
  BY <1>1, <1>4, <1>6
<1>8. new \in Conns
  BY <1>1, <1>3, <1>7 DEF Conns, Live
<1> QED
  BY <1>4, <1>6, <1>8

\* The remote controller starts after what was read so far.
LEMMA DriverOpensKept ==
    ASSUME Inv, NEW p, p = <<Event(nextSeq)>>, NEW new,
           new = [NewConn EXCEPT !.phase = "open", !.reserved = nextSeq, !.got = taken, !.pending = p]
    PROVE  new \in Conns /\ new.phase = "open" /\ StreamOK(new, chunks, taken, nextSeq)
<1>1. /\ RunOK(chunks, taken, nextSeq) /\ taken \in 0..MaxBytes /\ nextSeq \in 1..MaxBytes + 1
      /\ taken \in Nat /\ nextSeq \in Nat
  BY StreamAssumption DEF Inv, RunOK, TypeOK
<1>2. p \in Seq(Frames) /\ Events(p, nextSeq)
  BY <1>1, OneEvent DEF Events
<1>3. Len(p) = 1 /\ Quiet(p[1], nextSeq)
  <2>1. Len(p) = 1
    OBVIOUS
  <2> QED
    BY <2>1, <1>2 DEF Events
<1>4. NewConn \in Conns
  BY NewConnFacts
<1>5. new \in Conns
  BY <1>1, <1>2, <1>4 DEF Conns
<1>6. new.pending = p /\ new.reserved = nextSeq /\ new.got = taken /\ new.phase = "open"
  BY <1>4 DEF Conns
<1>7. QueueOK(new)
  <2>1. \A i \in 1..Len(p) : i = 1
    BY <1>3
  <2>2. /\ p[1].next <= nextSeq /\ p[1].kind # "output" /\ p[1].first = 1 /\ p[1].last = 0
    BY <1>1, <1>3 DEF Quiet
  <2> QED
    BY <2>1, <2>2, <1>6 DEF QueueOK
<1>8. IsLast(new, taken)
  <2>1. \A i \in 1..Len(p) : p[i].last <= taken
    BY <1>1, <1>3 DEF Quiet
  <2> QED
    BY <2>1, <1>1, <1>6 DEF IsLast
<1>9. IsAt(new, chunks, taken)
  <2>1. ASSUME NEW k \in 1..Len(chunks)
        PROVE  /\ chunks[k].seq >= nextSeq => taken < chunks[k].first
               /\ chunks[k].seq = nextSeq - 1 => taken = chunks[k].last
    <3>1. chunks[k].seq = nextSeq - 1 - Len(chunks) + k /\ Len(chunks) \in Nat /\ Last(chunks).last = taken
      BY Buffered
    <3>2. ~(chunks[k].seq >= nextSeq) /\ (chunks[k].seq = nextSeq - 1 => k = Len(chunks))
      BY <3>1, <1>1
    <3> QED
      BY <3>1, <3>2 DEF Last
  <2> QED
    BY <2>1, <1>6 DEF IsAt
<1> QED
  BY <1>1, <1>5, <1>6, <1>7, <1>8, <1>9 DEF StreamOK
-------------------------------------------------------------------------------
\* What a step does to a connection, and to all of the state.
ConnGood(c) ==
    /\ conn'[c] \in Conns /\ ConnOK(c)'
    /\ Open(c) /\ Open(c)' => Continued(conn[c], conn'[c])

Good ==
    /\ Inv'
    /\ \A c \in Clients : Open(c) /\ Open(c)' => Continued(conn[c], conn'[c])

\* The type invariant without the buffer and the connections.
TypeRest ==
    /\ written \in 0..MaxBytes /\ taken \in 0..written
    /\ child \in {"running", "ended", "reaped"}
    /\ io \in [by : Waiters \cup {"timer", "nobody"}, at : {"idle", "read", "reap", "notify"}]
    /\ armed \in SUBSET Waiters /\ ready \in SUBSET Waiters
    /\ control \in {"none", "local", "driver"}

LEMMA SameConn ==
    ASSUME Inv, NEW c \in Clients, UNCHANGED <<chunks, taken, nextSeq>>, conn'[c] = conn[c]
    PROVE  ConnGood(c)
<1>1. conn[c] \in Conns /\ ConnOK(c)
  BY ConnFacts
<1>2. ConnOK(c)'
  BY <1>1 DEF ConnOK, Open
<1> QED
  BY <1>1, <1>2 DEF ConnGood, Continued

LEMMA KeptConn ==
    ASSUME Inv, NEW c \in Clients, UNCHANGED <<chunks, taken, nextSeq>>, KeptBy(c, conn'[c])
    PROVE  ConnGood(c)
  BY DEF ConnGood, KeptBy, ConnOK, Open

LEMMA ClosedConn ==
    ASSUME Inv, NEW c \in Clients, conn'[c] = [NewConn EXCEPT !.phase = "closed"]
    PROVE  ConnGood(c)
<1>1. conn'[c] \in Conns /\ conn'[c].phase = "closed"
  BY NewConnFacts
<1> QED
  BY <1>1 DEF ConnGood, ConnOK, Open

LEMMA OpenedConn ==
    ASSUME Inv, NEW c \in Clients, UNCHANGED <<chunks, taken, nextSeq>>, conn[c].phase = "idle",
           conn'[c] \in Conns, conn'[c].phase = "open",
           StreamOK(conn'[c], chunks, taken, nextSeq), c \in Viewers => Window(conn'[c])
    PROVE  ConnGood(c)
  BY DEF ConnGood, ConnOK, Open

\* The parts of a step that leaves the buffer alone.
LEMMA Assemble ==
    ASSUME Inv, TypeRest', DriverWaits', UNCHANGED <<chunks, taken, nextSeq>>,
           conn' = [c \in Clients |-> conn'[c]], \A c \in Clients : ConnGood(c)
    PROVE  Good
<1>1. conn' \in [Clients -> Conns]
  BY DEF ConnGood
<1>2. TypeOK' /\ DriverWaits'
  BY <1>1 DEF Inv, TypeOK, TypeRest
<1>3. RunOK(chunks, taken, nextSeq)' /\ (SizeBytes(chunks) <= Capacity)'
  BY DEF Inv
<1>4. \A c \in Clients : ConnOK(c)'
  BY DEF ConnGood
<1> QED
  BY <1>2, <1>3, <1>4 DEF Inv, Good, ConnGood

LEMMA ConnsAreAFunction == Inv => conn = [c \in Clients |-> conn[c]]
  BY DEF Inv, TypeOK

LEMMA AllSame ==
    ASSUME Inv, TypeRest', DriverWaits', UNCHANGED <<chunks, taken, nextSeq, conn>> PROVE Good
<1>1. \A c \in Clients : ConnGood(c)
  BY SameConn
<1>2. conn' = [c \in Clients |-> conn'[c]]
  BY ConnsAreAFunction
<1> QED
  BY <1>1, <1>2, Assemble

LEMMA OneChanges ==
    ASSUME Inv, TypeRest', DriverWaits', UNCHANGED <<chunks, taken, nextSeq>>, NEW c \in Clients, NEW new,
           conn' = [conn EXCEPT ![c] = new], conn'[c] = new => ConnGood(c)
    PROVE  Good
<1>1. conn' = [d \in Clients |-> conn'[d]] /\ conn'[c] = new /\ \A d \in Clients : d # c => conn'[d] = conn[d]
  BY DEF Inv, TypeOK
<1>2. \A d \in Clients : ConnGood(d)
  BY <1>1, SameConn
<1> QED
  BY <1>1, <1>2, Assemble

LEMMA InvInit == Init => Inv
<1> SUFFICES ASSUME Init PROVE Inv
  OBVIOUS
<1>1. MaxBytes \in Nat /\ Capacity \in Nat /\ LocalAttached \in BOOLEAN
  BY StreamAssumption
<1>2. chunks = <<>> /\ taken = 0 /\ nextSeq = 1 /\ written = 0
  BY DEF Init
<1>3. RunOK(chunks, taken, nextSeq)
  <2>1. chunks \in Seq(Chunk) /\ Len(chunks) = 0
    BY <1>2, EmptySeq
  <2> QED
    BY <2>1, <1>2 DEF RunOK
<1>4. SizeBytes(chunks) <= Capacity
  <2>1. UNION {Bytes(chunks[i]) : i \in DOMAIN chunks} = {}
    BY <1>2
  <2>2. SizeBytes(chunks) = 0
    BY <2>1, FS_EmptySet DEF SizeBytes
  <2> QED
    BY <2>2, <1>1
<1>5. conn = [c \in Clients |-> NewConn] /\ \A c \in Clients : conn[c] = NewConn
  BY DEF Init
<1>6. conn \in [Clients -> Conns]
  BY <1>5, NewConnFacts
<1>7. \A c \in Clients : ConnOK(c)
  BY <1>5, NewConnFacts DEF ConnOK, Open
<1>8. TypeOK
  <2>1. chunks \in Seq([seq : 1..MaxBytes, first : 1..MaxBytes, last : 1..MaxBytes])
    BY <1>2, EmptySeq
  <2>2. io \in [by : Waiters \cup {"timer", "nobody"}, at : {"idle", "read", "reap", "notify"}]
    BY DEF Init, Idle
  <2>3. armed \in SUBSET Waiters /\ ready \in SUBSET Waiters /\ control \in {"none", "local", "driver"}
    BY DEF Init, Waiters
  <2>4. child \in {"running", "ended", "reaped"}
    BY DEF Init
  <2> QED
    BY <2>1, <2>2, <2>3, <2>4, <1>1, <1>2, <1>6 DEF TypeOK
<1>9. DriverWaits
  BY DEF Init, DriverWaits, Idle
<1> QED
  BY <1>3, <1>4, <1>7, <1>8, <1>9 DEF Inv
-------------------------------------------------------------------------------
LEMMA PollReadsGood == Inv /\ PollReads => Good
<1> SUFFICES ASSUME Inv, PollReads PROVE Good
  OBVIOUS
<1>1. /\ RunOK(chunks, taken, nextSeq) /\ TypeOK /\ taken \in Nat /\ nextSeq \in Nat /\ written \in Nat
      /\ written <= MaxBytes /\ MaxBytes \in Nat /\ ReadMax \in Nat /\ Capacity \in Nat \ {0} /\ taken <= written
      /\ chunks \in Seq(Chunk)
  <2>1. RunOK(chunks, taken, nextSeq) /\ TypeOK
    BY DEF Inv
  <2>2. written \in 0..MaxBytes /\ taken \in 0..written /\ chunks \in Seq(Chunk) /\ nextSeq \in 1..MaxBytes + 1
    BY <2>1 DEF TypeOK, RunOK
  <2>3. MaxBytes \in Nat /\ ReadMax \in Nat /\ Capacity \in Nat \ {0}
    BY StreamAssumption
  <2> QED
    BY <2>1, <2>2, <2>3
<1>2. PICK n \in 1..Min({ReadMax, written - taken}) : chunks' \in Append_(n) /\ taken' = taken + n
  BY DEF PollReads
<1>3. n \in Nat \ {0} /\ taken + n <= written
  <2>1. PICK d \in Nat : d = written - taken
    BY <1>1
  <2>2. Min({ReadMax, d}) \in Int /\ Min({ReadMax, d}) <= d
    <3>1. CASE ReadMax <= d
      <4>1. /\ {ReadMax, d} \in SUBSET Int /\ ReadMax \in {ReadMax, d}
            /\ \A y \in {ReadMax, d} : ReadMax <= y
        BY <3>1, <2>1, <1>1
      <4> QED
        BY <4>1, <3>1, <1>1, MinIs
    <3>2. CASE d <= ReadMax
      <4>1. {ReadMax, d} \in SUBSET Int /\ d \in {ReadMax, d} /\ \A y \in {ReadMax, d} : d <= y
        BY <3>2, <2>1, <1>1
      <4> QED
        BY <4>1, <1>1, <2>1, MinIs
    <3> QED
      BY <3>1, <3>2, <2>1, <1>1
  <2>3. n \in 1..Min({ReadMax, d})
    BY <1>2, <2>1
  <2> QED
    BY <2>1, <2>2, <2>3, <1>1
<1>4. nextSeq' = nextSeq + 1 /\ UNCHANGED <<written, child, io, armed, ready, control, conn>>
  BY DEF PollReads
<1>5. PICK cut : cut = (IF n > Capacity THEN n - Capacity ELSE 0)
  OBVIOUS
<1>6. PICK c : c = [seq |-> nextSeq, first |-> taken + 1 + cut, last |-> taken + n]
  OBVIOUS
<1>7. PICK a : a = Append(chunks, c)
  OBVIOUS
<1>8. chunks' \in EvictIfNeeded(a)
  BY <1>2, <1>5, <1>6, <1>7 DEF Append_
<1>9. cut \in Nat
  BY <1>1, <1>3, <1>5
<1>10. c \in Chunk /\ c.seq = nextSeq /\ c.first = taken + 1 + cut /\ c.last = taken + n
  BY <1>1, <1>3, <1>6, <1>9 DEF Chunk
<1>11. /\ a \in Seq(Chunk) /\ Len(a) = Len(chunks) + 1 /\ a[Len(chunks) + 1] = c
       /\ \A i \in 1..Len(chunks) : a[i] = chunks[i]
  BY <1>1, <1>7, <1>10, AppendProperties
<1>12. PICK r : r = chunks'
  OBVIOUS
<1>13. /\ RunOK(r, taken + n, nextSeq + 1)
       /\ SizeBytes(r) <= Capacity
       /\ \A k \in 1..Len(r) : (\E i \in 1..Len(chunks) : r[k] = chunks[i]) \/ (r[k].seq = nextSeq /\ taken < r[k].first)
  <2>2. RunOK(chunks, taken, nextSeq) /\ n \in Nat \ {0}
    BY <1>1, <1>3
  <2>1. ASSUME NEW x \in EvictIfNeeded(a)
        PROVE  /\ RunOK(x, taken + n, nextSeq + 1)
               /\ SizeBytes(x) <= Capacity
               /\ \A k \in 1..Len(x) : (\E i \in 1..Len(chunks) : x[k] = chunks[i]) \/ (x[k].seq = nextSeq /\ taken < x[k].first)
    BY <2>2, <1>5, <1>10, <1>11, AppendKeeps, SMTT(60)
  <2> QED
    BY <2>1, <1>8, <1>12
<1>14. ASSUME NEW d \in Clients PROVE ConnOK(d)'
  <2>1. conn[d] \in Conns /\ ConnOK(d)
    BY ConnFacts
  <2>2. Open(d) => StreamOK(conn[d], r, taken + n, nextSeq + 1)
    <3>1. Open(d) => StreamOK(conn[d], chunks, taken, nextSeq)
      BY <2>1 DEF ConnOK
    <3> QED
      BY <3>1, <2>1, <1>1, <1>3, <1>13, AppendKeepsStream
  <2> QED
    BY <2>1, <2>2, <1>2, <1>4, <1>12 DEF ConnOK, Open
<1>15. TypeOK'
  <2>1. taken + n \in 0..written /\ nextSeq + 1 \in 1..MaxBytes + 1
    BY <1>1, <1>3, <1>13 DEF RunOK
  <2>2. r \in Seq([seq : 1..MaxBytes, first : 1..MaxBytes, last : 1..MaxBytes])
    <3>1. r \in Seq(Chunk)
      BY <1>13 DEF RunOK
    <3>2. ASSUME NEW k \in 1..Len(r)
          PROVE  r[k] \in [seq : 1..MaxBytes, first : 1..MaxBytes, last : 1..MaxBytes]
      <4>1. r[k] \in Chunk
        BY <3>1
      <4>2. /\ 1 <= r[k].first /\ r[k].first <= r[k].last /\ r[k].last <= taken + n
            /\ 1 <= r[k].seq /\ r[k].seq = (nextSeq + 1) - 1 - Len(r) + k
        BY <1>13 DEF RunOK
      <4>3. r[k].seq <= nextSeq
        BY <4>2, <3>1, <1>1
      <4>4. /\ r[k].seq \in 1..MaxBytes /\ r[k].first \in 1..MaxBytes /\ r[k].last \in 1..MaxBytes
        BY <4>1, <4>2, <4>3, <2>1, <1>1, <1>3, SMTT(60) DEF Chunk
      <4> QED
        BY <4>1, <4>4 DEF Chunk
    <3>3. DOMAIN r = 1..Len(r) /\ Len(r) \in Nat /\ r = [k \in 1..Len(r) |-> r[k]]
      BY <3>1
    <3>4. PICK S : S = [seq : 1..MaxBytes, first : 1..MaxBytes, last : 1..MaxBytes]
      OBVIOUS
    <3>5. r \in [1..Len(r) -> S]
      BY <3>2, <3>3, <3>4
    <3>6. r \in Seq(S)
      BY <3>3, <3>5
    <3> QED
      BY <3>4, <3>6
  <2> QED
    BY <2>1, <2>2, <1>1, <1>2, <1>4, <1>12 DEF TypeOK
<1>16. Inv'
  <2>1. /\ RunOK(chunks, taken, nextSeq)' /\ (SizeBytes(chunks) <= Capacity)'
        /\ DriverWaits'
    BY <1>2, <1>4, <1>12, <1>13 DEF Inv, DriverWaits, Open
  <2> QED
    BY <2>1, <1>14, <1>15 DEF Inv
<1> QED
  BY <1>16, <1>4 DEF Good, Continued

LEMMA NotifyGood ==
    ASSUME Inv, TypeRest', DriverWaits', UNCHANGED <<chunks, taken, nextSeq>>, NotifyClients PROVE Good
<1>1. PICK changed \in SUBSET Viewers :
        conn' = [c \in Clients |-> IF ~Open(c) THEN conn[c]
                                   ELSE IF c = Driver THEN DriverSend(<<>>)
                                   ELSE ViewerSend(c, c \in changed)]
  BY DEF NotifyClients
<1>2. ASSUME NEW c \in Clients PROVE ConnGood(c)
  <2>1. conn'[c] = IF ~Open(c) THEN conn[c] ELSE IF c = Driver THEN DriverSend(<<>>) ELSE ViewerSend(c, c \in changed)
    BY <1>1
  <2>2. CASE ~Open(c)
    BY <2>1, <2>2, SameConn
  <2>3. CASE Open(c) /\ c = Driver
    <3>1. KeptBy(c, conn'[c])
      BY <2>1, <2>3, DriverSendKept
    <3> QED
      BY <3>1, KeptConn
  <2>4. CASE Open(c) /\ c # Driver
    <3>1. c \in Viewers
      BY <2>4 DEF Clients
    <3>2. conn'[c] = ViewerSend(c, c \in changed)
      BY <2>1, <2>4
    <3>3. KeptBy(c, conn'[c])
      BY <2>4, <3>1, <3>2, ViewerSendKept, Zenon
    <3> QED
      BY <3>3, KeptConn
  <2> QED
    BY <2>2, <2>3, <2>4
<1>3. conn' = [c \in Clients |-> conn'[c]]
  BY <1>1
<1> QED
  BY <1>2, <1>3, Assemble

LEMMA ViewerGood ==
    ASSUME Inv, NEW c \in Viewers, ViewerOpens(c) \/ ViewerCommand(c) \/ ViewerCloses(c) PROVE Good
<1>1. c \in Clients /\ TypeRest' /\ DriverWaits'
  <2>1. UNCHANGED <<written, child, taken, io, armed, ready, control>>
    BY DEF ViewerOpens, ViewerCommand, ViewerCloses
  <2>2. PICK new : conn' = [conn EXCEPT ![c] = new]
    BY DEF ViewerOpens, ViewerCommand, ViewerCloses
  <2>3. conn'[Driver] = conn[Driver]
    BY <2>2, StreamAssumption DEF Clients, Inv, TypeOK
  <2> QED
    BY <2>1, <2>3 DEF Clients, Inv, TypeOK, TypeRest, DriverWaits, Open
<1>2. UNCHANGED <<chunks, taken, nextSeq>>
  BY DEF ViewerOpens, ViewerCommand, ViewerCloses
<1>3. CASE ViewerOpens(c)
  <2>1. PICK first : first = (IF TailSlice = <<>> /\ c \notin Raw THEN <<Event(conn[c].delivered)>> ELSE TailSlice)
    OBVIOUS
  <2>2. PICK new : /\ new = [QueueFrames(c, StatusEvents(c, TRUE) \o first) EXCEPT !.phase = "open", !.told = ~Live]
                   /\ conn' = [conn EXCEPT ![c] = new]
    BY <1>3, <2>1 DEF ViewerOpens
  <2>3. conn[c].phase = "idle"
    BY <1>3 DEF ViewerOpens
  <2>4. conn[c].delivered = 1
    BY <2>3, <1>1, ConnFacts, NewConnFacts DEF ConnOK
  <2>5. first = TailSlice \/ first = <<Event(1)>>
    BY <2>1, <2>4
  <2>6. PICK frames : frames = StatusEvents(c, TRUE) \o first
    OBVIOUS
  <2>7. /\ Fresh(conn[c], chunks, taken, nextSeq)
        /\ \E k : /\ Batch(frames, k, conn[c].reserved, taken, nextSeq)
                  /\ k \in {0, Len(frames)} /\ (k > 0 => 0 < frames[k].first)
    BY <2>3, <2>5, <2>6, OpensQueue
  <2>8. new = [QueueFrames(c, frames) EXCEPT !.phase = "open", !.told = ~Live]
    BY <2>2, <2>6
  <2>9. new \in Conns /\ new.phase = "open" /\ StreamOK(new, chunks, taken, nextSeq) /\ Window(new)
    BY <2>3, <2>7, <2>8, OpensKept
  <2>10. conn'[c] = new => ConnGood(c)
    BY <2>3, <2>9, <1>1, <1>2, OpenedConn
  <2> QED
    BY <2>2, <2>10, <1>1, <1>2, OneChanges
<1>4. CASE ViewerCommand(c)
  <2>1. PICK new : KeptBy(c, new) /\ conn' = [conn EXCEPT ![c] = new]
    BY <1>4, CommandKept DEF ViewerCommand
  <2>2. conn'[c] = new => ConnGood(c)
    BY <2>1, <1>1, <1>2, KeptConn
  <2> QED
    BY <2>1, <2>2, <1>1, <1>2, OneChanges
<1>5. CASE ViewerCloses(c)
  <2>1. conn' = [conn EXCEPT ![c] = [NewConn EXCEPT !.phase = "closed"]]
    BY <1>5 DEF ViewerCloses
  <2>2. conn'[c] = [NewConn EXCEPT !.phase = "closed"] => ConnGood(c)
    BY <1>1, ClosedConn
  <2> QED
    BY <2>1, <2>2, <1>1, <1>2, OneChanges
<1> QED
  BY <1>3, <1>4, <1>5

LEMMA ForceCloseGood ==
    ASSUME Inv, DriverForceClose, io.by # "driver", UNCHANGED <<written, child, taken, chunks, nextSeq, io>>
    PROVE  Good
<1>1. TypeRest' /\ DriverWaits'
  BY DEF DriverForceClose, Inv, TypeOK, TypeRest, DriverWaits
<1>2. Driver \in Clients
  BY DEF Clients
<1>3. conn' = [conn EXCEPT ![Driver] = [NewConn EXCEPT !.phase = "closed"]]
  BY DEF DriverForceClose
<1>4. conn'[Driver] = [NewConn EXCEPT !.phase = "closed"] => ConnGood(Driver)
  BY <1>2, ClosedConn
<1> QED
  BY <1>1, <1>2, <1>3, <1>4, OneChanges

LEMMA DriverGood ==
    ASSUME Inv, DriverOpens \/ DriverCloses \/ DriverFlushes \/ (\E c \in Clients : WriteDone(c)) PROVE Good
<1>1. CASE DriverOpens
  <2>1. TypeRest' /\ Driver \in Clients /\ UNCHANGED <<chunks, taken, nextSeq>>
    BY <1>1 DEF DriverOpens, Inv, TypeOK, TypeRest, Clients, Waiters
  <2>2. PICK p, new : /\ p = <<Event(nextSeq)>>
                      /\ new = [NewConn EXCEPT !.phase = "open", !.reserved = nextSeq, !.got = taken, !.pending = p]
                      /\ conn' = [conn EXCEPT ![Driver] = new]
    BY <1>1 DEF DriverOpens
  <2>3. new \in Conns /\ new.phase = "open" /\ StreamOK(new, chunks, taken, nextSeq)
    BY <2>2, DriverOpensKept
  <2>4. conn'[Driver] = new => ConnGood(Driver)
    BY <2>1, <2>3, <1>1, StreamAssumption, OpenedConn DEF DriverOpens
  <2>5. DriverWaits'
    BY <2>1, <2>2, <2>3 DEF DriverWaits, Open, Inv, TypeOK
  <2> QED
    BY <2>1, <2>2, <2>4, <2>5, OneChanges
<1>2. CASE DriverCloses
  BY <1>2, ForceCloseGood DEF DriverCloses, Idle
<1>3. CASE DriverFlushes
  <2>1. TypeRest' /\ Driver \in Clients /\ UNCHANGED <<chunks, taken, nextSeq>>
    BY <1>3 DEF DriverFlushes, Inv, TypeOK, TypeRest, Clients, Waiters, Idle
  <2>2. conn' = [conn EXCEPT ![Driver] = DriverSend(FlushOutput)]
    BY <1>3 DEF DriverFlushes
  <2>3. Open(Driver)
    BY <1>3 DEF Inv, DriverWaits, DriverFlushes
  <2>4. conn'[Driver] = DriverSend(FlushOutput) => ConnGood(Driver)
    BY <2>1, <2>3, DriverSendKept, KeptConn
  <2>5. DriverWaits'
    <3>1. conn'[Driver] = DriverSend(FlushOutput)
      BY <2>1, <2>2 DEF Inv, TypeOK
    <3> QED
      BY <3>1, <2>3, DriverSendKept DEF DriverWaits, Open, KeptBy
  <2> QED
    BY <2>1, <2>2, <2>4, <2>5, OneChanges
<1>4. ASSUME NEW c \in Clients, WriteDone(c) PROVE Good
  <2>1. /\ Open(c) /\ conn[c].pending # <<>>
        /\ UNCHANGED <<written, child, taken, chunks, nextSeq, io>> /\ io.by # "driver"
        /\ DriverForceClose \/ (conn' = [conn EXCEPT ![c] = Received(c)] /\ UNCHANGED <<armed, ready, control>>)
    BY <1>4 DEF WriteDone, Idle
  <2>2. CASE DriverForceClose
    BY <2>1, <2>2, ForceCloseGood
  <2>3. CASE conn' = [conn EXCEPT ![c] = Received(c)] /\ UNCHANGED <<armed, ready, control>>
    <3>1. TypeRest' /\ DriverWaits'
      <4>1. Open(Driver) => Open(Driver)'
        <5>1. CASE c = Driver
          <6>1. conn'[c] = Received(c) /\ KeptBy(c, Received(c))
            BY <2>1, <2>3, ReceivedKept DEF Inv, TypeOK
          <6> QED
            BY <6>1, <5>1 DEF KeptBy, Open
        <5>2. CASE c # Driver
          BY <2>3, <5>2 DEF Inv, TypeOK, Open
        <5> QED
          BY <5>1, <5>2
      <4> QED
        BY <4>1, <2>1, <2>3 DEF Inv, TypeOK, TypeRest, DriverWaits
    <3>2. conn'[c] = Received(c) => ConnGood(c)
      BY <2>1, ReceivedKept, KeptConn
    <3> QED
      BY <2>1, <2>3, <3>1, <3>2, OneChanges
  <2> QED
    BY <2>1, <2>2, <2>3
<1> QED
  BY <1>1, <1>2, <1>3, <1>4

\* A notification, whoever makes it, keeps the connections open.
LEMMA NotifyKeepsWaits ==
    ASSUME Inv, NotifyClients, "driver" \in armed' \cup ready' \/ io'.by = "driver" => Open(Driver)
    PROVE  DriverWaits'
<1>1. Open(Driver) => conn'[Driver] = DriverSend(<<>>)
  BY DEF NotifyClients, Clients
<1>2. Open(Driver) => Open(Driver)'
  BY <1>1, DriverSendKept DEF KeptBy, Open
<1> QED
  BY <1>2 DEF DriverWaits

LEMMA StepGood == Inv /\ [Next]_vars => Good
<1> SUFFICES ASSUME Inv, [Next]_vars PROVE Good
  OBVIOUS
<1>1. TypeOK /\ TypeRest /\ DriverWaits /\ MaxBytes \in Nat
  BY StreamAssumption DEF Inv, TypeOK, TypeRest
<1>2. CASE ChildWrites
  <2>1. TypeRest'
    <3>1. PICK n \in 1..MaxBytes - written : written' = written + n
      BY <1>2 DEF ChildWrites
    <3>2. written' \in 0..MaxBytes /\ taken \in 0..written'
      BY <3>1, <1>1 DEF TypeRest
    <3> QED
      BY <3>2, <1>1, <1>2 DEF ChildWrites, TypeRest
  <2> QED
    BY <2>1, <1>1, <1>2, AllSame DEF ChildWrites, DriverWaits, Open
<1>3. CASE ChildExits
  <2>1. TypeRest' /\ DriverWaits'
    BY <1>1, <1>3 DEF ChildExits, TypeRest, DriverWaits, Open
  <2> QED
    BY <2>1, <1>3, AllSame DEF ChildExits
<1>4. CASE WaitsComplete
  <2>1. TypeRest' /\ DriverWaits'
    BY <1>1, <1>4 DEF WaitsComplete, TypeRest, DriverWaits, Open
  <2> QED
    BY <2>1, <1>4, AllSame DEF WaitsComplete
<1>5. CASE \E w \in Waiters : WaitCallback(w)
  <2>1. TypeRest' /\ DriverWaits'
    BY <1>1, <1>5 DEF WaitCallback, TypeRest, DriverWaits, Open
  <2> QED
    BY <2>1, <1>5, AllSame DEF WaitCallback
<1>6. CASE Timer
  <2>1. TypeRest' /\ DriverWaits'
    BY <1>1, <1>6 DEF Timer, TypeRest, DriverWaits, Open
  <2> QED
    BY <2>1, <1>6, AllSame DEF Timer
<1>7. CASE PollReads
  BY <1>7, PollReadsGood
<1>8. CASE PollReadsNothing
  <2>1. TypeRest' /\ DriverWaits'
    BY <1>1, <1>8 DEF PollReadsNothing, TypeRest, DriverWaits, Open
  <2> QED
    BY <2>1, <1>8, AllSame DEF PollReadsNothing
<1>9. CASE PollExit
  <2>1. TypeRest' /\ DriverWaits'
    BY <1>1, <1>9 DEF PollExit, TypeRest, DriverWaits, Open
  <2> QED
    BY <2>1, <1>9, AllSame DEF PollExit
<1>10. CASE WatcherNotifies
  <2>1. TypeRest'
    BY <1>1, <1>10 DEF WatcherNotifies, TypeRest, Idle, Waiters
  <2>2. "driver" \in armed' \cup ready' \/ io'.by = "driver" => Open(Driver)
    BY <1>1, <1>10 DEF WatcherNotifies, DriverWaits, Idle
  <2> QED
    BY <2>1, <2>2, <1>10, NotifyGood, NotifyKeepsWaits DEF WatcherNotifies
<1>11. CASE LocalShows
  <2>1. TypeRest' /\ DriverWaits'
    BY <1>1, <1>11 DEF LocalShows, TypeRest, DriverWaits, Open, Idle, Waiters
  <2> QED
    BY <2>1, <1>11, AllSame DEF LocalShows
<1>12. CASE TimerNotifies
  <2>1. TypeRest'
    BY <1>1, <1>12 DEF TimerNotifies, TypeRest, Idle, Waiters
  <2>2. "driver" \in armed' \cup ready' \/ io'.by = "driver" => Open(Driver)
    BY <1>1, <1>12 DEF TimerNotifies, DriverWaits, Idle
  <2> QED
    BY <2>1, <2>2, <1>12, NotifyGood, NotifyKeepsWaits DEF TimerNotifies
<1>13. CASE \E c \in Viewers : ViewerOpens(c) \/ ViewerCommand(c) \/ ViewerCloses(c)
  BY <1>13, ViewerGood
<1>14. CASE DriverOpens \/ DriverCloses \/ DriverFlushes \/ (\E c \in Clients : WriteDone(c))
  BY <1>14, DriverGood
<1>15. CASE UNCHANGED vars
  <2>1. TypeRest' /\ DriverWaits'
    BY <1>1, <1>15 DEF vars, TypeRest, DriverWaits, Open
  <2> QED
    BY <2>1, <1>15, AllSame DEF vars
<1> QED
  BY <1>2, <1>3, <1>4, <1>5, <1>6, <1>7, <1>8, <1>9, <1>10, <1>11, <1>12, <1>13, <1>14, <1>15 DEF Next, Turn

LEMMA Invariance == Spec => []Inv
<1>1. Inv /\ [Next]_vars => Inv'
  BY StepGood DEF Good
<1> QED
  BY <1>1, InvInit, PTL DEF Spec

\* The buffer, the io thread and every connection keep their types.
THEOREM TypeCorrect == Spec => []TypeOK
<1>1. Inv => TypeOK
  BY DEF Inv
<1> QED
  BY <1>1, Invariance, PTL

\* The output buffer is an unbroken run within its capacity that ends with the newest
\* byte read, and an observer's window brackets what is queued for it: at every moment of
\* PollOnce, for any sizes of the buffer, of the reads and of the tail an observer gets.
THEOREM BooksAreKept == Spec => []StreamBooks
<1>1. ASSUME Inv PROVE BufferOK
  <2>1. RunOK(chunks, taken, nextSeq) /\ chunks \in Seq(Chunk) /\ Len(chunks) \in Nat
    BY <1>1 DEF Inv, RunOK
  <2>2. taken > 0 => chunks # <<>> /\ Last(chunks).last = taken /\ Last(chunks).seq = nextSeq - 1
    <3>1. SUFFICES ASSUME taken > 0 PROVE chunks # <<>> /\ Last(chunks).last = taken /\ Last(chunks).seq = nextSeq - 1
      OBVIOUS
    <3>2. chunks # <<>> /\ 1 \in 1..Len(chunks)
      BY <3>1, <2>1 DEF RunOK
    <3> QED
      BY <1>1, <3>2, Buffered
  <2>3. ASSUME NEW i \in 1..Len(chunks) - 1
        PROVE  chunks[i + 1].seq = chunks[i].seq + 1 /\ chunks[i + 1].first = chunks[i].last + 1
    <3>1. i \in 1..Len(chunks) /\ i + 1 \in 1..Len(chunks) /\ i < Len(chunks)
      BY <2>1
    <3>2. /\ chunks[i].seq = nextSeq - 1 - Len(chunks) + i
          /\ chunks[i + 1].seq = nextSeq - 1 - Len(chunks) + (i + 1)
          /\ nextSeq \in Nat
      BY <1>1, <3>1, Buffered
    <3>3. chunks[i + 1].first = chunks[i].last + 1
      BY <2>1, <3>1 DEF RunOK
    <3> QED
      BY <3>2, <3>3, <2>1
  <2> QED
    BY <1>1, <2>2, <2>3 DEF BufferOK, Inv
<1>2. ASSUME Inv PROVE WindowOK
  <2> SUFFICES ASSUME NEW c \in Viewers, Open(c), NEW nexts,
                      nexts = <<conn[c].delivered>> \o [i \in DOMAIN conn[c].pending |-> conn[c].pending[i].next]
               PROVE  /\ \A i \in 1..Len(nexts) - 1 : nexts[i] <= nexts[i + 1]
                      /\ Last(nexts) = conn[c].reserved
                      /\ conn[c].reserved <= nextSeq
    BY DEF WindowOK
  <2> DEFINE P == conn[c].pending
  <2>1. /\ c \in Clients /\ conn[c] \in Conns /\ P \in Seq(Frames) /\ Window(conn[c])
        /\ conn[c].delivered \in Nat /\ conn[c].reserved \in 1..nextSeq /\ Len(P) \in Nat
    BY <1>2, ConnFacts, StreamAssumption DEF ConnOK, Clients, Conns
  <2>2. PICK rest : rest = [i \in DOMAIN P |-> P[i].next]
    OBVIOUS
  <2>3. rest \in Seq(Nat) /\ Len(rest) = Len(P) /\ \A i \in 1..Len(P) : rest[i] = P[i].next
    <3>1. DOMAIN P = 1..Len(P)
      BY <2>1
    <3>2. \A i \in 1..Len(P) : P[i].next \in Nat
      BY <2>1, FrameNumbers
    <3> QED
      BY <3>1, <3>2, <2>1, <2>2
  <2>4. PICK one : /\ one = <<conn[c].delivered>> /\ one \in Seq(Nat)
                   /\ Len(one) = 1 /\ one[1] = conn[c].delivered
    <3>1. PICK d \in Nat : d = conn[c].delivered
      BY <2>1
    <3>2. <<d>> \in Seq(Nat) /\ Len(<<d>>) = 1 /\ <<d>>[1] = d
      OBVIOUS
    <3> QED
      BY <3>1, <3>2, ZenonT(60)
  <2>5. /\ Len(nexts) = 1 + Len(P)
        /\ \A i \in 1..1 + Len(P) : nexts[i] = IF i <= 1 THEN one[i] ELSE rest[i - 1]
    <3>1. nexts = one \o rest
      BY <2>2, <2>4, ZenonT(60)
    <3>2. /\ Len(one \o rest) = Len(one) + Len(rest)
          /\ \A i \in 1..Len(one) + Len(rest) :
                (one \o rest)[i] = IF i <= Len(one) THEN one[i] ELSE rest[i - Len(one)]
      <4>1. one \in Seq(Nat) /\ rest \in Seq(Nat)
        BY <2>3, <2>4
      <4> QED
        BY <4>1, ConcatProperties, SMTT(60)
    <3> QED
      BY <3>1, <3>2, <2>3, <2>4, ZenonT(60)
  <2>6. nexts[1] = conn[c].delivered
    BY <2>1, <2>4, <2>5
  <2>7. ASSUME NEW i \in 1..Len(P) PROVE nexts[i + 1] = P[i].next
    <3>1. i + 1 \in 1..1 + Len(P) /\ ~(i + 1 <= 1) /\ (i + 1) - 1 = i
      BY <2>1
    <3> QED
      BY <3>1, <2>3, <2>5
  <2>8. ASSUME NEW i \in 1..Len(nexts) - 1 PROVE nexts[i] <= nexts[i + 1]
    <3>1. i \in 1..Len(P) /\ nexts[i + 1] = P[i].next
      <4>1. Len(nexts) = 1 + Len(P)
        BY <2>5
      <4>2. i \in 1..Len(P)
        BY <4>1, <2>1
      <4> QED
        BY <4>2, <2>7
    <3>2. CASE i = 1
      BY <3>1, <3>2, <2>1, <2>6 DEF Window
    <3>3. CASE i # 1
      <4>1. i - 1 \in 1..Len(P) /\ (i - 1) + 1 = i /\ i - 1 <= i
        BY <3>1, <3>3, <2>1, Predecessor, ZenonT(60)
      <4>2. nexts[i] = P[i - 1].next
        BY <4>1, <2>7
      <4> QED
        BY <4>1, <4>2, <3>1, <2>1 DEF Window
    <3> QED
      BY <3>2, <3>3
  <2>9. Last(nexts) = conn[c].reserved
    <3>1. Last(nexts) = nexts[1 + Len(P)]
      BY <2>5 DEF Last
    <3>2. CASE P = <<>>
      BY <3>1, <3>2, <2>1, <2>6 DEF Window
    <3>3. CASE P # <<>>
      <4>1. Len(P) \in 1..Len(P) /\ 1 + Len(P) = Len(P) + 1
        BY <3>3, <2>1
      <4>2. nexts[Len(P) + 1] = P[Len(P)].next
        BY <4>1, <2>7
      <4> QED
        BY <4>1, <4>2, <3>1, <3>3, <2>1 DEF Window
    <3> QED
      BY <3>2, <3>3
  <2>10. conn[c].reserved <= nextSeq
    BY <1>2, <2>1 DEF ConnOK, StreamOK, Inv
  <2> QED
    BY <2>8, <2>9, <2>10
<1>3. Inv => StreamBooks
  BY <1>1, <1>2 DEF StreamBooks
<1> QED
  BY <1>3, Invariance, PTL

\* What is queued for a client continues the stream where it was, or skips to the oldest
\* byte that has not been evicted: nothing is queued twice, and nothing is skipped that
\* SliceFromSequence could still have given, whoever polls and whenever a client is served.
THEOREM StreamInOrder == Spec => InOrder
<1>1. Inv /\ [Next]_vars =>
        [\A c \in Clients :
          Open(c) /\ conn'[c].phase = "open" /\ LastQueued(c)' # LastQueued(c) =>
              LET frame == Last(conn'[c].pending)
                  first == IF frame.kind = "output" THEN frame.first
                           ELSE conn'[c].pending[Len(conn'[c].pending) - 1].first
              IN  \/ first = LastQueued(c) + 1
                  \/ LastQueued(c) + 1 < first /\ first = chunks[1].first]_vars
  BY StepGood DEF Good, Continued, Open, LastQueued, LastOf
<1> QED
  BY <1>1, Invariance, PTL DEF Spec, InOrder
===============================================================================
