-------------------------- MODULE RepairScanProofs --------------------------
(***************************************************************************)
(* Proofs about RepairScan for every set of tracks, every size of file and *)
(* every job, as far as the theorems do not say otherwise.                 *)
(***************************************************************************)
EXTENDS RepairScan, FiniteSetTheorems, NaturalsInduction, WellFoundedInduction, TLAPS

-----------------------------------------------------------------------------
(* Minima and the chunk order                                              *)

\* The naturals are well ordered, so Min finds the least element.
LEMMA NatMin ==
    ASSUME NEW S, S \subseteq Nat, S # {}
    PROVE  Min(S) \in S /\ \A y \in S : Min(S) <= y
<1>1. \E x \in S : \A y \in S : ~(<<y, x>> \in OpToRel(<, Nat))
  BY NatLessThanWellFounded, WFMin
<1>2. PICK x \in S : \A y \in S : ~(<<y, x>> \in OpToRel(<, Nat))
  BY <1>1
<1>3. \A y \in S : x <= y
  <2>1. TAKE y \in S
  <2>2. ~(y < x)
    BY <1>2 DEF OpToRel
  <2>3. QED
    BY <2>2
<1>4. QED
  BY <1>3 DEF Min

LEMMA MaxOfTwo ==
    ASSUME NEW x \in Int, NEW y \in Int
    PROVE  Max({x, y}) = IF x >= y THEN x ELSE y
BY DEF Max

\* What holds of 0 and of each number's successor holds up to n.
LEMMA InductionTo ==
    ASSUME NEW n \in Nat, NEW S, 0 \in S, \A i \in 0 .. n - 1 : i \in S => i + 1 \in S
    PROVE  0 .. n \subseteq S
<1> DEFINE Odd == 0 .. n \ S
<1>1. SUFFICES ASSUME Odd # {} PROVE FALSE
  OBVIOUS
<1>2. PICK m \in Odd : \A y \in Odd : m <= y
  <2>1. Odd \subseteq Nat
    OBVIOUS
  <2>2. QED
    BY <1>1, <2>1, NatMin
<1>3. m \in 0 .. n /\ m \notin S /\ m # 0
  BY <1>2
<1>4. m - 1 \in 0 .. n - 1 /\ (m - 1) + 1 = m /\ m - 1 \in 0 .. n /\ m - 1 < m
  BY <1>3
<1>5. m - 1 \in S
  BY <1>2, <1>4
<1>6. QED
  BY <1>3, <1>4, <1>5

LEMMA MinOfTwo ==
    ASSUME NEW x \in Int, NEW y \in Int
    PROVE  Min({x, y}) = IF x <= y THEN x ELSE y
BY DEF Min

LEMMA ModRange ==
    ASSUME NEW n \in Nat \ {0}, NEW x \in Nat
    PROVE  x % n \in 0 .. n - 1
OBVIOUS

LEMMA IntModRange ==
    ASSUME NEW n \in Nat \ {0}, NEW x \in Int
    PROVE  x % n \in 0 .. n - 1
OBVIOUS

LEMMA ModSplit ==
    ASSUME NEW n \in Nat \ {0}, NEW x \in Nat
    PROVE  \E d \in Int : x = n * d + (x % n)
<1>1. x \div n \in Int /\ x = n * (x \div n) + (x % n)
  OBVIOUS
<1>2. QED
  BY <1>1, Zenon

LEMMA ModUnique ==
    ASSUME NEW n \in Nat \ {0}, NEW d \in Int, NEW r \in 0 .. n - 1
    PROVE  (n * d + r) % n = r
OBVIOUS

\* Counting on from any number reaches every remainder within one cycle.
LEMMA RemainderReached ==
    ASSUME NEW n \in Nat \ {0}, NEW x \in Nat, NEW r \in 0 .. n - 1
    PROVE  \E k \in 0 .. n - 1 : (x + k) % n = r
<1>1. PICK q \in 0 .. n - 1 : q = x % n
  BY ModRange
<1>2. PICK d \in Int : x = n * d + q
  BY <1>1, ModSplit, Zenon
<1>3. CASE r >= q
  <2>1. x + (r - q) = n * d + r
    BY <1>2
  <2>2. (x + (r - q)) % n = r
    BY <2>1, ModUnique
  <2>3. r - q \in 0 .. n - 1
    BY <1>3
  <2>4. QED
    BY <2>2, <2>3
<1>4. CASE r < q
  <2>1. x + (r - q + n) = n * (d + 1) + r
    BY <1>2
  <2>2. (n * (d + 1) + r) % n = r
    <3>1. PICK e \in Int : e = d + 1
      OBVIOUS
    <3>2. (n * e + r) % n = r
      BY ModUnique
    <3>3. QED
      BY <3>1, <3>2
  <2>3. r - q + n \in 0 .. n - 1
    BY <1>4
  <2>4. QED
    BY <2>1, <2>2, <2>3
<1>5. QED
  BY <1>3, <1>4

\* An index into an order always finds an entry.
LEMMA AtInOrder ==
    ASSUME NEW X, NEW order \in Seq(X), order # <<>>, NEW i \in Nat
    PROVE  At(order, i) \in X
<1>1. PICK n \in Nat \ {0} : n = Len(order)
  OBVIOUS
<1>2. i % n \in 0 .. n - 1
  BY ModRange, Zenon
<1>3. (i % n) + 1 \in 1 .. Len(order)
  BY <1>1, <1>2
<1>4. QED
  BY <1>1, <1>3 DEF At

\* A track that occurs in the order comes up within one cycle.
LEMMA DistanceExists ==
    ASSUME NEW X, NEW order \in Seq(X), NEW next \in Nat, NEW t, CanSkipTo(order, t)
    PROVE  Distances(order, next, t) # {}
<1>1. PICK i \in DOMAIN order : order[i] = t
  BY DEF CanSkipTo
<1>2. PICK n \in Nat \ {0} : n = Len(order) /\ i \in 1 .. n
  BY <1>1
<1>3. PICK k \in 0 .. n - 1 : (next + k) % n = i - 1
  <2>1. i - 1 \in 0 .. n - 1
    BY <1>2
  <2>2. QED
    BY <2>1, RemainderReached, Zenon
<1>4. At(order, next + k) = t
  BY <1>1, <1>2, <1>3 DEF At
<1>5. QED
  BY <1>2, <1>4 DEF Distances

\* correctChunkIdx moves the index forward, by less than a cycle, to a chunk of the
\* track, and to the first such chunk.
THEOREM SkipToTrackCorrect ==
    ASSUME NEW X, NEW order \in Seq(X), NEW next \in Nat, NEW t, CanSkipTo(order, t)
    PROVE  /\ SkipToTrack(order, next, t) \in Nat
           /\ SkipToTrack(order, next, t) \in next .. next + Len(order) - 1
           /\ At(order, SkipToTrack(order, next, t)) = t
           /\ \A i \in next .. SkipToTrack(order, next, t) - 1 : At(order, i) # t
<1> DEFINE D == Distances(order, next, t)
<1>1. D \subseteq Nat
  BY DEF Distances
<1>2. D # {}
  BY DistanceExists
<1>3. Min(D) \in D /\ \A y \in D : Min(D) <= y
  BY <1>1, <1>2, NatMin
<1>4. Min(D) \in 0 .. Len(order) - 1 /\ At(order, next + Min(D)) = t
  BY <1>3 DEF Distances
<1>5. ASSUME NEW i \in next .. next + Min(D) - 1, At(order, i) = t
      PROVE  FALSE
  <2>1. i - next \in 0 .. Len(order) - 1 /\ next + (i - next) = i
    BY <1>4
  <2>2. i - next \in D
    BY <2>1, <1>5 DEF Distances
  <2>3. QED
    BY <2>2, <1>3, <1>4
<1>6. QED
  BY <1>4, <1>5 DEF SkipToTrack

-----------------------------------------------------------------------------
(***************************************************************************)
(* Types.  One lemma per operator: it takes a state of the scan to one.    *)
(***************************************************************************)
LEMMA LastInSet ==
    ASSUME NEW S, NEW s \in Seq(S), s # <<>>
    PROVE  s[Len(s)] \in S
OBVIOUS

LEMMA ElementInSet ==
    ASSUME NEW S, NEW s \in Seq(S), NEW i \in 1 .. Len(s)
    PROVE  s[i] \in S
OBVIOUS

LEMMA AppendInSeq ==
    ASSUME NEW S, NEW s \in Seq(S), NEW e \in S
    PROVE  Append(s, e) \in Seq(S)
OBVIOUS

LEMMA FailedType ==
    ASSUME NEW w \in StateType, NEW name \in Failures
    PROVE  [w EXCEPT !.failed = name] \in StateType
BY DEF StateType

LEMMA ExcludedEndType ==
    ASSUME NEW w \in StateType
    PROVE  ExcludedEnd(w) \in Int
<1>1. CASE w.excluded = <<>>
  BY <1>1 DEF ExcludedEnd
<1>2. CASE w.excluded # <<>>
  <2>1. w.excluded \in Seq([start : Int, length : Int])
    BY DEF StateType
  <2>2. w.excluded[Len(w.excluded)] \in [start : Int, length : Int]
    BY <1>2, <2>1, LastInSet, Zenon
  <2>3. QED
    BY <1>2, <2>2 DEF ExcludedEnd
<1>3. QED
  BY <1>1, <1>2

LEMMA AddToExcludeType ==
    ASSUME NEW w \in StateType, NEW start \in Int, NEW length \in Int
    PROVE  AddToExclude(w, start, length) \in StateType
<1> DEFINE kept == IF start + length > Size THEN Size - start ELSE length
           ok == Assertt(w, w.excluded # <<>> => start >= ExcludedEnd(w), "addToExclude")
<1>1. kept \in Int
  BY SizeAssumption
<1>2. ok \in StateType
  BY FailedType DEF Failures, Assertt
<1>3. [ok EXCEPT !.excluded = Append(@, [start |-> start, length |-> kept]),
                 !.total_excluded = @ + kept] \in StateType
  <2> HIDE DEF ok, kept
  <2>1. [start |-> start, length |-> kept] \in [start : Int, length : Int]
    BY <1>1
  <2>2. ok.excluded \in Seq([start : Int, length : Int])
    BY <1>2 DEF StateType
  <2>3. Append(ok.excluded, [start |-> start, length |-> kept]) \in Seq([start : Int, length : Int])
    BY <2>1, <2>2, AppendInSeq, Zenon
  <2>4. ok.total_excluded + kept \in Int
    BY <1>1, <1>2 DEF StateType
  <2>5. \A e \in Seq([start : Int, length : Int]), n \in Int :
          [ok EXCEPT !.excluded = e, !.total_excluded = n] \in StateType
    BY <1>2 DEF StateType
  <2>6. QED
    BY <2>3, <2>4, <2>5
<1>4. QED
  BY <1>3 DEF AddToExclude

LEMMA AddUnknownSequenceType ==
    ASSUME NEW w \in StateType, NEW start \in Int, NEW length \in Nat
    PROVE  AddUnknownSequence(w, start, length) \in StateType
<1> DEFINE ok == Assertt(w, length # 0, "addUnknownSequence")
           x == AddToExclude(ok, start, length)
<1>1. ok \in StateType
  BY FailedType DEF Failures, Assertt
<1>2. x \in StateType
  <2> HIDE DEF ok
  <2>1. QED
    BY <1>1, AddToExcludeType
<1>3. [x EXCEPT !.unknown_sequences = Append(@, [start |-> start, length |-> length])]
        \in StateType
  <2> HIDE DEF x
  <2>1. [start |-> start, length |-> length] \in [start : Int, length : Nat]
    OBVIOUS
  <2>2. x.unknown_sequences \in Seq([start : Int, length : Nat])
    BY <1>2 DEF StateType
  <2>3. Append(x.unknown_sequences, [start |-> start, length |-> length])
          \in Seq([start : Int, length : Nat])
    BY <2>1, <2>2, AppendInSeq, Zenon
  <2>4. QED
    BY <1>2, <2>3 DEF StateType
<1>4. QED
  BY <1>3 DEF AddUnknownSequence

LEMMA ChkUnknownSequenceEndedType ==
    ASSUME NEW w \in StateType, NEW off \in Nat
    PROVE  ChkUnknownSequenceEnded(w, off) \in StateType
<1> DEFINE x == AddUnknownSequence(w, off - w.unknown_length, w.unknown_length)
<1>1. w.unknown_length \in Nat
  BY DEF StateType
<1>2. x \in StateType
  BY <1>1, AddUnknownSequenceType
<1>3. [x EXCEPT !.unknown_length = 0] \in StateType
  <2> HIDE DEF x
  <2>1. QED
    BY <1>2 DEF StateType
<1>4. QED
  BY <1>3 DEF ChkUnknownSequenceEnded

LEMMA ExcludeSkippedType ==
    ASSUME NEW w \in StateType, NEW start \in Nat, NEW end \in Nat
    PROVE  ExcludeSkipped(w, start, end) \in StateType
<1> DEFINE first == IF ExcludedEnd(w) > start THEN ExcludedEnd(w) ELSE start
<1>1. first \in Int
  BY ExcludedEndType
<1> DEFINE ok == Assertt(w, end >= first, "chkExcludeOverlap")
<1>2. ok \in StateType
  BY FailedType DEF Failures, Assertt
<1>3. AddToExclude(ok, first, end - first) \in StateType
  <2> HIDE DEF first, ok
  <2>1. QED
    BY <1>1, <1>2, AddToExcludeType
<1>4. QED
  BY <1>3 DEF ExcludeSkipped

LEMMA FinalizeCurrentChunkType ==
    ASSUME NEW w \in StateType, ~NoLastTrack(w)
    PROVE  FinalizeCurrentChunk(w) \in StateType
<1> DEFINE t == w.last_track
           c == w.current[t]
           x == Assertt(w, c.n > 0, "finalizeCurrentChunk")
<1>1. t \in AllTracks
  BY DEF StateType, NoLastTrack
<1>2. c \in ChunkRecord
  BY <1>1 DEF StateType
<1>3. x \in StateType
  BY FailedType DEF Failures, Assertt
<1>4. [x EXCEPT !.chunks[t] = Append(@, c), !.current[t].n = 0, !.current[t].size = 0]
        \in StateType
  <2> HIDE DEF t, c, x
  <2>1. x.chunks[t] \in Seq(ChunkRecord) /\ x.current[t] \in ChunkRecord
    BY <1>1, <1>3 DEF StateType
  <2>2. [x.current[t] EXCEPT !.n = 0] \in ChunkRecord
    BY <2>1 DEF ChunkRecord
  <2>3. [x.chunks EXCEPT ![t] = Append(@, c)] \in [AllTracks -> Seq(ChunkRecord)]
    BY <1>1, <1>2, <1>3, <2>1, AppendInSeq DEF StateType
  <2>4. [x.current EXCEPT ![t].n = 0, ![t].size = 0] \in [AllTracks -> ChunkRecord]
    BY <1>1, <1>3, <2>1 DEF StateType, ChunkRecord
  <2>5. QED
    BY <1>3, <2>3, <2>4 DEF StateType
<1>5. QED
  BY <1>4 DEF FinalizeCurrentChunk

LEMMA PushBackLastChunkType ==
    ASSUME NEW w \in StateType
    PROVE  PushBackLastChunk(w) \in StateType
<1> DEFINE c == w.current[w.last_track]
           x == AddUnknownSequence(w, c.off, c.size)
<1>1. CASE NoLastTrack(w)
  BY <1>1 DEF PushBackLastChunk
<1>2. CASE ~NoLastTrack(w)
  <2>1. w.last_track \in AllTracks
    BY <1>2 DEF StateType, NoLastTrack
  <2>2. c \in ChunkRecord
    BY <2>1 DEF StateType
  <2>3. c.off \in Int /\ c.size \in Nat
    BY <2>2 DEF ChunkRecord
  <2>4. x \in StateType
    BY <2>3, AddUnknownSequenceType
  <2>5. x.last_track = w.last_track
    BY DEF AddUnknownSequence, AddToExclude, Assertt, StateType
  <2>6. ~NoLastTrack(x)
    BY <1>2, <2>5 DEF NoLastTrack
  <2>7. FinalizeCurrentChunk(w) \in StateType /\ FinalizeCurrentChunk(x) \in StateType
    BY <1>2, <2>4, <2>6, FinalizeCurrentChunkType
  <2>8. QED
    BY <1>2, <2>7 DEF PushBackLastChunk
<1>3. QED
  BY <1>1, <1>2

LEMMA CorrectChunkIdxType ==
    ASSUME NEW w \in StateType, job \in Jobs, NEW t
    PROVE  CorrectChunkIdx(w, t) \in StateType
<1> DEFINE order == IF job.order # <<>> THEN TracksOf(job.order) ELSE job.simple
           ok == Assertt(w, t # Free, "correctChunkIdx")
           lost == Assertt(ok, FALSE, IF job.order # <<>> THEN "correctChunkIdx loop"
                                      ELSE "correctChunkIdxSimple")
<1>1. order \in Seq(Tracks)
  <2>1. job.simple \in Seq(Tracks)
    BY JobsAssumption DEF JobType
  <2>2. job.order \in Seq([track : Tracks, n : Nat \ {0}])
    BY JobsAssumption DEF JobType
  <2>3. TracksOf(job.order) \in Seq(Tracks)
    <3>1. \A i \in 1 .. Len(job.order) : job.order[i] \in [track : Tracks, n : Nat \ {0}]
      BY <2>2, ElementInSet, Zenon
    <3>2. \A i \in 1 .. Len(job.order) : job.order[i].track \in Tracks
      BY <3>1
    <3>3. Len(job.order) \in Nat /\ DOMAIN job.order = 1 .. Len(job.order)
      BY <2>2
    <3>4. QED
      BY <3>2, <3>3 DEF TracksOf
  <2>4. QED
    BY <2>1, <2>3
<1>2. ok \in StateType
  BY FailedType DEF Failures, Assertt
<1>3. lost \in StateType
  <2> HIDE DEF ok
  <2>1. QED
    BY <1>2, FailedType DEF Failures, Assertt
<1>4. ASSUME CanSkipTo(order, t)
      PROVE  [ok EXCEPT !.next_chunk = SkipToTrack(order, @, t)] \in StateType
  <2> HIDE DEF ok, order
  <2>1. ok.next_chunk \in Nat
    BY <1>2 DEF StateType
  <2>2. SkipToTrack(order, ok.next_chunk, t) \in Nat
    BY <1>1, <1>4, <2>1, SkipToTrackCorrect, Zenon
  <2>3. QED
    BY <1>2, <2>2 DEF StateType
<1>5. QED
  BY <1>2, <1>3, <1>4 DEF CorrectChunkIdx

LEMMA OnFirstChunkFoundType ==
    ASSUME NEW w \in StateType, job \in Jobs, NEW t
    PROVE  OnFirstChunkFound(w, t) \in StateType
<1> DEFINE x == Assertt([w EXCEPT !.first_chunk_found = TRUE],
                        w.next_chunk = 0, "onFirstChunkFound")
<1>1. [w EXCEPT !.first_chunk_found = TRUE] \in StateType
  BY DEF StateType
<1>2. x \in StateType
  BY <1>1, FailedType DEF Failures, Assertt
<1>3. CorrectChunkIdx(x, t) \in StateType
  <2> HIDE DEF x
  <2>1. QED
    BY <1>2, CorrectChunkIdxType
<1>4. QED
  BY <1>3 DEF OnFirstChunkFound

LEMMA OnNewChunkStartedType ==
    ASSUME NEW w \in StateType, job \in Jobs, NEW t
    PROVE  OnNewChunkStarted(w, t) \in StateType
<1> DEFINE fixed == CorrectChunkIdx(w, t)
           corrected == IF w.ignored_chunk_order
                        THEN [fixed EXCEPT !.ignored_chunk_order = FALSE] ELSE w
           back == PushBackLastChunk(corrected)
           pushed == [back EXCEPT !.done_padding_after = FALSE]
           first == OnFirstChunkFound(pushed, t)
           found == IF pushed.first_chunk_found THEN pushed ELSE first
<1>1. corrected \in StateType
  <2>1. fixed \in StateType
    BY CorrectChunkIdxType
  <2> HIDE DEF fixed
  <2>2. QED
    BY <2>1 DEF StateType
<1>2. pushed \in StateType
  <2> HIDE DEF corrected
  <2>1. back \in StateType
    BY <1>1, PushBackLastChunkType
  <2> HIDE DEF back
  <2>2. QED
    BY <2>1 DEF StateType
<1>3. found \in StateType
  <2> HIDE DEF pushed
  <2>1. QED
    BY <1>2, OnFirstChunkFoundType
<1>4. [found EXCEPT !.next_chunk = @ + 1] \in StateType
  <2> HIDE DEF found
  <2>1. found.next_chunk \in Nat
    BY <1>3 DEF StateType
  <2>2. \A n \in Nat : [found EXCEPT !.next_chunk = n] \in StateType
    BY <1>3 DEF StateType
  <2>3. found.next_chunk + 1 \in Nat
    BY <2>1
  <2>4. QED
    BY <2>2, <2>3
<1>5. QED
  BY <1>2, <1>4 DEF OnNewChunkStarted

LEMMA SetLastTrackType ==
    ASSUME NEW w \in StateType, NEW t \in AllTracks
    PROVE  SetLastTrack(w, t) \in StateType
BY DEF SetLastTrack, StateType

NewFrames(off, n, length) ==
    [i \in 1 .. n |-> [off |-> off + (i - 1) * length, length |-> length]]

LEMMA NewFramesType ==
    ASSUME NEW off \in Nat, NEW n \in Nat, NEW length \in Nat
    PROVE  NewFrames(off, n, length) \in Seq([off : Nat, length : Nat])
<1>1. ASSUME NEW i \in 1 .. n
      PROVE  off + (i - 1) * length \in Nat
  <2>1. PICK k \in Nat : k = i - 1
    OBVIOUS
  <2>2. k * length \in Nat
    OBVIOUS
  <2>3. QED
    BY <2>1, <2>2
<1>2. QED
  BY <1>1 DEF NewFrames

LEMMA AddFramesType ==
    ASSUME NEW w \in StateType, NEW t \in AllTracks,
           NEW off \in Nat, NEW n \in Nat, NEW length \in Nat
    PROVE  AddFrames(w, t, off, n, length) \in StateType
<1> DEFINE added == [i \in 1 .. n |-> [off |-> off + (i - 1) * length, length |-> length]]
           all == w.frames[t] \o added
           x == [w EXCEPT !.frames[t] = all]
<1>1. added \in Seq([off : Nat, length : Nat])
  BY NewFramesType DEF NewFrames
<1>2. w.frames \in [AllTracks -> Seq([off : Nat, length : Nat])]
  BY DEF StateType
<1>3. all \in Seq([off : Nat, length : Nat])
  <2> HIDE DEF added
  <2>1. w.frames[t] \in Seq([off : Nat, length : Nat])
    BY <1>2
  <2>2. QED
    BY <1>1, <2>1
<1>4. x \in StateType
  <2> HIDE DEF all
  <2>1. [w.frames EXCEPT ![t] = all] \in [AllTracks -> Seq([off : Nat, length : Nat])]
    BY <1>2, <1>3
  <2>2. QED
    BY <2>1 DEF StateType
<1>5. QED
  BY <1>4, SetLastTrackType DEF AddFrames

\* What the reference file says of a track.
LEMMA RefType ==
    ASSUME job \in Jobs, NEW t \in AllTracks
    PROVE  /\ job.ref[t] \in TrackInfo
           /\ job.ref[t].predictable => /\ job.ref[t].likely_n # <<>>
                                        /\ job.ref[t].likely_sizes # <<>>
BY JobsAssumption DEF JobType

LEMMA StepToNextOwnChunkType ==
    ASSUME NEW w \in StateType, job \in Jobs, NEW t \in AllTracks, NEW off \in Nat
    PROVE  StepToNextOwnChunk(w, t, off) \in Nat \ {0}
<1> DEFINE cur == w.current[t].off
<1>1. PICK d \in Nat \ {0} : d = job.ref[t].distance_gcd
  BY RefType DEF TrackInfo
<1>2. cur \in Nat /\ MdatStart \in Nat
  BY SizeAssumption DEF StateType, ChunkRecord
<1>3. (off - cur) % d \in 0 .. d - 1 /\ (MdatStart + off) % d \in 0 .. d - 1
  <2> HIDE DEF cur
  <2>1. off - cur \in Int /\ MdatStart + off \in Int
    BY <1>2
  <2>2. QED
    BY <2>1, IntModRange, Zenon
<1>4. d - ((off - cur) % d) \in Nat \ {0} /\ d - ((MdatStart + off) % d) \in Nat \ {0}
  BY <1>3
<1>5. Min({d - ((off - cur) % d), d - ((MdatStart + off) % d)}) \in Nat \ {0}
  BY <1>4, MinOfTwo
<1>6. QED
  BY <1>1, <1>4, <1>5 DEF StepToNextOwnChunk

LEMMA StepToNextOwnChunkAbsType ==
    ASSUME job \in Jobs, NEW t \in AllTracks, NEW off \in Nat
    PROVE  StepToNextOwnChunkAbs(t, off) \in Nat
<1>1. PICK g \in Nat \ {0} : g = job.ref[t].start_gcd
  BY RefType DEF TrackInfo
<1>2. (MdatStart + off) % g \in 0 .. g - 1
  BY SizeAssumption, IntModRange
<1>3. (g - ((MdatStart + off) % g)) % g \in 0 .. g - 1
  BY <1>2, IntModRange
<1>4. QED
  BY <1>1, <1>3 DEF StepToNextOwnChunkAbs

LEMMA StepToNextOtherChunkType ==
    ASSUME job \in Jobs, NEW t \in AllTracks, NEW off \in Nat
    PROVE  /\ StepToNextOtherChunk(t, off) \in Nat
           /\ t = Free /\ job.ref[t].end_gcd # 1 => StepToNextOtherChunk(t, off) # 0
<1>1. PICK g \in Nat \ {0} : g = job.ref[t].end_gcd
  BY RefType DEF TrackInfo
<1>2. (MdatStart + off) % g \in 0 .. g - 1
  BY SizeAssumption, IntModRange
<1>3. g - ((MdatStart + off) % g) \in Nat \ {0}
  BY <1>2
<1>4. QED
  BY <1>1, <1>3 DEF StepToNextOtherChunk

\* A step over unknown bytes moves on and, unless free chunks are padding or -step
\* says so, not beyond the content.
LEMMA CalcStepType ==
    ASSUME NEW w \in StateType, job \in Jobs, NEW off \in Nat, off < Size
    PROVE  /\ CalcStep(w, off) \in Nat \ {0}
           /\ ~DoPaddingSkip /\ job.use_chunk_stats => CalcStep(w, off) <= Size - off
           /\ ~DoPaddingSkip /\ ~job.use_chunk_stats => CalcStep(w, off) = job.step
<1>1. CASE DoPaddingSkip
  <2>1. Free \in AllTracks /\ job.ref[Free].end_gcd # 1
    BY <1>1, RefType, SizeAssumption DEF DoPaddingSkip, AllTracks, TrackInfo
  <2>2. StepToNextOtherChunk(Free, off) \in Nat \ {0}
    BY <2>1, StepToNextOtherChunkType
  <2>3. QED
    BY <1>1, <2>2 DEF CalcStep
<1>2. CASE ~DoPaddingSkip /\ job.use_chunk_stats
  <2> DEFINE S == {StepToNextOwnChunk(w, t, off) : t \in Tracks} \cup {Size - off}
  <2>1. S \subseteq Nat \ {0} /\ Size - off \in S
    BY StepToNextOwnChunkType, SizeAssumption DEF AllTracks
  <2>2. Min(S) \in S /\ \A y \in S : Min(S) <= y
    <3> HIDE DEF S
    <3>1. S \subseteq Nat /\ S # {}
      BY <2>1
    <3>2. QED
      BY <3>1, NatMin
  <2>3. QED
    BY <1>2, <2>1, <2>2 DEF CalcStep
<1>3. CASE ~DoPaddingSkip /\ ~job.use_chunk_stats
  <2>1. job.step \in Nat \ {0}
    BY JobsAssumption DEF JobType
  <2>2. QED
    BY <1>3, <2>1 DEF CalcStep
<1>4. QED
  BY <1>1, <1>2, <1>3

LEMMA ZeroLengthType ==
    ASSUME NEW w \in StateType, job \in Jobs, NEW off \in Nat, off < Size
    PROVE  ZeroLength(w, off) \in Nat \ {0}
BY CalcStepType, SizeAssumption DEF ZeroLength

-----------------------------------------------------------------------------
(* Predicted chunks                                                        *)

\* A chunk is predicted of a track that has predictable chunks, or comes next in the
\* order of the reference, which has no free chunks.
MayPredict(t) ==
    /\ job.ref[t].predictable \/ job.order # <<>>
    /\ t = Free => job.ref[Free].predictable

\* A predicted chunk starts where it was asked for, its samples do not reach beyond
\* its end, and do reach it where all have one size.
GoodChunk(c, off) ==
    /\ c \in [off : Nat, size : Nat, n : Nat, track : AllTracks, sample : Nat]
    /\ c.off = off
    /\ c.n * c.sample <= c.size
    /\ Len(job.ref[c.track].likely_sizes) <= 1 => c.n * c.sample = c.size
    /\ MayPredict(c.track)

LEMMA ChunkIsGood ==
    ASSUME NEW off \in Nat, NEW n \in Nat, NEW t \in AllTracks, NEW s \in Nat, MayPredict(t)
    PROVE  GoodChunk(Chunk(off, n, t, s), off)
<1>1. n * s \in Nat
  OBVIOUS
<1>2. QED
  BY <1>1 DEF GoodChunk, Chunk

LEMMA ElementsOfOne ==
    ASSUME NEW S, NEW s \in Seq(S), Len(s) <= 1
    PROVE  ~(Cardinality(Elements(s)) > 1)
<1>1. Elements(s) = {} \/ Elements(s) = {s[1]}
  <2>1. Len(s) = 0 \/ Len(s) = 1
    <3>1. PICK n \in Nat : n = Len(s)
      OBVIOUS
    <3>2. n = 0 \/ n = 1
      BY <3>1
    <3>3. QED
      BY <3>1, <3>2
  <2>2. DOMAIN s = 1 .. Len(s)
    OBVIOUS
  <2>3. QED
    BY <2>1, <2>2 DEF Elements
<1>2. Cardinality(Elements(s)) = 0 \/ Cardinality(Elements(s)) = 1
  BY <1>1, FS_EmptySet, FS_Singleton, Zenon
<1>3. QED
  BY <1>2

LEMMA FitChunksGood ==
    ASSUME job \in Jobs, NEW off \in Nat, NEW t \in AllTracks, NEW ns \in SUBSET (Nat \ {0}),
           MayPredict(t), NEW c \in FitChunks(off, t, ns)
    PROVE  GoodChunk(c, off)
<1>1. job.ref[t].likely_sizes \in Seq(Nat \ {0})
  BY RefType DEF TrackInfo
<1>2. Elements(job.ref[t].likely_sizes) \subseteq Nat
  BY <1>1 DEF Elements
<1>3. \/ \E n \in ns, s \in Elements(job.ref[t].likely_sizes) : c = Chunk(off, n, t, s)
      \/ /\ Cardinality(Elements(job.ref[t].likely_sizes)) > 1
         /\ \E n \in ns, b \in 1 .. Size :
              c = [off |-> off, size |-> b, n |-> n, track |-> t, sample |-> b \div n]
  BY DEF FitChunks
<1>4. ASSUME NEW n \in ns, NEW s \in Elements(job.ref[t].likely_sizes), c = Chunk(off, n, t, s)
      PROVE  GoodChunk(c, off)
  BY <1>2, <1>4, ChunkIsGood
<1>5. ASSUME Cardinality(Elements(job.ref[t].likely_sizes)) > 1, NEW n \in ns, NEW b \in 1 .. Size,
             c = [off |-> off, size |-> b, n |-> n, track |-> t, sample |-> b \div n]
      PROVE  GoodChunk(c, off)
  <2>0. ~(Len(job.ref[t].likely_sizes) <= 1)
    BY <1>1, <1>5, ElementsOfOne
  <2>1. b \in Nat /\ n \in Nat \ {0}
    BY SizeAssumption
  <2>2. b \div n \in Nat /\ n * (b \div n) <= b
    BY <2>1
  <2>3. QED
    BY <1>5, <2>0, <2>1, <2>2 DEF GoodChunk
<1>6. QED
  BY <1>3, <1>4, <1>5

LEMMA BoldChunkGood ==
    ASSUME job \in Jobs, NEW off \in Nat, off <= Size, NEW t \in AllTracks,
           job.ref[t].predictable, BoldChunk(off, t) # Nothing
    PROVE  GoodChunk(BoldChunk(off, t), off)
<1> DEFINE ref == job.ref[t]
           s == ref.likely_sizes[1]
           assumed == IF ref.likely_n_p < 90 THEN Max({1, MinChunkBytes \div s})
                      ELSE ref.likely_n[1]
           n == Min({assumed, (Size - off) \div s})
<1>1. ref.likely_sizes \in Seq(Nat \ {0}) /\ ref.likely_n \in Seq(Nat \ {0})
  BY RefType DEF TrackInfo
<1>2. ref.likely_sizes # <<>> /\ ref.likely_n # <<>>
  BY RefType
<1>3. s \in Nat \ {0} /\ ref.likely_n[1] \in Nat
  <2> HIDE DEF ref
  <2>1. QED
    BY <1>1, <1>2
<1>4. MinChunkBytes \div s \in Nat /\ (Size - off) \div s \in Nat
  <2> HIDE DEF s
  <2>1. MinChunkBytes \in Nat /\ Size - off \in Nat
    BY SizeAssumption
  <2>2. QED
    BY <1>3, <2>1
<1>5. assumed \in Nat
  <2> HIDE DEF s
  <2>1. Max({1, MinChunkBytes \div s}) \in Nat
    BY <1>4, MaxOfTwo
  <2>2. QED
    BY <1>3, <2>1
<1>6. n \in Nat
  <2> HIDE DEF s, assumed
  <2>1. QED
    BY <1>4, <1>5, MinOfTwo
<1>7. BoldChunk(off, t) = Chunk(off, n, t, s)
  BY DEF BoldChunk
<1>8. GoodChunk(Chunk(off, n, t, s), off)
  <2>1. MayPredict(t)
    BY DEF MayPredict
  <2> HIDE DEF n, s
  <2>2. QED
    BY <1>3, <1>6, <2>1, ChunkIsGood
<1>9. QED
  BY <1>7, <1>8

LEMMA TrackChunksGood ==
    ASSUME job \in Jobs, NEW off \in Nat, off <= Size, NEW t \in AllTracks,
           NEW only_perfect_fit, NEW c \in TrackChunks(off, t, only_perfect_fit), c # Nothing
    PROVE  GoodChunk(c, off)
<1>1. job.ref[t].predictable
  BY DEF TrackChunks
<1>2. CASE c \in FitChunks(off, t, Elements(job.ref[t].likely_n))
  <2>1. Elements(job.ref[t].likely_n) \in SUBSET (Nat \ {0})
    BY RefType DEF TrackInfo, Elements
  <2>2. MayPredict(t)
    BY <1>1 DEF MayPredict
  <2>3. QED
    BY <1>2, <2>1, <2>2, FitChunksGood
<1>3. CASE c = BoldChunk(off, t)
  BY <1>1, <1>3, BoldChunkGood
<1>4. QED
  BY <1>1, <1>2, <1>3 DEF TrackChunks

LEMMA OrderChunksGood ==
    ASSUME NEW w \in StateType, job \in Jobs, NEW off \in Nat, job.order # <<>>,
           NEW c \in OrderChunks(w, off), c # Nothing
    PROVE  GoodChunk(c, off)
<1> DEFINE t == LikelyNext(w).track
           n == LikelyNext(w).n
           ref == job.ref[t]
<1>1. LikelyNext(w) \in [track : Tracks, n : Nat \ {0}]
  <2>1. job.order \in Seq([track : Tracks, n : Nat \ {0}]) /\ w.next_chunk \in Nat
    BY JobsAssumption DEF JobType, StateType
  <2>2. At(job.order, w.next_chunk) \in [track : Tracks, n : Nat \ {0}]
    BY <2>1, AtInOrder, Zenon
  <2>3. QED
    BY <2>2 DEF LikelyNext
<1>2. t \in AllTracks /\ MayPredict(t) /\ n \in Nat \ {0}
  BY <1>1, TracksAssumption DEF AllTracks, MayPredict
<1>3. ref.likely_sizes \in Seq(Nat \ {0}) /\ ref.likely_n \in Seq(Nat \ {0})
  BY <1>2, RefType DEF TrackInfo
<1>4. CASE c \in FitChunks(off, t, {n} \cup Elements(ref.likely_n))
  <2>1. {n} \cup Elements(ref.likely_n) \in SUBSET (Nat \ {0})
    <3> HIDE DEF n, ref
    <3>1. QED
      BY <1>2, <1>3 DEF Elements
  <2> HIDE DEF n, t, ref
  <2>2. QED
    BY <1>2, <1>4, <2>1, FitChunksGood
<1>5. CASE ref.likely_sizes # <<>> /\ c = Chunk(off, n, t, ref.likely_sizes[1])
  <2> HIDE DEF n, t, ref
  <2>1. ref.likely_sizes[1] \in Nat
    BY <1>3, <1>5
  <2>2. QED
    BY <1>2, <1>5, <2>1, ChunkIsGood
<1>6. QED
  BY <1>4, <1>5 DEF OrderChunks

LEMMA NextTracksType ==
    ASSUME NEW w \in StateType, job \in Jobs, NEW off \in Nat, w.last_track # Start
    PROVE  NextTracks(w, off) \subseteq AllTracks
<1> DEFINE u == IF w.done_padding /\ job.has_free THEN Free ELSE w.last_track
<1>1. u \in AllTracks
  BY DEF StateType, AllTracks
<1>2. job.ref[u].next \subseteq AllTracks
  <2> HIDE DEF u
  <2>1. QED
    BY <1>1, RefType DEF TrackInfo
<1>3. NextTracks(w, off) \subseteq job.ref[u].next
  BY DEF NextTracks
<1>4. QED
  BY <1>2, <1>3

LEMMA FallbackChunksGood ==
    ASSUME NEW w \in StateType, job \in Jobs, NEW off \in Nat, off <= Size,
           NEW c \in FallbackChunks(w, off), c # Nothing
    PROVE  GoodChunk(c, off)
<1>1. job.simple # <<>> /\ c \in TrackChunks(off, At(job.simple, w.next_chunk), TRUE)
  BY DEF FallbackChunks
<1>2. job.simple \in Seq(Tracks) /\ w.next_chunk \in Nat
  BY JobsAssumption DEF JobType, StateType
<1>3. At(job.simple, w.next_chunk) \in Tracks
  BY <1>1, <1>2, AtInOrder, Zenon
<1>4. At(job.simple, w.next_chunk) \in AllTracks
  BY <1>3 DEF AllTracks
<1>5. QED
  BY <1>1, <1>4, TrackChunksGood

LEMMA PredictionsGood ==
    ASSUME NEW w \in StateType, job \in Jobs, NEW off \in Nat, off <= Size,
           NEW only_perfect_fit, NEW p \in Predictions(w, off, only_perfect_fit)
    PROVE  /\ p.ignored \in BOOLEAN
           /\ p.chunk # Nothing => GoodChunk(p.chunk, off)
<1> DEFINE chunks ==
          IF w.last_track = Start
          THEN {Nothing} \cup UNION {TrackChunks(off, t, only_perfect_fit) :
                                       t \in {job.orig_first} \cup job.fallback}
          ELSE FallbackChunks(w, off)
               \cup UNION {TrackChunks(off, t, only_perfect_fit) : t \in NextTracks(w, off)}
           none == [chunk |-> Nothing, ignored |-> w.ignored_chunk_order]
<1>1. w.ignored_chunk_order \in BOOLEAN
  BY DEF StateType
<1>2. CASE p = none
  BY <1>1, <1>2
<1>3. CASE PredictsViaOrder(w, off) /\ p \in ViaOrder(w, off)
  <2>1. job.order # <<>>
    BY <1>3 DEF PredictsViaOrder, AsksOrder
  <2>2. \/ p = [chunk |-> Nothing, ignored |-> TRUE]
        \/ \E c \in OrderChunks(w, off) : p = [chunk |-> c, ignored |-> w.ignored_chunk_order]
    BY <1>3 DEF ViaOrder
  <2>3. ASSUME NEW c \in OrderChunks(w, off), p.chunk = c, c # Nothing
        PROVE  GoodChunk(c, off)
    BY <2>1, <2>3, OrderChunksGood, Zenon
  <2>4. CASE p = [chunk |-> Nothing, ignored |-> TRUE]
    BY <2>4
  <2>5. ASSUME NEW c \in OrderChunks(w, off), p = [chunk |-> c, ignored |-> w.ignored_chunk_order]
        PROVE  p.ignored \in BOOLEAN /\ (p.chunk # Nothing => GoodChunk(p.chunk, off))
    <3>1. p.chunk = c /\ p.ignored = w.ignored_chunk_order
      BY <2>5
    <3>2. QED
      BY <1>1, <2>3, <3>1
  <2>6. QED
    BY <2>2, <2>4, <2>5
<1>4. ASSUME NEW c \in chunks, p = [none EXCEPT !.chunk = c]
      PROVE  p.ignored \in BOOLEAN /\ (p.chunk # Nothing => GoodChunk(p.chunk, off))
  <2>1. p.chunk = c /\ p.ignored \in BOOLEAN
    BY <1>1, <1>4
  <2>2. CASE w.last_track = Start
    <3>1. {job.orig_first} \cup job.fallback \subseteq AllTracks
      BY JobsAssumption DEF JobType, AllTracks
    <3>2. \/ c = Nothing
          \/ \E t \in {job.orig_first} \cup job.fallback :
                c \in TrackChunks(off, t, only_perfect_fit)
      BY <2>2, Zenon
    <3>3. QED
      BY <2>1, <3>1, <3>2, TrackChunksGood
  <2>3. CASE w.last_track # Start
    <3>1. \/ c \in FallbackChunks(w, off)
          \/ \E t \in NextTracks(w, off) : c \in TrackChunks(off, t, only_perfect_fit)
      BY <2>3, Zenon
    <3>2. NextTracks(w, off) \subseteq AllTracks
      BY <2>3, NextTracksType
    <3>3. QED
      BY <2>1, <3>1, <3>2, TrackChunksGood, FallbackChunksGood
  <2>4. QED
    BY <2>2, <2>3
<1>5. \/ p = none
      \/ PredictsViaOrder(w, off) /\ p \in ViaOrder(w, off)
      \/ \E c \in chunks : p = [none EXCEPT !.chunk = c]
  BY Zenon DEF Predictions
<1>6. QED
  BY <1>2, <1>3, <1>4, <1>5

LEMMA MissesType ==
    ASSUME NEW w \in StateType, job \in Jobs, NEW off \in Nat, off <= Size,
           NEW only_perfect_fit, NEW p \in Misses(w, off, only_perfect_fit)
    PROVE  p.ignored \in BOOLEAN
<1>1. w.ignored_chunk_order \in BOOLEAN
  BY DEF StateType
<1>2. QED
  BY <1>1, PredictionsGood DEF Misses

LEMMA PredictingType ==
    ASSUME NEW w \in StateType, NEW p, p.ignored \in BOOLEAN
    PROVE  Predicting(w, p) \in StateType
<1> DEFINE x == Assertt(w, AsksOrder(w) => ChunkOrderInStep(w), "currentChunkFinished")
<1>1. x \in StateType
  BY FailedType DEF Failures, Assertt
<1>2. [x EXCEPT !.ignored_chunk_order = p.ignored] \in StateType
  <2> HIDE DEF x
  <2>1. QED
    BY <1>1 DEF StateType
<1>3. QED
  BY <1>2 DEF Predicting

-----------------------------------------------------------------------------
(* Frames and unknown bytes                                                *)

LEMMA MatchesType ==
    ASSUME NEW w \in StateType, job \in Jobs, NEW off \in Nat, NEW m \in Matches(w, off)
    PROVE  /\ m.track \in Tracks /\ m.length \in Nat \ {0} /\ m.pad \in Nat
           /\ m.pad # 0 => /\ ~job.ref[m.track].is_jpeg
                           /\ job.ref[m.track].pkt_sz_gcd # 1
                           /\ job.ref[m.track].bounded => off + m.length <= Size
<1>1. PICK t \in Tracks : \E len \in job.ref[t].lens :
        /\ job.ref[t].bounded => len <= Size - off
        /\ m = [track |-> t,
                length |-> len + (IF job.ref[t].is_jpeg
                                  THEN StepToNextOtherChunk(t, off + len) ELSE 0),
                pad |-> IF job.ref[t].is_jpeg THEN 0
                        ELSE (job.ref[t].pkt_sz_gcd - (len % job.ref[t].pkt_sz_gcd))
                               % job.ref[t].pkt_sz_gcd]
  BY DEF Matches
<1>2. PICK len \in job.ref[t].lens :
        /\ job.ref[t].bounded => len <= Size - off
        /\ m = [track |-> t,
                length |-> len + (IF job.ref[t].is_jpeg
                                  THEN StepToNextOtherChunk(t, off + len) ELSE 0),
                pad |-> IF job.ref[t].is_jpeg THEN 0
                        ELSE (job.ref[t].pkt_sz_gcd - (len % job.ref[t].pkt_sz_gcd))
                               % job.ref[t].pkt_sz_gcd]
  BY <1>1
<1>3. t \in AllTracks
  BY DEF AllTracks
<1>4. len \in Nat \ {0} /\ job.ref[t].is_jpeg \in BOOLEAN
  BY <1>3, RefType DEF TrackInfo
<1>5. PICK g \in Nat \ {0} : g = job.ref[t].pkt_sz_gcd
  BY <1>3, RefType DEF TrackInfo
<1>6. len % g \in 0 .. g - 1
  BY <1>4, IntModRange
<1>7. (g - (len % g)) % g \in 0 .. g - 1
  <2>1. g - (len % g) \in Int
    BY <1>6
  <2>2. QED
    BY <2>1, IntModRange, Zenon
<1>8. StepToNextOtherChunk(t, off + len) \in Nat
  BY <1>3, <1>4, StepToNextOtherChunkType
<1>9. QED
  BY <1>2, <1>4, <1>5, <1>7, <1>8, SizeAssumption

LEMMA BeginChunkType ==
    ASSUME NEW w \in StateType, NEW t \in AllTracks, NEW off \in Nat
    PROVE  BeginChunk(w, t, off) \in StateType
<1>1. w.current \in [AllTracks -> ChunkRecord] /\ w.total_excluded \in Int
  BY DEF StateType
<1>2. [w.current EXCEPT ![t].off = off, ![t].already_excluded = w.total_excluded]
        \in [AllTracks -> ChunkRecord]
  BY <1>1 DEF ChunkRecord
<1>3. QED
  BY <1>2 DEF BeginChunk, StateType

LEMMA ChunkForMatchType ==
    ASSUME NEW w \in StateType, job \in Jobs, NEW t \in Tracks, NEW off \in Nat
    PROVE  ChunkForMatch(w, t, off) \in StateType
<1> DEFINE chk == ChkUnknownSequenceEnded(w, off)
           ended == IF w.unknown_length > 0 THEN CorrectChunkIdx(chk, t) ELSE w
           found == IF ended.first_chunk_found THEN ended ELSE OnFirstChunkFound(ended, t)
           new == OnNewChunkStarted(found, t)
           started == IF found.last_track = t THEN found ELSE BeginChunk(new, t, off)
<1>1. ended \in StateType
  <2>1. chk \in StateType
    BY ChkUnknownSequenceEndedType
  <2> HIDE DEF chk
  <2>2. QED
    BY <2>1, CorrectChunkIdxType
<1>2. found \in StateType
  <2> HIDE DEF ended
  <2>1. QED
    BY <1>1, OnFirstChunkFoundType
<1>3. started \in StateType
  <2> HIDE DEF found
  <2>1. new \in StateType
    BY <1>2, OnNewChunkStartedType
  <2> HIDE DEF new
  <2>2. QED
    BY <1>2, <2>1, BeginChunkType DEF AllTracks
<1>4. OnNewChunkStarted(started, t) \in StateType
  <2> HIDE DEF started
  <2>1. QED
    BY <1>3, OnNewChunkStartedType
<1>5. QED
  BY <1>3, <1>4, Zenon DEF ChunkForMatch

LEMMA AddMatchType ==
    ASSUME NEW w \in StateType, job \in Jobs, NEW off \in Nat, NEW m,
           m.track \in Tracks, m.length \in Nat, m.pad \in Nat
    PROVE  AddMatch(w, off, m) \in StateType
<1> DEFINE chunk == ChunkForMatch(w, m.track, off)
           added == AddFrames(chunk, m.track, off, 1, m.length)
           counted == [added EXCEPT !.current[m.track].n = @ + 1]
           padded == AddToExclude(counted, off + m.length, m.pad)
<1>1. m.track \in AllTracks
  BY DEF AllTracks
<1>2. chunk \in StateType
  BY ChunkForMatchType
<1>3. added \in StateType
  <2> HIDE DEF chunk
  <2>1. QED
    BY <1>1, <1>2, AddFramesType
<1>4. counted \in StateType
  <2> HIDE DEF added
  <2>1. added.current \in [AllTracks -> ChunkRecord]
    BY <1>3 DEF StateType
  <2>2. [added.current EXCEPT ![m.track].n = @ + 1] \in [AllTracks -> ChunkRecord]
    BY <1>1, <2>1 DEF ChunkRecord
  <2>3. QED
    BY <1>3, <2>2 DEF StateType
<1>5. [padded EXCEPT !.done_padding = TRUE] \in StateType
  <2> HIDE DEF counted
  <2>1. padded \in StateType
    BY <1>4, AddToExcludeType
  <2> HIDE DEF padded
  <2>2. QED
    BY <2>1 DEF StateType
<1>6. QED
  BY <1>4, <1>5, Zenon DEF AddMatch

LEMMA AfterExpectedType ==
    ASSUME NEW w \in StateType, job \in Jobs, NEW t \in Tracks
    PROVE  AfterExpected(w, t) \in StateType
BY CorrectChunkIdxType DEF AfterExpected

LEMMA AddPredictedType ==
    ASSUME NEW w \in StateType, job \in Jobs, NEW off \in Nat, NEW c, GoodChunk(c, off)
    PROVE  AddPredicted(w, off, c) \in StateType
<1> DEFINE longer == [w EXCEPT !.unknown_length = @ + c.size]
           chk == ChkUnknownSequenceEnded(w, off)
           ended == IF w.unknown_length = 0 THEN w
                    ELSE IF c.track = Free THEN longer ELSE CorrectChunkIdx(chk, c.track)
           started == OnNewChunkStarted(ended, c.track)
           filled == [started EXCEPT !.current[c.track] =
                         [off |-> off, already_excluded |-> started.total_excluded,
                          size |-> c.size, n |-> c.n]]
<1>1. c.track \in AllTracks /\ c.size \in Nat /\ c.n \in Nat /\ c.sample \in Nat
  BY DEF GoodChunk
<1>2. ended \in StateType
  <2>1. longer \in StateType
    <3>1. w.unknown_length + c.size \in Nat
      BY <1>1 DEF StateType
    <3>2. \A n \in Nat : [w EXCEPT !.unknown_length = n] \in StateType
      BY DEF StateType
    <3>3. QED
      BY <3>1, <3>2
  <2>2. chk \in StateType
    BY ChkUnknownSequenceEndedType
  <2> HIDE DEF longer, chk
  <2>3. QED
    BY <2>1, <2>2, CorrectChunkIdxType
<1>3. started \in StateType
  <2> HIDE DEF ended
  <2>1. QED
    BY <1>2, OnNewChunkStartedType
<1>4. filled \in StateType
  <2> HIDE DEF started
  <2>1. started.current \in [AllTracks -> ChunkRecord] /\ started.total_excluded \in Int
    BY <1>3 DEF StateType
  <2>2. [off |-> off, already_excluded |-> started.total_excluded,
         size |-> c.size, n |-> c.n] \in ChunkRecord
    BY <1>1, <2>1 DEF ChunkRecord
  <2>3. QED
    BY <1>1, <1>3, <2>1, <2>2 DEF StateType
<1>5. AddFrames(filled, c.track, off, c.n, c.sample) \in StateType
  <2> HIDE DEF filled
  <2>1. QED
    BY <1>1, <1>4, AddFramesType
<1>6. QED
  BY <1>4, <1>5, Zenon DEF AddPredicted

LEMMA EnterUnknownType ==
    ASSUME NEW w \in StateType
    PROVE  EnterUnknown(w) \in StateType
<1>1. PushBackLastChunk(w) \in StateType
  BY PushBackLastChunkType
<1>2. SetLastTrack(PushBackLastChunk(w), Free) \in StateType
  BY <1>1, SetLastTrackType DEF AllTracks
<1>3. QED
  BY <1>2 DEF EnterUnknown

LEMMA ZeroTestsType ==
    ASSUME st \in StateType, job \in Jobs, offset \in Nat, offset < Size,
           NEW w \in ZeroTests
    PROVE  w \in StateType
<1>1. w = st \/ \E p \in Predictions(st, offset, TRUE) : w = Predicting(st, p)
  BY Zenon DEF ZeroTests
<1>2. ASSUME NEW p \in Predictions(st, offset, TRUE), w = Predicting(st, p)
      PROVE  w \in StateType
  <2>1. p.ignored \in BOOLEAN
    <3>1. offset <= Size
      BY SizeAssumption
    <3>2. QED
      BY <3>1, PredictionsGood, Zenon
  <2>2. QED
    BY <1>2, <2>1, PredictingType
<1>3. QED
  BY <1>1, <1>2

LEMMA AfterZerosType ==
    ASSUME st \in StateType, job \in Jobs, offset \in Nat, offset < Size,
           NEW w \in AfterZeros
    PROVE  w \in StateType
<1>1. w = st \/ \E p \in Misses(st, offset, TRUE) : w = Predicting(st, p)
  BY DEF AfterZeros
<1>2. ASSUME NEW p \in Misses(st, offset, TRUE), w = Predicting(st, p)
      PROVE  w \in StateType
  <2>1. offset <= Size
    BY SizeAssumption
  <2>2. p.ignored \in BOOLEAN
    BY <2>1, MissesType, Zenon
  <2>3. QED
    BY <1>2, <2>2, PredictingType
<1>3. QED
  BY <1>1, <1>2

LEMMA BeforeMatchType ==
    ASSUME st \in StateType, job \in Jobs, offset \in Nat, offset < Size,
           NEW w \in BeforeMatch
    PROVE  w \in StateType
<1>1. w = st \/ \E p \in Misses(st, offset, FALSE) : w = Predicting(st, p)
  BY DEF BeforeMatch
<1>2. ASSUME NEW p \in Misses(st, offset, FALSE), w = Predicting(st, p)
      PROVE  w \in StateType
  <2>1. p.ignored \in BOOLEAN
    <3>1. offset <= Size
      BY SizeAssumption
    <3>2. QED
      BY <3>1, MissesType, Zenon
  <2>2. QED
    BY <1>2, <2>1, PredictingType
<1>3. QED
  BY <1>1, <1>2

LEMMA AfterAdvanceType ==
    ASSUME NEW w \in StateType, offset \in Nat, from \in Nat
    PROVE  AfterAdvance(w) \in StateType
BY ExcludeSkippedType DEF AfterAdvance

LEMMA AlignPaddingType ==
    ASSUME NEW w \in StateType, job \in Jobs, NEW off \in Nat
    PROVE  AlignPadding(w, off) \in Nat
<1>1. CASE job.order = <<>>
  BY <1>1 DEF AlignPadding
<1>2. CASE job.order # <<>>
  <2>1. job.order \in Seq([track : Tracks, n : Nat \ {0}]) /\ w.next_chunk \in Nat
    BY JobsAssumption DEF JobType, StateType
  <2>2. At(job.order, w.next_chunk) \in [track : Tracks, n : Nat \ {0}]
    BY <1>2, <2>1, AtInOrder, Zenon
  <2>3. LikelyNext(w).track \in AllTracks
    BY <2>2 DEF LikelyNext, AllTracks
  <2>4. QED
    BY <2>3, StepToNextOwnChunkAbsType DEF AlignPadding
<1>3. QED
  BY <1>1, <1>2

-----------------------------------------------------------------------------
(* Type correctness                                                        *)

\* tryAll is only called inside the content.
TypeInv == TypeOK /\ (pc = "try" => offset < Size)

LEMMA InitType == Init => TypeInv
<1> SUFFICES ASSUME Init PROVE TypeInv
  OBVIOUS
<1>1. InitState \in StateType
  BY SizeAssumption DEF InitState, StateType, NoChunk, ChunkRecord, Failures
<1>2. QED
  BY <1>1 DEF Init, TypeInv, TypeOK

LEMMA NextType == TypeInv /\ [Next]_vars => TypeInv'
<1> SUFFICES ASSUME TypeInv, [Next]_vars PROVE TypeInv'
  OBVIOUS
<1>0. /\ job \in Jobs /\ offset \in Nat /\ from \in Nat /\ padding \in Nat
      /\ st \in StateType /\ Size \in Nat \ {0}
  BY SizeAssumption DEF TypeInv, TypeOK
<1>1. CASE CalcStartOffset
  <2>1. PICK p \in StartPoints :
          /\ offset' = p.off
          /\ st' = IF p.off = 0 THEN st ELSE AddUnknownSequence(st, p.skipped, p.off)
    BY <1>1 DEF CalcStartOffset
  <2>2. job.first_rel \in Nat
    BY <1>0, JobsAssumption DEF JobType
  <2>3. p.off \in Nat /\ p.skipped \in Nat
    BY <1>0, <2>2 DEF StartPoints
  <2>4. st' \in StateType
    BY <1>0, <2>1, <2>3, AddUnknownSequenceType
  <2>5. QED
    BY <1>0, <1>1, <2>1, <2>3, <2>4 DEF CalcStartOffset, TypeInv, TypeOK
<1>2. CASE GetChunkPadding
  <2> DEFINE own == CurrentChunkIsDone(st) /\ OwnPadding(st) > 0
             pad == IF own THEN OwnPadding(st)
                    ELSE IF CurrentChunkIsDone(st) THEN AlignPadding(st, offset) ELSE 0
             x == [st EXCEPT !.done_padding_after = @ \/ own,
                             !.done_padding = @ \/ (pad > 0 /\ offset < Size)]
  <2>1. pad \in Nat
    <3>1. AlignPadding(st, offset) \in Nat
      BY <1>0, AlignPaddingType
    <3>2. CASE own
      <4>1. st.last_track \in AllTracks
        BY <1>0, <3>2 DEF CurrentChunkIsDone, NoLastTrack, StateType
      <4>2. job.ref[st.last_track].pad_after_chunk \in Int
        BY <1>0, <4>1, RefType DEF TrackInfo
      <4>3. OwnPadding(st) \in Nat
        BY <4>2, MaxOfTwo DEF OwnPadding
      <4>4. QED
        BY <3>2, <4>3
    <3>3. CASE ~own
      BY <3>1, <3>3, Zenon
    <3>4. QED
      BY <3>2, <3>3
  <2>2. x \in StateType
    <3> HIDE DEF own, pad
    <3>1. (st.done_padding_after \/ own) \in BOOLEAN
            /\ (st.done_padding \/ (pad > 0 /\ offset < Size)) \in BOOLEAN
      BY Zenon
    <3>2. \A b, d \in BOOLEAN :
            [st EXCEPT !.done_padding_after = b, !.done_padding = d] \in StateType
      BY <1>0 DEF StateType
    <3>3. QED
      BY <3>1, <3>2, Zenon
  <2>3. /\ from' = offset /\ padding' = pad /\ st' = x /\ job' = job /\ pc' = "skip"
        /\ offset' = IF offset < Size THEN offset + pad ELSE offset
    BY <1>2 DEF GetChunkPadding
  <2> HIDE DEF own, pad, x
  <2>4. QED
    BY <1>0, <2>1, <2>2, <2>3 DEF TypeInv, TypeOK
<1>3. CASE SkipZeros
  <2>1. offset < Size /\ offset' = offset + ZeroLength(st, offset) /\ st' \in AfterZeros
    BY <1>3 DEF SkipZeros
  <2>2. st' \in StateType
    BY <1>0, <2>1, AfterZerosType
  <2>3. offset' \in Nat
    BY <1>0, <2>1, ZeroLengthType
  <2>4. QED
    BY <1>0, <1>3, <2>2, <2>3 DEF SkipZeros, TypeInv, TypeOK
<1>4. CASE SkipAtom
  <2>1. PICK w \in ZeroTests : st' = ChkUnknownSequenceEnded(w, offset)
    BY <1>4 DEF SkipAtom
  <2>2. offset < Size
    BY <1>4 DEF SkipAtom
  <2>3. w \in StateType
    BY <1>0, <2>2, ZeroTestsType
  <2>4. st' \in StateType
    BY <1>0, <2>1, <2>3, ChkUnknownSequenceEndedType
  <2>5. offset' \in Nat
    <3>1. PICK len \in Skippable : offset' = offset + len
      BY <1>4 DEF SkipAtom
    <3>2. len \in Nat
      BY SizeAssumption DEF Skippable
    <3>3. QED
      BY <1>0, <3>1, <3>2
  <2>6. QED
    BY <1>0, <1>4, <2>4, <2>5 DEF SkipAtom, TypeInv, TypeOK
<1>5. CASE EndAdvance
  <2>1. PICK w \in ZeroTests : st' = AfterAdvance(w)
    BY <1>5 DEF EndAdvance
  <2>2. offset < Size
    BY <1>5 DEF EndAdvance
  <2>3. w \in StateType
    BY <1>0, <2>2, ZeroTestsType
  <2>4. st' \in StateType
    BY <1>0, <2>1, <2>3, AfterAdvanceType
  <2>5. QED
    BY <1>0, <1>5, <2>2, <2>4 DEF EndAdvance, TypeInv, TypeOK
<1>6. CASE ReachEnd
  <2>1. AfterAdvance(st) \in StateType
    BY <1>0, AfterAdvanceType, Zenon
  <2>2. PushBackLastChunk(AfterAdvance(st)) \in StateType
    BY <2>1, PushBackLastChunkType
  <2>3. ChkUnknownSequenceEnded(PushBackLastChunk(AfterAdvance(st)), offset) \in StateType
    BY <1>0, <2>2, ChkUnknownSequenceEndedType
  <2>4. QED
    BY <1>0, <1>6, <2>3 DEF ReachEnd, TypeInv, TypeOK
<1>7. CASE TryMatch
  <2>1. offset < Size
    BY <1>7 DEF TryMatch, TypeInv
  <2>2. PICK w \in BeforeMatch : \E m \in Matches(w, offset) :
          /\ st' = AddMatch(AfterExpected(w, m.track), offset, m)
          /\ offset' = offset + m.length + m.pad
    BY <1>7 DEF TryMatch
  <2>3. PICK m \in Matches(w, offset) :
          /\ st' = AddMatch(AfterExpected(w, m.track), offset, m)
          /\ offset' = offset + m.length + m.pad
    BY <2>2
  <2>4. w \in StateType
    BY <1>0, <2>1, BeforeMatchType
  <2>5. m.track \in Tracks /\ m.length \in Nat /\ m.pad \in Nat
    BY <1>0, <2>4, MatchesType
  <2>6. AfterExpected(w, m.track) \in StateType
    BY <1>0, <2>4, <2>5, AfterExpectedType
  <2>7. st' \in StateType
    BY <1>0, <2>3, <2>5, <2>6, AddMatchType
  <2>8. QED
    BY <1>0, <1>7, <2>3, <2>5, <2>7 DEF TryMatch, TypeInv, TypeOK
<1>8. CASE TryChunkPrediction
  <2>1. PICK p \in Predictions(st, offset, FALSE) :
          /\ p.chunk # Nothing
          /\ st' = AddPredicted(Predicting(st, p), offset, p.chunk)
          /\ offset' = offset + p.chunk.size
    BY <1>8 DEF TryChunkPrediction
  <2>2. offset < Size
    BY <1>8 DEF TryChunkPrediction, TypeInv
  <2>3. p.ignored \in BOOLEAN /\ GoodChunk(p.chunk, offset)
    <3>1. offset <= Size
      BY <1>0, <2>2
    <3>2. QED
      BY <1>0, <2>1, <3>1, PredictionsGood, Zenon
  <2>4. Predicting(st, p) \in StateType
    BY <1>0, <2>3, PredictingType
  <2>5. st' \in StateType
    BY <1>0, <2>1, <2>3, <2>4, AddPredictedType
  <2>6. p.chunk.size \in Nat
    BY <2>3 DEF GoodChunk
  <2>7. QED
    BY <1>0, <1>8, <2>1, <2>5, <2>6 DEF TryChunkPrediction, TypeInv, TypeOK
<1>9. ASSUME NEW p \in Misses(st, offset, FALSE), pc = "try"
      PROVE  EnterUnknown(IF job.use_chunk_stats THEN Predicting(st, p) ELSE st) \in StateType
  <2>1. offset < Size
    BY <1>9 DEF TypeInv
  <2>2. p.ignored \in BOOLEAN
    <3>1. offset <= Size
      BY <1>0, <2>1
    <3>2. QED
      BY <1>0, <3>1, MissesType, Zenon
  <2>3. (IF job.use_chunk_stats THEN Predicting(st, p) ELSE st) \in StateType
    BY <1>0, <2>2, PredictingType
  <2>4. QED
    BY <2>3, EnterUnknownType
<1>10. CASE StepThroughUnknown
  <2>1. PICK p \in Misses(st, offset, FALSE) :
          LET w == EnterUnknown(IF job.use_chunk_stats THEN Predicting(st, p) ELSE st)
              step == CalcStep(w, offset)
          IN  /\ st' = [w EXCEPT !.unknown_length = @ + step]
              /\ offset' = offset + step
    BY <1>10 DEF StepThroughUnknown
  <2> DEFINE w == EnterUnknown(IF job.use_chunk_stats THEN Predicting(st, p) ELSE st)
  <2>2. w \in StateType
    BY <1>9, <1>10 DEF StepThroughUnknown
  <2>3. st' = [w EXCEPT !.unknown_length = @ + CalcStep(w, offset)]
          /\ offset' = offset + CalcStep(w, offset)
    BY <2>1
  <2> HIDE DEF w
  <2>4. CalcStep(w, offset) \in Nat
    <3>1. offset < Size
      BY <1>10 DEF StepThroughUnknown, TypeInv
    <3>2. QED
      BY <1>0, <2>2, <3>1, CalcStepType
  <2>5. st' \in StateType
    <3>1. w.unknown_length + CalcStep(w, offset) \in Nat
      BY <2>2, <2>4 DEF StateType
    <3>2. \A n \in Nat : [w EXCEPT !.unknown_length = n] \in StateType
      BY <2>2 DEF StateType
    <3>3. QED
      BY <2>3, <3>1, <3>2
  <2>6. QED
    BY <1>0, <1>10, <2>3, <2>4, <2>5 DEF StepThroughUnknown, TypeInv, TypeOK
<1>11. CASE PrematureEnd
  <2>1. PICK p \in Misses(st, offset, FALSE) :
          LET w == EnterUnknown(IF job.use_chunk_stats THEN Predicting(st, p) ELSE st)
          IN  st' = [w EXCEPT !.content_size = offset]
    BY <1>11 DEF PrematureEnd
  <2> DEFINE w == EnterUnknown(IF job.use_chunk_stats THEN Predicting(st, p) ELSE st)
  <2>2. w \in StateType
    BY <1>9, <1>11 DEF PrematureEnd
  <2>3. st' = [w EXCEPT !.content_size = offset]
    BY <2>1
  <2> HIDE DEF w
  <2>4. st' \in StateType
    BY <1>0, <2>2, <2>3 DEF StateType
  <2>5. QED
    BY <1>0, <1>11, <2>4 DEF PrematureEnd, TypeInv, TypeOK
<1>12. CASE ThrowBeyondEnd
  <2>1. st' \in StateType
    BY <1>0, <1>12, FailedType DEF ThrowBeyondEnd, Failures
  <2>2. QED
    BY <1>0, <1>12, <2>1 DEF ThrowBeyondEnd, TypeInv, TypeOK
<1>13. CASE UNCHANGED vars
  BY <1>13 DEF vars, TypeInv, TypeOK
<1>14. QED
  BY <1>1, <1>2, <1>3, <1>4, <1>5, <1>6, <1>7, <1>8, <1>10, <1>11, <1>12, <1>13 DEF Next

\* Every variable keeps the type of its C++ declaration: next_chunk_idx_ and the
\* offsets never become negative, whatever the reference file taught.
THEOREM TypeCorrect == Spec => []TypeOK
<1>1. TypeInv => TypeOK
  BY DEF TypeInv
<1>2. QED
  BY <1>1, InitType, NextType, PTL DEF Spec



-----------------------------------------------------------------------------
(* What the operators leave alone                                          *)

\* No samples are counted in the dummy track's chunk.
FreeEmpty(w) == w.current[Free].n = 0

\* x and w agree on the last track, the unknown bytes, the frames and the content's end.
SameScan(w, x) ==
    /\ x.last_track = w.last_track
    /\ x.unknown_length = w.unknown_length
    /\ x.frames = w.frames
    /\ x.content_size = w.content_size

SameExclusions(w, x) == x.excluded = w.excluded /\ x.total_excluded = w.total_excluded

\* Only chunks and the position in the order may differ.
Bookkeeping(w, x) ==
    /\ SameScan(w, x)
    /\ FreeEmpty(w) => FreeEmpty(x) /\ SameExclusions(w, x)

LEMMA BookkeepingTrans ==
    ASSUME NEW w, NEW x, NEW y, Bookkeeping(w, x), Bookkeeping(x, y)
    PROVE  Bookkeeping(w, y)
BY DEF Bookkeeping, SameScan, SameExclusions

LEMMA FailedBookkeeping ==
    ASSUME NEW w \in StateType, NEW holds, NEW name
    PROVE  Bookkeeping(w, Assertt(w, holds, name))
BY DEF Bookkeeping, SameScan, SameExclusions, FreeEmpty, Assertt, StateType

LEMMA AddToExcludeScan ==
    ASSUME NEW w \in StateType, NEW start, NEW length
    PROVE  /\ SameScan(w, AddToExclude(w, start, length))
           /\ AddToExclude(w, start, length).current = w.current
BY DEF AddToExclude, SameScan, Assertt, StateType

LEMMA AddUnknownSequenceScan ==
    ASSUME NEW w \in StateType, NEW start, NEW length
    PROVE  /\ SameScan(w, AddUnknownSequence(w, start, length))
           /\ AddUnknownSequence(w, start, length).current = w.current
BY DEF AddUnknownSequence, AddToExclude, SameScan, Assertt, StateType

LEMMA FinalizeBookkeeping ==
    ASSUME NEW w \in StateType, ~NoLastTrack(w)
    PROVE  Bookkeeping(w, FinalizeCurrentChunk(w))
<1> DEFINE t == w.last_track
           x == FinalizeCurrentChunk(w)
<1>1. t \in AllTracks
  BY DEF StateType, NoLastTrack
<1>2. w.current \in [AllTracks -> ChunkRecord] /\ Free \in AllTracks
  BY DEF StateType, AllTracks
<1>3. SameScan(w, x) /\ SameExclusions(w, x)
  BY DEF FinalizeCurrentChunk, SameScan, SameExclusions, Assertt, StateType
<1>4. x.current = w.current
        \/ x.current = [w.current EXCEPT ![t].n = 0, ![t].size = 0]
  BY DEF FinalizeCurrentChunk, Assertt, StateType
<1>5. FreeEmpty(w) => FreeEmpty(x)
  BY <1>1, <1>2, <1>4 DEF FreeEmpty, ChunkRecord
<1>6. QED
  BY <1>3, <1>5 DEF Bookkeeping

LEMMA PushBackBookkeeping ==
    ASSUME NEW w \in StateType
    PROVE  Bookkeeping(w, PushBackLastChunk(w))
<1> DEFINE c == w.current[w.last_track]
           x == AddUnknownSequence(w, c.off, c.size)
           y == IF w.last_track = Free /\ c.n > 0 /\ c.size > 0 THEN x ELSE w
<1>1. CASE NoLastTrack(w)
  BY <1>1 DEF PushBackLastChunk, Bookkeeping, SameScan, SameExclusions
<1>2. CASE ~NoLastTrack(w)
  <2>1. w.last_track \in AllTracks
    BY <1>2 DEF StateType, NoLastTrack
  <2>2. c.off \in Int /\ c.size \in Nat
    BY <2>1 DEF StateType, ChunkRecord
  <2>3. x \in StateType
    BY <2>2, AddUnknownSequenceType
  <2>4. SameScan(w, x) /\ x.current = w.current
    BY AddUnknownSequenceScan
  <2>5. FreeEmpty(w) => y = w
    BY DEF FreeEmpty
  <2>6. Bookkeeping(w, y) /\ y \in StateType /\ y.last_track = w.last_track
    BY <2>3, <2>4, <2>5 DEF Bookkeeping, SameScan, SameExclusions
  <2>7. PushBackLastChunk(w) = FinalizeCurrentChunk(y)
    BY <1>2 DEF PushBackLastChunk
  <2> HIDE DEF y
  <2>8. ~NoLastTrack(y)
    BY <1>2, <2>6 DEF NoLastTrack
  <2>9. Bookkeeping(y, FinalizeCurrentChunk(y))
    BY <2>6, <2>8, FinalizeBookkeeping
  <2>10. QED
    BY <2>6, <2>7, <2>9, BookkeepingTrans
<1>3. QED
  BY <1>1, <1>2

LEMMA CorrectBookkeeping ==
    ASSUME NEW w \in StateType, NEW t
    PROVE  Bookkeeping(w, CorrectChunkIdx(w, t))
BY DEF CorrectChunkIdx, Bookkeeping, SameScan, SameExclusions, FreeEmpty, Assertt, StateType

LEMMA OnFirstBookkeeping ==
    ASSUME NEW w \in StateType, job \in Jobs, NEW t
    PROVE  Bookkeeping(w, OnFirstChunkFound(w, t))
<1> DEFINE x == Assertt([w EXCEPT !.first_chunk_found = TRUE],
                        w.next_chunk = 0, "onFirstChunkFound")
<1>1. x \in StateType
  BY DEF StateType, Failures, Assertt
<1>2. Bookkeeping(w, x)
  BY DEF Bookkeeping, SameScan, SameExclusions, FreeEmpty, Assertt, StateType
<1>3. Bookkeeping(x, CorrectChunkIdx(x, t))
  <2> HIDE DEF x
  <2>1. QED
    BY <1>1, CorrectBookkeeping
<1>4. Bookkeeping(w, CorrectChunkIdx(x, t))
  <2> HIDE DEF x
  <2>1. QED
    BY <1>2, <1>3, BookkeepingTrans
<1>5. Bookkeeping(w, w)
  BY DEF Bookkeeping, SameScan, SameExclusions
<1>6. QED
  BY <1>4, <1>5 DEF OnFirstChunkFound

LEMMA OnNewBookkeeping ==
    ASSUME NEW w \in StateType, job \in Jobs, NEW t
    PROVE  Bookkeeping(w, OnNewChunkStarted(w, t))
<1> DEFINE fixed == CorrectChunkIdx(w, t)
           corrected == IF w.ignored_chunk_order
                        THEN [fixed EXCEPT !.ignored_chunk_order = FALSE] ELSE w
           back == PushBackLastChunk(corrected)
           pushed == [back EXCEPT !.done_padding_after = FALSE]
           first == OnFirstChunkFound(pushed, t)
           found == IF pushed.first_chunk_found THEN pushed ELSE first
<1>1. corrected \in StateType /\ Bookkeeping(w, corrected)
  <2>1. fixed \in StateType /\ Bookkeeping(w, fixed)
    BY CorrectChunkIdxType, CorrectBookkeeping
  <2> HIDE DEF fixed
  <2>2. QED
    BY <2>1 DEF StateType, Bookkeeping, SameScan, SameExclusions, FreeEmpty
<1>2. pushed \in StateType /\ Bookkeeping(w, pushed)
  <2> HIDE DEF corrected
  <2>1. back \in StateType /\ Bookkeeping(corrected, back)
    BY <1>1, PushBackLastChunkType, PushBackBookkeeping
  <2> HIDE DEF back
  <2>2. pushed \in StateType /\ Bookkeeping(back, pushed)
    BY <2>1 DEF StateType, Bookkeeping, SameScan, SameExclusions, FreeEmpty
  <2> HIDE DEF pushed
  <2>3. QED
    BY <1>1, <2>1, <2>2, BookkeepingTrans
<1>3. found \in StateType /\ Bookkeeping(w, found)
  <2> HIDE DEF pushed
  <2>1. first \in StateType /\ Bookkeeping(pushed, first)
    BY <1>2, OnFirstChunkFoundType, OnFirstBookkeeping
  <2> HIDE DEF first
  <2>2. QED
    BY <1>2, <2>1, BookkeepingTrans
<1>4. Bookkeeping(w, [found EXCEPT !.next_chunk = @ + 1])
  <2> HIDE DEF found
  <2>1. QED
    BY <1>3 DEF StateType, Bookkeeping, SameScan, SameExclusions, FreeEmpty
<1>5. QED
  BY <1>2, <1>4 DEF OnNewChunkStarted

LEMMA PredictingBookkeeping ==
    ASSUME NEW w \in StateType, NEW p
    PROVE  Bookkeeping(w, Predicting(w, p))
BY DEF Predicting, Bookkeeping, SameScan, SameExclusions, FreeEmpty, Assertt, StateType

LEMMA BeginBookkeeping ==
    ASSUME NEW w \in StateType, NEW t \in AllTracks, NEW off
    PROVE  Bookkeeping(w, BeginChunk(w, t, off))
<1>1. w.current \in [AllTracks -> ChunkRecord] /\ Free \in AllTracks
  BY DEF StateType, AllTracks
<1>2. BeginChunk(w, t, off).current[Free].n = w.current[Free].n
  <2> DEFINE at == [w.current[t] EXCEPT !.off = off, !.already_excluded = w.total_excluded]
  <2>1. at.n = w.current[t].n
    BY <1>1 DEF ChunkRecord
  <2>2. BeginChunk(w, t, off).current = [w.current EXCEPT ![t] = at]
    BY <1>1 DEF BeginChunk, StateType, ChunkRecord
  <2> HIDE DEF at
  <2>3. QED
    BY <1>1, <2>1, <2>2
<1>3. QED
  BY <1>2 DEF BeginChunk, Bookkeeping, SameScan, SameExclusions, FreeEmpty, StateType

LEMMA AfterExpectedBookkeeping ==
    ASSUME NEW w \in StateType, NEW t
    PROVE  Bookkeeping(w, AfterExpected(w, t))
BY CorrectBookkeeping DEF AfterExpected, Bookkeeping, SameScan, SameExclusions

-----------------------------------------------------------------------------
(* Unknown bytes are counted only in a free sequence                       *)

LEMMA ChkEndedScan ==
    ASSUME NEW w \in StateType, NEW off \in Nat
    PROVE  /\ ChkUnknownSequenceEnded(w, off).unknown_length = 0
           /\ ChkUnknownSequenceEnded(w, off).last_track = w.last_track
           /\ ChkUnknownSequenceEnded(w, off).frames = w.frames
           /\ ChkUnknownSequenceEnded(w, off).current = w.current
           /\ ChkUnknownSequenceEnded(w, off).content_size = w.content_size
<1> DEFINE x == AddUnknownSequence(w, off - w.unknown_length, w.unknown_length)
<1>1. w.unknown_length \in Nat
  BY DEF StateType
<1>2. x \in StateType
  BY <1>1, AddUnknownSequenceType
<1>3. SameScan(w, x) /\ x.current = w.current
  BY AddUnknownSequenceScan
<1>4. ChkUnknownSequenceEnded(w, off)
        = IF w.unknown_length = 0 THEN w ELSE [x EXCEPT !.unknown_length = 0]
  BY DEF ChkUnknownSequenceEnded
<1> HIDE DEF x
<1>5. QED
  BY <1>2, <1>3, <1>4 DEF SameScan, StateType

\* A match: the bytes before it are dealt with, then only chunks are kept book of.
LEMMA ChunkForMatchBookkeeping ==
    ASSUME NEW w \in StateType, job \in Jobs, NEW t \in Tracks, NEW off \in Nat
    PROVE  /\ ChunkForMatch(w, t, off).unknown_length = 0
           /\ ChunkForMatch(w, t, off).frames = w.frames
           /\ ChunkForMatch(w, t, off).content_size = w.content_size
           /\ FreeEmpty(w) =>
                /\ FreeEmpty(ChunkForMatch(w, t, off))
                /\ SameExclusions(ChkUnknownSequenceEnded(w, off), ChunkForMatch(w, t, off))
<1> DEFINE chk == ChkUnknownSequenceEnded(w, off)
           ended == IF w.unknown_length > 0 THEN CorrectChunkIdx(chk, t) ELSE w
           found == IF ended.first_chunk_found THEN ended ELSE OnFirstChunkFound(ended, t)
           new == OnNewChunkStarted(found, t)
           started == IF found.last_track = t THEN found ELSE BeginChunk(new, t, off)
           last == OnNewChunkStarted(started, t)
           x == ChunkForMatch(w, t, off)
<1>1. chk \in StateType /\ chk.unknown_length = 0 /\ chk.frames = w.frames
        /\ chk.current = w.current /\ chk.content_size = w.content_size
  BY ChkUnknownSequenceEndedType, ChkEndedScan
<1>2. w.unknown_length \in Nat /\ (w.unknown_length = 0 => chk = w)
  BY DEF StateType, ChkUnknownSequenceEnded
<1>3. ended \in StateType /\ Bookkeeping(chk, ended)
  <2> HIDE DEF chk
  <2>1. Bookkeeping(chk, chk)
    BY DEF Bookkeeping, SameScan, SameExclusions
  <2>2. CorrectChunkIdx(chk, t) \in StateType /\ Bookkeeping(chk, CorrectChunkIdx(chk, t))
    BY <1>1, CorrectChunkIdxType, CorrectBookkeeping
  <2>3. QED
    BY <1>1, <1>2, <2>1, <2>2
<1>4. found \in StateType /\ Bookkeeping(chk, found)
  <2> HIDE DEF chk, ended
  <2>1. OnFirstChunkFound(ended, t) \in StateType
          /\ Bookkeeping(ended, OnFirstChunkFound(ended, t))
    BY <1>3, OnFirstChunkFoundType, OnFirstBookkeeping
  <2>2. QED
    BY <1>3, <2>1, BookkeepingTrans
<1>5. started \in StateType /\ Bookkeeping(chk, started)
  <2> HIDE DEF chk, found
  <2>1. new \in StateType /\ Bookkeeping(found, new)
    BY <1>4, OnNewChunkStartedType, OnNewBookkeeping
  <2> HIDE DEF new
  <2>2. BeginChunk(new, t, off) \in StateType /\ Bookkeeping(new, BeginChunk(new, t, off))
    BY <2>1, BeginChunkType, BeginBookkeeping DEF AllTracks
  <2>3. QED
    BY <1>4, <2>1, <2>2, BookkeepingTrans
<1>6. last \in StateType /\ Bookkeeping(chk, last)
  <2> HIDE DEF chk, started
  <2>1. last \in StateType /\ Bookkeeping(started, last)
    BY <1>5, OnNewChunkStartedType, OnNewBookkeeping
  <2>2. QED
    BY <1>5, <2>1, BookkeepingTrans
<1>7. x = last \/ x = started
  BY Zenon DEF ChunkForMatch
<1>8. Bookkeeping(chk, x)
  <2> HIDE DEF chk, last, started, x
  <2>1. QED
    BY <1>5, <1>6, <1>7
<1> HIDE DEF chk, x
<1>9. QED
  BY <1>1, <1>8 DEF Bookkeeping, SameScan, FreeEmpty, chk, x

LEMMA AddFramesScan ==
    ASSUME NEW w \in StateType, NEW t \in AllTracks, NEW off, NEW n, NEW length
    PROVE  /\ AddFrames(w, t, off, n, length).last_track = t
           /\ AddFrames(w, t, off, n, length).unknown_length = w.unknown_length
           /\ AddFrames(w, t, off, n, length).current = w.current
           /\ AddFrames(w, t, off, n, length).excluded = w.excluded
           /\ AddFrames(w, t, off, n, length).total_excluded = w.total_excluded
           /\ AddFrames(w, t, off, n, length).content_size = w.content_size
BY DEF AddFrames, SetLastTrack, StateType

LEMMA AddFramesFrames ==
    ASSUME NEW w \in StateType, NEW t \in AllTracks, NEW off, NEW n, NEW length
    PROVE  AddFrames(w, t, off, n, length).frames =
             [w.frames EXCEPT ![t] = @ \o NewFrames(off, n, length)]
BY DEF AddFrames, NewFrames, SetLastTrack, StateType

LEMMA AddMatchUnknown ==
    ASSUME NEW w \in StateType, job \in Jobs, NEW off \in Nat, NEW m,
           m.track \in Tracks, m.length \in Nat, m.pad \in Nat
    PROVE  /\ AddMatch(w, off, m).unknown_length = 0
           /\ AddMatch(w, off, m).content_size = w.content_size
<1> DEFINE chunk == ChunkForMatch(w, m.track, off)
           added == AddFrames(chunk, m.track, off, 1, m.length)
           counted == [added EXCEPT !.current[m.track].n = @ + 1]
           padded == AddToExclude(counted, off + m.length, m.pad)
<1>1. m.track \in AllTracks
  BY DEF AllTracks
<1>2. chunk \in StateType /\ chunk.unknown_length = 0 /\ chunk.content_size = w.content_size
  BY ChunkForMatchType, ChunkForMatchBookkeeping
<1>3. added \in StateType /\ added.unknown_length = 0 /\ added.content_size = w.content_size
  <2> HIDE DEF chunk
  <2>1. 1 \in Nat
    OBVIOUS
  <2>2. added \in StateType
    BY <1>1, <1>2, <2>1, AddFramesType, Zenon
  <2>3. added.unknown_length = chunk.unknown_length /\ added.content_size = chunk.content_size
    BY <1>1, <1>2, AddFramesScan
  <2>4. QED
    BY <1>2, <2>2, <2>3
<1>4. counted \in StateType /\ counted.unknown_length = 0 /\ counted.content_size = w.content_size
  <2> HIDE DEF added
  <2>1. added.current \in [AllTracks -> ChunkRecord]
    BY <1>3 DEF StateType
  <2>2. [added.current EXCEPT ![m.track].n = @ + 1] \in [AllTracks -> ChunkRecord]
    BY <1>1, <2>1 DEF ChunkRecord
  <2>3. QED
    BY <1>3, <2>2 DEF StateType
<1>5. padded \in StateType /\ padded.unknown_length = 0 /\ padded.content_size = w.content_size
  <2> HIDE DEF counted
  <2>1. QED
    BY <1>4, AddToExcludeType, AddToExcludeScan DEF SameScan
<1>6. AddMatch(w, off, m)
        = IF m.pad = 0 THEN counted ELSE [padded EXCEPT !.done_padding = TRUE]
  BY Zenon DEF AddMatch
<1> HIDE DEF counted, padded
<1>7. QED
  BY <1>4, <1>5, <1>6 DEF StateType

LEMMA AddPredictedUnknown ==
    ASSUME NEW w \in StateType, job \in Jobs, NEW off \in Nat, NEW c, GoodChunk(c, off)
    PROVE  LET x == AddPredicted(w, off, c)
           IN  /\ \/ x.unknown_length = 0
                  \/ w.unknown_length > 0 /\ x.last_track = w.last_track
               /\ x.content_size = w.content_size
<1> DEFINE longer == [w EXCEPT !.unknown_length = @ + c.size]
           chk == ChkUnknownSequenceEnded(w, off)
           ended == IF w.unknown_length = 0 THEN w
                    ELSE IF c.track = Free THEN longer ELSE CorrectChunkIdx(chk, c.track)
           started == OnNewChunkStarted(ended, c.track)
           filled == [started EXCEPT !.current[c.track] =
                         [off |-> off, already_excluded |-> started.total_excluded,
                          size |-> c.size, n |-> c.n]]
           x == AddPredicted(w, off, c)
<1>1. c.track \in AllTracks /\ c.size \in Nat /\ c.n \in Nat /\ c.sample \in Nat
  BY DEF GoodChunk
<1>2. /\ ended \in StateType /\ ended.content_size = w.content_size
      /\ \/ ended.unknown_length = 0
         \/ c.track = Free /\ w.unknown_length > 0 /\ ended.last_track = w.last_track
  <2>1. /\ longer \in StateType /\ longer.last_track = w.last_track
        /\ longer.content_size = w.content_size
    <3>1. w.unknown_length + c.size \in Nat
      BY <1>1 DEF StateType
    <3>2. \A n \in Nat : [w EXCEPT !.unknown_length = n] \in StateType
                           /\ [w EXCEPT !.unknown_length = n].last_track = w.last_track
                           /\ [w EXCEPT !.unknown_length = n].content_size = w.content_size
      BY DEF StateType
    <3>3. QED
      BY <3>1, <3>2
  <2>2. chk \in StateType /\ chk.unknown_length = 0 /\ chk.content_size = w.content_size
    BY ChkUnknownSequenceEndedType, ChkEndedScan
  <2>3. w.unknown_length \in Nat
    BY DEF StateType
  <2> HIDE DEF longer, chk
  <2>4. CorrectChunkIdx(chk, c.track) \in StateType
          /\ CorrectChunkIdx(chk, c.track).unknown_length = 0
          /\ CorrectChunkIdx(chk, c.track).content_size = w.content_size
    BY <2>2, CorrectChunkIdxType, CorrectBookkeeping DEF Bookkeeping, SameScan
  <2>5. QED
    BY <2>1, <2>3, <2>4
<1>3. started \in StateType /\ SameScan(ended, started)
  <2> HIDE DEF ended
  <2>1. QED
    BY <1>2, OnNewChunkStartedType, OnNewBookkeeping DEF Bookkeeping
<1>4. filled \in StateType /\ SameScan(ended, filled)
  <2> HIDE DEF started, ended
  <2>1. started.current \in [AllTracks -> ChunkRecord] /\ started.total_excluded \in Int
    BY <1>3 DEF StateType
  <2>2. [off |-> off, already_excluded |-> started.total_excluded,
         size |-> c.size, n |-> c.n] \in ChunkRecord
    BY <1>1, <2>1 DEF ChunkRecord
  <2>3. QED
    BY <1>1, <1>3, <2>1, <2>2 DEF StateType, SameScan
<1>5. x = IF c.track = Free THEN filled ELSE AddFrames(filled, c.track, off, c.n, c.sample)
  BY Zenon DEF AddPredicted
<1>6. x.unknown_length = filled.unknown_length /\ x.content_size = filled.content_size
        /\ (c.track = Free => x.last_track = filled.last_track)
  <2> HIDE DEF filled, x
  <2>1. LET y == AddFrames(filled, c.track, off, c.n, c.sample)
        IN  y.unknown_length = filled.unknown_length /\ y.content_size = filled.content_size
    BY <1>1, <1>4, AddFramesScan
  <2>2. QED
    BY <1>5, <2>1
<1> HIDE DEF filled, x, ended
<1>7. QED
  BY <1>2, <1>4, <1>6 DEF SameScan, x

LEMMA UnknownInit == Init => UnknownOnlyInFree
BY DEF Init, InitState, UnknownOnlyInFree

\* tryAll has failed: a free sequence begins or goes on.
LEMMA EnterUnknownTrack ==
    ASSUME NEW w \in StateType, w.unknown_length > 0 => w.last_track = Free
    PROVE  /\ EnterUnknown(w).last_track = Free
           /\ EnterUnknown(w).unknown_length = w.unknown_length
           /\ EnterUnknown(w).frames = w.frames
           /\ EnterUnknown(w).content_size = w.content_size
           /\ FreeEmpty(w) => /\ FreeEmpty(EnterUnknown(w))
                              /\ SameExclusions(w, EnterUnknown(w))
<1> DEFINE back == PushBackLastChunk(w)
<1>1. back \in StateType /\ Bookkeeping(w, back)
  BY PushBackLastChunkType, PushBackBookkeeping
<1>2. EnterUnknown(w) = IF w.unknown_length = 0 THEN SetLastTrack(back, Free) ELSE w
  BY DEF EnterUnknown
<1>3. w.unknown_length \in Nat
  BY DEF StateType
<1> HIDE DEF back
<1>4. CASE w.unknown_length = 0
  BY <1>1, <1>2, <1>4 DEF SetLastTrack, StateType, Bookkeeping, SameScan, SameExclusions, FreeEmpty
<1>5. CASE w.unknown_length > 0
  BY <1>2, <1>5 DEF SameExclusions
<1>6. QED
  BY <1>3, <1>4, <1>5

\* What advanceOffset may have asked for before it skips an atom or ends.
LEMMA ZeroTestsBookkeeping ==
    ASSUME st \in StateType, job \in Jobs, NEW w \in ZeroTests
    PROVE  Bookkeeping(st, w)
<1>1. w = st \/ \E p \in Predictions(st, offset, TRUE) : w = Predicting(st, p)
  BY Zenon DEF ZeroTests
<1>2. Bookkeeping(st, st)
  BY DEF Bookkeeping, SameScan, SameExclusions
<1>3. QED
  BY <1>1, <1>2, PredictingBookkeeping

LEMMA AfterZerosBookkeeping ==
    ASSUME st \in StateType, NEW w \in AfterZeros
    PROVE  Bookkeeping(st, w)
<1>1. w = st \/ \E p \in Misses(st, offset, TRUE) : w = Predicting(st, p)
  BY DEF AfterZeros
<1>2. Bookkeeping(st, st)
  BY DEF Bookkeeping, SameScan, SameExclusions
<1>3. QED
  BY <1>1, <1>2, PredictingBookkeeping

LEMMA ThrowBookkeeping ==
    ASSUME st \in StateType, ThrowBeyondEnd
    PROVE  Bookkeeping(st, st')
BY DEF ThrowBeyondEnd, Bookkeeping, SameScan, SameExclusions, FreeEmpty, StateType

LEMMA BeforeMatchBookkeeping ==
    ASSUME st \in StateType, job \in Jobs, NEW w \in BeforeMatch
    PROVE  Bookkeeping(st, w)
<1>1. w = st \/ \E p \in Misses(st, offset, FALSE) : w = Predicting(st, p)
  BY DEF BeforeMatch
<1>2. Bookkeeping(st, st)
  BY DEF Bookkeeping, SameScan, SameExclusions
<1>3. QED
  BY <1>1, <1>2, PredictingBookkeeping

LEMMA AfterAdvanceScan ==
    ASSUME NEW w \in StateType, offset \in Nat, from \in Nat
    PROVE  /\ SameScan(w, AfterAdvance(w))
           /\ AfterAdvance(w).current = w.current
<1> DEFINE first == IF ExcludedEnd(w) > from THEN ExcludedEnd(w) ELSE from
           ok == Assertt(w, offset >= first, "chkExcludeOverlap")
<1>1. ok \in StateType /\ SameScan(w, ok) /\ ok.current = w.current
  BY DEF Assertt, StateType, Failures, SameScan
<1>2. AfterAdvance(w) = w \/ AfterAdvance(w) = AddToExclude(ok, first, offset - first)
  BY DEF AfterAdvance, ExcludeSkipped
<1> HIDE DEF ok, first
<1>3. SameScan(ok, AddToExclude(ok, first, offset - first))
        /\ AddToExclude(ok, first, offset - first).current = ok.current
  BY <1>1, AddToExcludeScan
<1>4. QED
  BY <1>1, <1>2, <1>3 DEF SameScan

\* The state in which a step over unknown bytes, or the end, finds the scan.
LEMMA UnknownStepStart ==
    ASSUME TypeInv, UnknownOnlyInFree, pc = "try", NEW p \in Misses(st, offset, FALSE)
    PROVE  LET w == EnterUnknown(IF job.use_chunk_stats THEN Predicting(st, p) ELSE st)
           IN  /\ w \in StateType
               /\ w.last_track = Free
               /\ w.unknown_length = st.unknown_length
               /\ w.frames = st.frames
               /\ w.content_size = st.content_size
               /\ FreeEmpty(st) => FreeEmpty(w) /\ SameExclusions(st, w)
<1> DEFINE x == IF job.use_chunk_stats THEN Predicting(st, p) ELSE st
<1>1. /\ job \in Jobs /\ st \in StateType /\ offset \in Nat /\ offset <= Size
  BY SizeAssumption DEF TypeInv, TypeOK
<1>2. p.ignored \in BOOLEAN
  BY <1>1, MissesType, Zenon
<1>3. x \in StateType /\ Bookkeeping(st, x)
  <2>1. Bookkeeping(st, st)
    BY DEF Bookkeeping, SameScan, SameExclusions
  <2>2. Predicting(st, p) \in StateType /\ Bookkeeping(st, Predicting(st, p))
    BY <1>1, <1>2, PredictingType, PredictingBookkeeping
  <2>3. QED
    BY <1>1, <2>1, <2>2
<1>4. x.unknown_length > 0 => x.last_track = Free
  BY <1>3 DEF UnknownOnlyInFree, Bookkeeping, SameScan
<1> HIDE DEF x
<1>5. /\ EnterUnknown(x) \in StateType
      /\ EnterUnknown(x).last_track = Free
      /\ EnterUnknown(x).unknown_length = x.unknown_length
      /\ EnterUnknown(x).frames = x.frames
      /\ EnterUnknown(x).content_size = x.content_size
      /\ FreeEmpty(x) => FreeEmpty(EnterUnknown(x)) /\ SameExclusions(x, EnterUnknown(x))
  BY <1>3, <1>4, EnterUnknownTrack, EnterUnknownType
<1>6. QED
  BY <1>3, <1>5 DEF Bookkeeping, SameScan, SameExclusions, x

LEMMA UnknownNext == TypeInv /\ UnknownOnlyInFree /\ [Next]_vars => UnknownOnlyInFree'
<1> SUFFICES ASSUME TypeInv, UnknownOnlyInFree, [Next]_vars PROVE UnknownOnlyInFree'
  OBVIOUS
<1>0. /\ job \in Jobs /\ offset \in Nat /\ from \in Nat /\ st \in StateType
      /\ Size \in Nat \ {0}
  BY SizeAssumption DEF TypeInv, TypeOK
<1>1. ASSUME SameScan(st, st')
      PROVE  UnknownOnlyInFree'
  BY <1>1 DEF SameScan, UnknownOnlyInFree
<1>2. ASSUME st'.unknown_length = 0
      PROVE  UnknownOnlyInFree'
  BY <1>2 DEF UnknownOnlyInFree
<1>3. CASE CalcStartOffset
  <2>1. PICK p \in StartPoints :
          st' = IF p.off = 0 THEN st ELSE AddUnknownSequence(st, p.skipped, p.off)
    BY <1>3 DEF CalcStartOffset
  <2>2. SameScan(st, AddUnknownSequence(st, p.skipped, p.off))
    BY <1>0, AddUnknownSequenceScan
  <2>3. QED
    BY <1>1, <2>1, <2>2 DEF SameScan
<1>4. CASE GetChunkPadding
  BY <1>0, <1>4 DEF GetChunkPadding, UnknownOnlyInFree, StateType
<1>5. CASE SkipZeros
  BY <1>0, <1>1, <1>5, AfterZerosBookkeeping DEF SkipZeros, Bookkeeping
<1>6. CASE SkipAtom
  <2>1. PICK w \in ZeroTests : st' = ChkUnknownSequenceEnded(w, offset)
    BY <1>6 DEF SkipAtom
  <2>2. w \in StateType
    BY <1>0, <1>6, ZeroTestsType DEF SkipAtom
  <2>3. QED
    BY <1>0, <1>2, <2>1, <2>2, ChkEndedScan
<1>7. CASE EndAdvance
  <2>1. PICK w \in ZeroTests : st' = AfterAdvance(w)
    BY <1>7 DEF EndAdvance
  <2>2. w \in StateType /\ Bookkeeping(st, w)
    BY <1>0, <1>7, ZeroTestsType, ZeroTestsBookkeeping DEF EndAdvance
  <2>3. SameScan(w, AfterAdvance(w))
    BY <1>0, <2>2, AfterAdvanceScan
  <2>4. QED
    BY <1>1, <2>1, <2>2, <2>3 DEF Bookkeeping, SameScan
<1>8. CASE ReachEnd
  <2> DEFINE x == PushBackLastChunk(AfterAdvance(st))
  <2>1. AfterAdvance(st) \in StateType
    BY <1>0, AfterAdvanceType, Zenon
  <2>2. x \in StateType
    BY <2>1, PushBackLastChunkType
  <2>3. st' = ChkUnknownSequenceEnded(x, offset)
    BY <1>8 DEF ReachEnd
  <2> HIDE DEF x
  <2>4. QED
    BY <1>0, <1>2, <2>2, <2>3, ChkEndedScan
<1>9. CASE TryMatch
  <2>1. offset < Size
    BY <1>9 DEF TryMatch, TypeInv
  <2>2. PICK w \in BeforeMatch : \E m \in Matches(w, offset) :
          st' = AddMatch(AfterExpected(w, m.track), offset, m)
    BY <1>9 DEF TryMatch
  <2>3. PICK m \in Matches(w, offset) : st' = AddMatch(AfterExpected(w, m.track), offset, m)
    BY <2>2
  <2>4. w \in StateType
    BY <1>0, <2>1, BeforeMatchType
  <2>5. m.track \in Tracks /\ m.length \in Nat /\ m.pad \in Nat
    BY <1>0, <2>4, MatchesType
  <2>6. AfterExpected(w, m.track) \in StateType
    BY <1>0, <2>4, <2>5, AfterExpectedType
  <2>7. QED
    BY <1>0, <1>2, <2>3, <2>5, <2>6, AddMatchUnknown
<1>10. CASE TryChunkPrediction
  <2>1. PICK p \in Predictions(st, offset, FALSE) :
          /\ p.chunk # Nothing
          /\ st' = AddPredicted(Predicting(st, p), offset, p.chunk)
    BY <1>10 DEF TryChunkPrediction
  <2>2. offset <= Size
    BY <1>0, <1>10 DEF TryChunkPrediction, TypeInv
  <2>3. p.ignored \in BOOLEAN /\ GoodChunk(p.chunk, offset)
    BY <1>0, <2>1, <2>2, PredictionsGood, Zenon
  <2>4. Predicting(st, p) \in StateType /\ SameScan(st, Predicting(st, p))
    BY <1>0, <2>3, PredictingType, PredictingBookkeeping DEF Bookkeeping
  <2>5. \/ st'.unknown_length = 0
        \/ Predicting(st, p).unknown_length > 0 /\ st'.last_track = Predicting(st, p).last_track
    BY <1>0, <2>1, <2>3, <2>4, AddPredictedUnknown
  <2>6. QED
    BY <1>2, <2>4, <2>5 DEF SameScan, UnknownOnlyInFree
<1>11. CASE StepThroughUnknown
  <2>1. PICK p \in Misses(st, offset, FALSE) :
          LET w == EnterUnknown(IF job.use_chunk_stats THEN Predicting(st, p) ELSE st)
          IN  st' = [w EXCEPT !.unknown_length = @ + CalcStep(w, offset)]
    BY <1>11 DEF StepThroughUnknown
  <2> DEFINE w == EnterUnknown(IF job.use_chunk_stats THEN Predicting(st, p) ELSE st)
  <2>2. w \in StateType /\ w.last_track = Free
    BY <1>11, UnknownStepStart DEF StepThroughUnknown
  <2>3. st' = [w EXCEPT !.unknown_length = @ + CalcStep(w, offset)]
    BY <2>1
  <2> HIDE DEF w
  <2>4. QED
    BY <2>2, <2>3 DEF UnknownOnlyInFree, StateType
<1>12. CASE PrematureEnd
  <2>1. PICK p \in Misses(st, offset, FALSE) :
          LET w == EnterUnknown(IF job.use_chunk_stats THEN Predicting(st, p) ELSE st)
          IN  st' = [w EXCEPT !.content_size = offset]
    BY <1>12 DEF PrematureEnd
  <2> DEFINE w == EnterUnknown(IF job.use_chunk_stats THEN Predicting(st, p) ELSE st)
  <2>2. w \in StateType /\ w.last_track = Free
    BY <1>12, UnknownStepStart DEF PrematureEnd
  <2>3. st' = [w EXCEPT !.content_size = offset]
    BY <2>1
  <2> HIDE DEF w
  <2>4. QED
    BY <2>2, <2>3 DEF UnknownOnlyInFree, StateType
<1>13. CASE ThrowBeyondEnd
  BY <1>0, <1>1, <1>13, ThrowBookkeeping DEF Bookkeeping
<1>14. CASE UNCHANGED vars
  BY <1>14 DEF vars, UnknownOnlyInFree
<1>15. QED
  BY <1>3, <1>4, <1>5, <1>6, <1>7, <1>8, <1>9, <1>10, <1>11, <1>12, <1>13, <1>14 DEF Next

\* Unknown bytes are counted only in a free sequence, as shouldBeStrict asserts,
\* whatever was predicted, matched or skipped before.
THEOREM UnknownBytesInFree == Spec => []UnknownOnlyInFree
<1>1. TypeInv /\ UnknownOnlyInFree /\ [Next]_vars => (TypeInv /\ UnknownOnlyInFree)'
  BY NextType, UnknownNext
<1>2. QED
  BY <1>1, InitType, UnknownInit, PTL DEF Spec

-----------------------------------------------------------------------------
(***************************************************************************)
(* The byte ranges of the scan, proved for every content and every         *)
(* reference that is Orderly: exclusions are in order and counted right,   *)
(* no byte of a frame is left out or belongs to two frames, and what is    *)
(* excluded later lies behind every frame.                                 *)
(***************************************************************************)
\* What of a reference file would break the theorems: free chunks that are padding
\* or have one size, a first chunk behind the start, and frames that may end beyond
\* the content and are padded.
Orderly(j) ==
    /\ ~(j.has_free /\ j.ref[Free].end_gcd >= PaddingGcd)
    /\ ~j.ref[Free].predictable
    /\ j.first_rel = 0
    /\ \A t \in Tracks : j.ref[t].bounded \/ j.ref[t].pkt_sz_gcd = 1

-----------------------------------------------------------------------------
(* The invariant                                                           *)

RangeBytes(w) == UNION {Bytes(w.excluded[i]) : i \in DOMAIN w.excluded}

ExclusionsApart(w) ==
    /\ \A i, j \in DOMAIN w.excluded :
         i < j => w.excluded[i].start + w.excluded[i].length <= w.excluded[j].start
    /\ \A i \in DOMAIN w.excluded :
         /\ w.excluded[i].start >= 0 /\ w.excluded[i].length >= 0
         /\ w.excluded[i].start + w.excluded[i].length <= Size

Counted(w) ==
    /\ IsFiniteSet(RangeBytes(w))
    /\ w.total_excluded = Cardinality(RangeBytes(w))

\* Two ranges of the content have no byte in common.
Apart(start, end, start2, end2) == end <= start2 \/ end2 <= start

FramesApart(w) ==
    /\ \A t \in Tracks : \A i \in DOMAIN w.frames[t], j \in DOMAIN w.excluded :
         Apart(w.frames[t][i].off, w.frames[t][i].off + w.frames[t][i].length,
               w.excluded[j].start, w.excluded[j].start + w.excluded[j].length)
    /\ \A t, u \in Tracks : \A i \in DOMAIN w.frames[t], j \in DOMAIN w.frames[u] :
         (t # u \/ i # j) =>
           Apart(w.frames[t][i].off, w.frames[t][i].off + w.frames[t][i].length,
                 w.frames[u][j].off, w.frames[u][j].off + w.frames[u][j].length)

Book(w) == ExclusionsApart(w) /\ Counted(w) /\ FramesApart(w)

FramesBehind(w, f) ==
    \A t \in Tracks : \A i \in DOMAIN w.frames[t] :
        w.frames[t][i].off + w.frames[t][i].length <= f

\* No frame and no exclusion reaches beyond f.
Behind(w, f) ==
    /\ \A i \in DOMAIN w.excluded : w.excluded[i].start + w.excluded[i].length <= f
    /\ FramesBehind(w, f)

\* Where the unknown bytes that are being counted begin; the offset without any.
Reached == offset - st.unknown_length

UnknownInv ==
    /\ st.unknown_length <= offset
    /\ st.unknown_length > 0 => Reached < Size
    /\ (st.unknown_length > 0 /\ ~job.use_chunk_stats) => st.unknown_length >= job.step

PlaceInv ==
    /\ pc = "start" => offset = 0 /\ st.unknown_length = 0
    /\ pc = "skip" =>
         /\ from <= offset
         /\ offset > from => from < Size
         /\ FramesBehind(st, from)

RangeInv ==
    /\ TypeInv /\ UnknownOnlyInFree /\ FreeEmpty(st)
    /\ Book(st) /\ Behind(st, Reached)
    /\ UnknownInv /\ PlaceInv

-----------------------------------------------------------------------------
(* One more exclusion                                                      *)

\* x is w with one exclusion added.
Excludes(w, x, start, length) ==
    LET n == Len(w.excluded)
    IN  /\ Len(x.excluded) = n + 1
        /\ DOMAIN x.excluded = 1 .. n + 1
        /\ \A i \in 1 .. n : x.excluded[i] = w.excluded[i]
        /\ x.excluded[n + 1].start = start
        /\ x.excluded[n + 1].length = length

\* x is w with, perhaps, exclusions from f on added.
Grows(w, x, f) ==
    /\ Len(w.excluded) <= Len(x.excluded)
    /\ \A i \in DOMAIN w.excluded : x.excluded[i] = w.excluded[i]
    /\ \A i \in DOMAIN x.excluded \ DOMAIN w.excluded : x.excluded[i].start >= f

LEMMA ExcludedType ==
    ASSUME NEW w \in StateType
    PROVE  /\ w.excluded \in Seq([start : Int, length : Int])
           /\ DOMAIN w.excluded = 1 .. Len(w.excluded)
           /\ Len(w.excluded) \in Nat
           /\ \A i \in DOMAIN w.excluded :
                w.excluded[i].start \in Int /\ w.excluded[i].length \in Int
<1>1. w.excluded \in Seq([start : Int, length : Int])
  BY DEF StateType
<1>2. \A i \in 1 .. Len(w.excluded) : w.excluded[i] \in [start : Int, length : Int]
  BY <1>1, ElementInSet, Zenon
<1>3. DOMAIN w.excluded = 1 .. Len(w.excluded) /\ Len(w.excluded) \in Nat
  BY <1>1
<1>4. QED
  BY <1>1, <1>2, <1>3

LEMMA FramesType ==
    ASSUME NEW w \in StateType, NEW t \in AllTracks
    PROVE  /\ w.frames[t] \in Seq([off : Nat, length : Nat])
           /\ DOMAIN w.frames[t] = 1 .. Len(w.frames[t])
           /\ Len(w.frames[t]) \in Nat
           /\ \A i \in DOMAIN w.frames[t] :
                w.frames[t][i].off \in Nat /\ w.frames[t][i].length \in Nat
<1>1. w.frames[t] \in Seq([off : Nat, length : Nat])
  BY DEF StateType
<1>2. \A i \in 1 .. Len(w.frames[t]) : w.frames[t][i] \in [off : Nat, length : Nat]
  BY <1>1, ElementInSet, Zenon
<1>3. DOMAIN w.frames[t] = 1 .. Len(w.frames[t]) /\ Len(w.frames[t]) \in Nat
  BY <1>1
<1>4. QED
  BY <1>1, <1>2, <1>3

LEMMA AppendExcludes ==
    ASSUME NEW w \in StateType, NEW x, NEW start \in Int, NEW length \in Int,
           x.excluded = Append(w.excluded, [start |-> start, length |-> length])
    PROVE  Excludes(w, x, start, length)
<1>1. w.excluded \in Seq([start : Int, length : Int])
  BY ExcludedType
<1>2. PICK e \in [start : Int, length : Int] : e = [start |-> start, length |-> length]
  OBVIOUS
<1>3. x.excluded = Append(w.excluded, e)
  BY <1>2
<1>4. QED
  BY <1>1, <1>2, <1>3 DEF Excludes

LEMMA ExcludesGrows ==
    ASSUME NEW w \in StateType, NEW x, NEW start \in Int, NEW length \in Int,
           Excludes(w, x, start, length), NEW f \in Int, f <= start
    PROVE  Grows(w, x, f)
<1> DEFINE n == Len(w.excluded)
<1>1. n \in Nat /\ DOMAIN w.excluded = 1 .. n
  BY ExcludedType
<1>2. /\ Len(x.excluded) = n + 1
      /\ DOMAIN x.excluded = 1 .. n + 1
      /\ \A i \in 1 .. n : x.excluded[i] = w.excluded[i]
      /\ x.excluded[n + 1].start = start
  BY DEF Excludes
<1>3. Grows(w, x, f) <=> /\ n <= n + 1
                         /\ \A i \in 1 .. n : x.excluded[i] = w.excluded[i]
                         /\ \A i \in 1 .. n + 1 \ 1 .. n : x.excluded[i].start >= f
  BY <1>1, <1>2 DEF Grows
<1> HIDE DEF n
<1>4. 1 .. n + 1 \ 1 .. n = {n + 1}
  BY <1>1
<1>5. QED
  BY <1>1, <1>2, <1>3, <1>4

LEMMA ExcludesApart ==
    ASSUME NEW w \in StateType, NEW x, NEW start \in Nat, NEW length \in Nat,
           Excludes(w, x, start, length),
           start + length <= Size, ExclusionsApart(w),
           NEW f \in Int, f <= start,
           \A i \in DOMAIN w.excluded : w.excluded[i].start + w.excluded[i].length <= f
    PROVE  ExclusionsApart(x)
<1> DEFINE n == Len(w.excluded)
<1>1. n \in Nat /\ DOMAIN w.excluded = 1 .. n
  BY ExcludedType
<1>2. /\ DOMAIN x.excluded = 1 .. n + 1
      /\ \A i \in 1 .. n : x.excluded[i] = w.excluded[i]
      /\ x.excluded[n + 1].start = start
      /\ x.excluded[n + 1].length = length
  BY DEF Excludes
<1> HIDE DEF n
<1>3. \A i \in 1 .. n : /\ x.excluded[i].start \in Int /\ x.excluded[i].length \in Int
                        /\ x.excluded[i].start + x.excluded[i].length <= start
  <2> SUFFICES ASSUME NEW i \in 1 .. n
               PROVE  /\ x.excluded[i].start \in Int /\ x.excluded[i].length \in Int
                      /\ x.excluded[i].start + x.excluded[i].length <= start
    OBVIOUS
  <2>1. w.excluded[i].start \in Int /\ w.excluded[i].length \in Int
    BY <1>1, ExcludedType, Zenon
  <2>2. w.excluded[i].start + w.excluded[i].length <= f
    BY <1>1, Zenon
  <2>3. QED
    BY <1>2, <2>1, <2>2
<1>4. ASSUME NEW i \in 1 .. n + 1, NEW j \in 1 .. n + 1, i < j
      PROVE  x.excluded[i].start + x.excluded[i].length <= x.excluded[j].start
  <2>1. i \in 1 .. n
    BY <1>1, <1>4
  <2>2. CASE j = n + 1
    BY <1>2, <1>3, <2>1, <2>2
  <2>3. CASE j \in 1 .. n
    <3>1. w.excluded[i].start + w.excluded[i].length <= w.excluded[j].start
      BY <1>1, <1>4, <2>1, <2>3, Zenon DEF ExclusionsApart
    <3>2. QED
      BY <1>2, <2>1, <2>3, <3>1
  <2>4. QED
    BY <1>1, <2>2, <2>3
<1>5. ASSUME NEW i \in 1 .. n + 1
      PROVE  /\ x.excluded[i].start >= 0 /\ x.excluded[i].length >= 0
             /\ x.excluded[i].start + x.excluded[i].length <= Size
  <2>1. CASE i = n + 1
    BY <1>2, <2>1
  <2>2. CASE i \in 1 .. n
    BY <1>1, <1>2, <2>2 DEF ExclusionsApart
  <2>3. QED
    BY <1>1, <2>1, <2>2
<1>6. QED
  BY <1>2, <1>4, <1>5 DEF ExclusionsApart

LEMMA ExcludesCounted ==
    ASSUME NEW w \in StateType, NEW x, NEW start \in Nat, NEW length \in Nat,
           Excludes(w, x, start, length),
           x.total_excluded = w.total_excluded + length,
           Counted(w), NEW f \in Int, f <= start,
           \A i \in DOMAIN w.excluded : w.excluded[i].start + w.excluded[i].length <= f
    PROVE  Counted(x)
<1> DEFINE n == Len(w.excluded)
           new == start .. start + length - 1
<1>1. n \in Nat /\ DOMAIN w.excluded = 1 .. n
  BY ExcludedType
<1>2. /\ DOMAIN x.excluded = 1 .. n + 1
      /\ \A i \in 1 .. n : x.excluded[i] = w.excluded[i]
      /\ x.excluded[n + 1].start = start
      /\ x.excluded[n + 1].length = length
  BY DEF Excludes
<1> HIDE DEF n
<1>3. RangeBytes(x) = RangeBytes(w) \cup new
  <2>1. Bytes(x.excluded[n + 1]) = new
    BY <1>2 DEF Bytes
  <2>2. \A i \in 1 .. n : Bytes(x.excluded[i]) = Bytes(w.excluded[i])
    BY <1>1, <1>2
  <2>3. 1 .. n + 1 = 1 .. n \cup {n + 1}
    BY <1>1
  <2>4. DOMAIN x.excluded = DOMAIN w.excluded \cup {n + 1}
    BY <1>1, <1>2, <2>3, Zenon
  <2>5. \A i \in DOMAIN w.excluded : Bytes(x.excluded[i]) = Bytes(w.excluded[i])
    BY <1>1, <2>2, Zenon
  <2> HIDE DEF new
  <2>6. ASSUME NEW b
        PROVE  b \in RangeBytes(x) <=> b \in RangeBytes(w) \/ b \in new
    <3>1. b \in RangeBytes(x) <=> \E i \in DOMAIN x.excluded : b \in Bytes(x.excluded[i])
      BY Zenon DEF RangeBytes
    <3>2. b \in RangeBytes(w) <=> \E i \in DOMAIN w.excluded : b \in Bytes(w.excluded[i])
      BY Zenon DEF RangeBytes
    <3>3. QED
      BY <2>1, <2>4, <2>5, <3>1, <3>2, Zenon
  <2>7. QED
    BY <2>6, Zenon
<1>4. RangeBytes(w) \cap new = {}
  <2> SUFFICES ASSUME NEW i \in DOMAIN w.excluded, NEW b \in Bytes(w.excluded[i]), b \in new
               PROVE  FALSE
    BY DEF RangeBytes
  <2>1. w.excluded[i].start \in Int /\ w.excluded[i].length \in Int
    BY ExcludedType
  <2>2. b < f
    BY <2>1 DEF Bytes
  <2>3. QED
    BY <2>2
<1>5. IsFiniteSet(new) /\ Cardinality(new) = length
  <2>1. start \in Int /\ start + length - 1 \in Int
    OBVIOUS
  <2>2. IsFiniteSet(new) /\ Cardinality(new) = IF start > start + length - 1 THEN 0
                                               ELSE (start + length - 1) - start + 1
    BY <2>1, FS_Interval, Zenon
  <2>3. QED
    BY <2>2
<1>6. IsFiniteSet(RangeBytes(w)) /\ w.total_excluded = Cardinality(RangeBytes(w))
  BY DEF Counted
<1> HIDE DEF new
<1>7. /\ IsFiniteSet(RangeBytes(w) \cup new)
      /\ Cardinality(RangeBytes(w) \cup new)
           = Cardinality(RangeBytes(w)) + Cardinality(new) - Cardinality(RangeBytes(w) \cap new)
  BY <1>5, <1>6, FS_Union
<1>8. Cardinality(RangeBytes(w) \cap new) = 0
  BY <1>4, FS_EmptySet
<1>9. Cardinality(RangeBytes(w)) \in Nat
  BY <1>6, FS_CardinalityType
<1>10. QED
  BY <1>3, <1>5, <1>6, <1>7, <1>8, <1>9 DEF Counted


LEMMA ExcludesFramesApart ==
    ASSUME NEW w \in StateType, NEW x, NEW start \in Nat, NEW length \in Nat,
           Excludes(w, x, start, length), x.frames = w.frames,
           FramesApart(w), NEW f \in Int, f <= start, FramesBehind(w, f)
    PROVE  FramesApart(x)
<1> DEFINE n == Len(w.excluded)
<1>1. n \in Nat /\ DOMAIN w.excluded = 1 .. n
  BY ExcludedType
<1>2. /\ DOMAIN x.excluded = 1 .. n + 1
      /\ \A i \in 1 .. n : x.excluded[i] = w.excluded[i]
      /\ x.excluded[n + 1].start = start
  BY DEF Excludes
<1> HIDE DEF n
<1>3. ASSUME NEW t \in Tracks, NEW i \in DOMAIN w.frames[t], NEW j \in 1 .. n + 1
      PROVE  Apart(w.frames[t][i].off, w.frames[t][i].off + w.frames[t][i].length,
                   x.excluded[j].start, x.excluded[j].start + x.excluded[j].length)
  <2>1. CASE j \in 1 .. n
    BY <1>1, <1>2, <2>1, Zenon DEF FramesApart
  <2>2. CASE j = n + 1
    <3>1. t \in AllTracks
      BY DEF AllTracks
    <3>2. w.frames[t][i].off \in Nat /\ w.frames[t][i].length \in Nat
      BY <3>1, FramesType, Zenon
    <3>3. w.frames[t][i].off + w.frames[t][i].length <= f
      BY DEF FramesBehind
    <3>4. x.excluded[j].start = start
      BY <1>2, <2>2
    <3>5. w.frames[t][i].off + w.frames[t][i].length <= start
      BY <3>2, <3>3
    <3>6. QED
      BY <3>4, <3>5 DEF Apart
  <2>3. QED
    BY <1>1, <2>1, <2>2
<1>4. QED
  BY <1>2, <1>3, Zenon DEF FramesApart

LEMMA ExcludesBehind ==
    ASSUME NEW w \in StateType, NEW x, NEW start \in Nat, NEW length \in Nat,
           NEW f \in Int, f <= start, NEW e \in Int,
           \/ Excludes(w, x, start, length) /\ start + length <= e
           \/ x.excluded = w.excluded /\ start <= e,
           x.frames = w.frames, Behind(w, f)
    PROVE  Behind(x, e)
<1> DEFINE n == Len(w.excluded)
<1>1. n \in Nat /\ DOMAIN w.excluded = 1 .. n
  BY ExcludedType
<1> HIDE DEF n
<1>2. FramesBehind(x, e)
  <2> SUFFICES ASSUME NEW t \in Tracks, NEW i \in DOMAIN w.frames[t]
               PROVE  w.frames[t][i].off + w.frames[t][i].length <= e
    BY DEF FramesBehind
  <2>1. t \in AllTracks
    BY DEF AllTracks
  <2>2. w.frames[t][i].off \in Nat /\ w.frames[t][i].length \in Nat
    BY <2>1, FramesType, Zenon
  <2>3. w.frames[t][i].off + w.frames[t][i].length <= f
    BY DEF FramesBehind, Behind
  <2>4. QED
    BY <2>2, <2>3
<1>3. ASSUME NEW i \in 1 .. n
      PROVE  w.excluded[i].start + w.excluded[i].length <= e
  <2>1. w.excluded[i].start \in Int /\ w.excluded[i].length \in Int
    BY <1>1, ExcludedType, Zenon
  <2>2. w.excluded[i].start + w.excluded[i].length <= f
    BY <1>1, Zenon DEF Behind
  <2>3. QED
    BY <2>1, <2>2
<1>4. CASE x.excluded = w.excluded
  BY <1>1, <1>2, <1>3, <1>4, Zenon DEF Behind
<1>5. CASE Excludes(w, x, start, length) /\ start + length <= e
  <2>1. /\ DOMAIN x.excluded = 1 .. n + 1
        /\ \A i \in 1 .. n : x.excluded[i] = w.excluded[i]
        /\ x.excluded[n + 1].start = start
        /\ x.excluded[n + 1].length = length
    BY <1>5 DEF Excludes, n
  <2>2. ASSUME NEW i \in 1 .. n + 1
        PROVE  x.excluded[i].start + x.excluded[i].length <= e
    <3>1. CASE i = n + 1
      BY <1>5, <2>1, <3>1
    <3>2. CASE i \in 1 .. n
      BY <1>3, <2>1, <3>2
    <3>3. QED
      BY <1>1, <3>1, <3>2
  <2>3. QED
    BY <1>2, <2>1, <2>2, Zenon DEF Behind
<1>6. QED
  BY <1>4, <1>5

\* Bytes behind all that was found are excluded: the book stays in order.
LEMMA AddToExcludeRange ==
    ASSUME NEW w \in StateType, Book(w), NEW f \in Int, Behind(w, f),
           NEW start \in Nat, NEW length \in Nat, f <= start, start <= Size
    PROVE  LET x == AddToExclude(w, start, length)
           IN  /\ Book(x)
               /\ Behind(x, start + length)
               /\ Grows(w, x, f)
<1> DEFINE x == AddToExclude(w, start, length)
           kept == IF start + length > Size THEN Size - start ELSE length
<1>1. Size \in Nat /\ kept \in Nat /\ start + kept <= Size /\ start + kept <= start + length
  BY SizeAssumption
<1>2. x.frames = w.frames
  BY AddToExcludeScan DEF SameScan
<1>3. CASE job.dont_exclude
  <2>1. x = w
    BY <1>3 DEF AddToExclude
  <2>2. Behind(x, start + length)
    <3>1. start + length \in Int /\ start <= start + length
      OBVIOUS
    <3>2. QED
      BY <2>1, <3>1, ExcludesBehind
  <2>3. Grows(w, w, f)
    BY ExcludedType DEF Grows
  <2>4. QED
    BY <2>1, <2>2, <2>3
<1>4. CASE ~job.dont_exclude
  <2>1. /\ x.excluded = Append(w.excluded, [start |-> start, length |-> kept])
        /\ x.total_excluded = w.total_excluded + kept
    BY <1>4 DEF AddToExclude, Assertt, StateType
  <2> HIDE DEF x, kept
  <2>2. Excludes(w, x, start, kept)
    <3>1. start \in Int /\ kept \in Int
      BY <1>1
    <3>2. QED
      BY <2>1, <3>1, AppendExcludes
  <2>3. \A i \in DOMAIN w.excluded : w.excluded[i].start + w.excluded[i].length <= f
    BY Zenon DEF Behind
  <2>4. ExclusionsApart(x)
    BY <1>1, <2>2, <2>3, ExcludesApart DEF Book
  <2>5. Counted(x)
    BY <1>1, <2>1, <2>2, <2>3, ExcludesCounted DEF Book
  <2>6. FramesApart(x)
    BY <1>1, <1>2, <2>2, ExcludesFramesApart DEF Book, Behind
  <2>7. Behind(x, start + length)
    BY <1>1, <1>2, <2>2, ExcludesBehind
  <2>8. Grows(w, x, f)
    BY <1>1, <2>2, ExcludesGrows
  <2>9. QED
    BY <2>4, <2>5, <2>6, <2>7, <2>8 DEF Book, x
<1>5. QED
  BY <1>3, <1>4


-----------------------------------------------------------------------------
(* What does not touch the ranges                                          *)

SameRanges(w, x) == SameExclusions(w, x) /\ x.frames = w.frames

LEMMA SameRangesKept ==
    ASSUME NEW w, NEW x, SameRanges(w, x)
    PROVE  /\ Book(w) => Book(x)
           /\ \A f \in Int : Behind(w, f) => Behind(x, f)
           /\ \A f \in Int : FramesBehind(w, f) => FramesBehind(x, f)
BY DEF SameRanges, SameExclusions, Book, ExclusionsApart, Counted, RangeBytes, FramesApart,
       Behind, FramesBehind

LEMMA FailedRanges ==
    ASSUME NEW w \in StateType, NEW holds, NEW name
    PROVE  SameRanges(w, Assertt(w, holds, name))
BY DEF SameRanges, SameExclusions, Assertt, StateType

LEMMA SameRangesGrows ==
    ASSUME NEW w \in StateType, NEW v, NEW x, NEW y, NEW f \in Int, SameExclusions(w, v),
           Grows(v, x, f), SameExclusions(x, y)
    PROVE  Grows(w, y, f)
BY DEF SameExclusions, Grows

LEMMA GrowsTrans ==
    ASSUME NEW w, NEW x, NEW y, NEW f \in Int, NEW g \in Int, f <= g,
           w \in StateType, x \in StateType, y \in StateType, Grows(w, x, f), Grows(x, y, g)
    PROVE  Grows(w, y, f)
<1> DEFINE n == Len(w.excluded)
           m == Len(x.excluded)
           k == Len(y.excluded)
<1>1. /\ n \in Nat /\ DOMAIN w.excluded = 1 .. n
      /\ m \in Nat /\ DOMAIN x.excluded = 1 .. m
      /\ k \in Nat /\ DOMAIN y.excluded = 1 .. k
  BY ExcludedType
<1>2. /\ n <= m /\ m <= k
      /\ \A i \in 1 .. n : x.excluded[i] = w.excluded[i]
      /\ \A i \in 1 .. m : y.excluded[i] = x.excluded[i]
      /\ \A i \in 1 .. m \ 1 .. n : x.excluded[i].start >= f
      /\ \A i \in 1 .. k \ 1 .. m : y.excluded[i].start >= g
  BY <1>1 DEF Grows
<1>3. \A i \in 1 .. k : y.excluded[i].start \in Int
  BY <1>1, ExcludedType
<1>4. Grows(w, y, f) <=> /\ n <= k
                         /\ \A i \in 1 .. n : y.excluded[i] = w.excluded[i]
                         /\ \A i \in 1 .. k \ 1 .. n : y.excluded[i].start >= f
  BY <1>1 DEF Grows
<1> HIDE DEF n, m, k
<1>5. n <= k
  BY <1>1, <1>2
<1>6. \A i \in 1 .. n : y.excluded[i] = w.excluded[i]
  BY <1>1, <1>2
<1>7. ASSUME NEW i \in 1 .. k \ 1 .. n
      PROVE  y.excluded[i].start >= f
  <2>1. CASE i \in 1 .. m
    BY <1>2, <1>7, <2>1
  <2>2. CASE i \notin 1 .. m
    <3>1. y.excluded[i].start >= g
      BY <1>2, <1>7, <2>2
    <3>2. QED
      BY <1>3, <3>1
  <2>3. QED
    BY <2>1, <2>2
<1>8. QED
  BY <1>4, <1>5, <1>6, <1>7

LEMMA GrowsNot ==
    ASSUME NEW w, NEW x, NEW f \in Int, w \in StateType, SameExclusions(w, x)
    PROVE  Grows(w, x, f)
BY ExcludedType DEF Grows, SameExclusions

-----------------------------------------------------------------------------
(* The unknown bytes are excluded                                          *)

LEMMA AddUnknownSequenceRange ==
    ASSUME NEW w \in StateType, Book(w), NEW f \in Int, Behind(w, f),
           NEW start \in Nat, NEW length \in Nat, f <= start, start <= Size
    PROVE  LET x == AddUnknownSequence(w, start, length)
           IN  /\ Book(x)
               /\ Behind(x, start + length)
               /\ Grows(w, x, f)
<1> DEFINE ok == Assertt(w, length # 0, "addUnknownSequence")
           y == AddToExclude(ok, start, length)
           x == AddUnknownSequence(w, start, length)
<1>1. ok \in StateType /\ SameRanges(w, ok)
  BY FailedType, FailedRanges DEF Failures, Assertt
<1>2. Book(ok) /\ Behind(ok, f)
  BY <1>1, SameRangesKept
<1>3. Book(y) /\ Behind(y, start + length) /\ Grows(ok, y, f) /\ y \in StateType
  <2> HIDE DEF ok
  <2>1. QED
    BY <1>1, <1>2, AddToExcludeRange, AddToExcludeType
<1>4. x = [y EXCEPT !.unknown_sequences = Append(@, [start |-> start, length |-> length])]
  BY DEF AddUnknownSequence
<1> HIDE DEF ok, y, x
<1>5. SameRanges(y, x)
  BY <1>3, <1>4 DEF StateType, SameRanges, SameExclusions
<1>6. start + length \in Int
  OBVIOUS
<1>7. Book(x) /\ Behind(x, start + length)
  BY <1>3, <1>5, <1>6, SameRangesKept
<1>8. Grows(w, x, f)
  BY <1>1, <1>3, <1>5, SameRangesGrows DEF SameRanges
<1>9. QED
  BY <1>7, <1>8 DEF x

\* The unknown bytes, if any, begin where everything found so far ends.
LEMMA ChkEndedRange ==
    ASSUME NEW w \in StateType, Book(w), NEW off \in Nat,
           w.unknown_length <= off, Behind(w, off - w.unknown_length),
           w.unknown_length > 0 => off - w.unknown_length <= Size
    PROVE  LET x == ChkUnknownSequenceEnded(w, off)
           IN  /\ Book(x)
               /\ Behind(x, off)
               /\ Grows(w, x, off - w.unknown_length)
<1> DEFINE f == off - w.unknown_length
           y == AddUnknownSequence(w, f, w.unknown_length)
           x == ChkUnknownSequenceEnded(w, off)
<1>1. w.unknown_length \in Nat
  BY DEF StateType
<1>2. f \in Nat /\ f + w.unknown_length = off
  BY <1>1
<1>3. CASE w.unknown_length = 0
  <2>1. x = w /\ f = off
    BY <1>3 DEF ChkUnknownSequenceEnded
  <2>2. Grows(w, w, f)
    BY <1>2, GrowsNot DEF SameExclusions
  <2>3. QED
    BY <2>1, <2>2
<1>4. CASE w.unknown_length # 0
  <2>1. f <= f /\ f <= Size /\ f \in Int
    BY <1>1, <1>2, <1>4
  <2>2. Book(y) /\ Behind(y, f + w.unknown_length) /\ Grows(w, y, f)
    <3> HIDE DEF f
    <3>1. QED
      BY <1>1, <1>2, <2>1, AddUnknownSequenceRange DEF f
  <2>3. y \in StateType
    BY <1>1, <2>1, AddUnknownSequenceType
  <2>4. x = [y EXCEPT !.unknown_length = 0]
    BY <1>4 DEF ChkUnknownSequenceEnded
  <2> HIDE DEF y, x, f
  <2>5. SameRanges(y, x)
    BY <2>3, <2>4 DEF StateType, SameRanges, SameExclusions
  <2>6. Book(x) /\ Behind(x, off)
    BY <1>2, <2>2, <2>5, SameRangesKept
  <2>7. SameExclusions(w, w)
    BY DEF SameExclusions
  <2>8. Grows(w, x, f)
    BY <2>1, <2>2, <2>5, <2>7, SameRangesGrows DEF SameRanges
  <2>9. QED
    BY <2>6, <2>8 DEF x, f
<1>5. QED
  BY <1>3, <1>4


-----------------------------------------------------------------------------
(* Frames are added                                                        *)

\* x is w with n frames of a length added to track t, the first one at off.
AddsFrames(w, x, t, off, n, length) ==
    LET m == Len(w.frames[t])
    IN  /\ \A u \in Tracks \ {t} : x.frames[u] = w.frames[u]
        /\ DOMAIN x.frames[t] = 1 .. m + n
        /\ \A i \in 1 .. m : x.frames[t][i] = w.frames[t][i]
        /\ \A k \in 1 .. n : /\ x.frames[t][m + k].off = off + (k - 1) * length
                             /\ x.frames[t][m + k].length = length

\* q is s followed by r.
Concatenated(q, s, r) ==
    /\ Len(s) \in Nat
    /\ DOMAIN q = 1 .. Len(s) + Len(r)
    /\ \A i \in 1 .. Len(s) : q[i] = s[i]
    /\ \A k \in 1 .. Len(r) : q[Len(s) + k] = r[k]

LEMMA ConcatenatedSeq ==
    ASSUME NEW S, NEW s \in Seq(S), NEW r \in Seq(S)
    PROVE  Concatenated(s \o r, s, r)
BY DEF Concatenated

LEMMA AddFramesAdds ==
    ASSUME NEW w \in StateType, NEW t \in AllTracks, NEW off \in Nat, NEW n \in Nat,
           NEW length \in Nat
    PROVE  AddsFrames(w, AddFrames(w, t, off, n, length), t, off, n, length)
<1> DEFINE added == NewFrames(off, n, length)
           x == AddFrames(w, t, off, n, length)
           m == Len(w.frames[t])
<1>1. x.frames = [w.frames EXCEPT ![t] = @ \o added]
  BY AddFramesFrames
<1>2. \A k \in 1 .. n : /\ added[k].off = off + (k - 1) * length
                        /\ added[k].length = length
  BY DEF NewFrames
<1>3. DOMAIN added = 1 .. n
  BY DEF NewFrames
<1>4. added \in Seq([off : Nat, length : Nat])
  BY NewFramesType
<1> HIDE DEF added, x
<1>5. w.frames \in [AllTracks -> Seq([off : Nat, length : Nat])]
  BY DEF StateType
<1>6. w.frames[t] \in Seq([off : Nat, length : Nat]) /\ Len(added) = n
  BY <1>3, <1>4, <1>5
<1>7. x.frames[t] = w.frames[t] \o added
  BY <1>1, <1>5
<1>8. \A u \in Tracks \ {t} : x.frames[u] = w.frames[u]
  BY <1>1, <1>5 DEF AllTracks
<1>9. Concatenated(x.frames[t], w.frames[t], added)
  BY <1>4, <1>6, <1>7, ConcatenatedSeq
<1>10. /\ DOMAIN x.frames[t] = 1 .. m + n
       /\ \A i \in 1 .. m : x.frames[t][i] = w.frames[t][i]
       /\ \A k \in 1 .. n : x.frames[t][m + k] = added[k]
  BY <1>6, <1>9 DEF Concatenated
<1>11. QED
  BY <1>2, <1>8, <1>10 DEF AddsFrames, x

LEMMA TimesMonotone ==
    ASSUME NEW a \in Nat, NEW b \in Nat, NEW l \in Nat, a <= b
    PROVE  a * l <= b * l /\ a * l \in Nat /\ b * l \in Nat
<1>1. PICK d \in Nat : b = a + d
  <2>1. b - a \in Nat /\ b = a + (b - a)
    OBVIOUS
  <2>2. QED
    BY <2>1
<1>2. (a + d) * l = a * l + d * l /\ d * l \in Nat /\ a * l \in Nat
  OBVIOUS
<1>3. QED
  BY <1>1, <1>2

\* The i-th frame of track u is one of w, which ends before off, or the k-th of the
\* new ones.
OldFrame(w, x, off, u, i) ==
    /\ i \in DOMAIN w.frames[u] /\ x.frames[u][i] = w.frames[u][i]
    /\ x.frames[u][i].off \in Nat /\ x.frames[u][i].length \in Nat
    /\ x.frames[u][i].off + x.frames[u][i].length <= off

NewFrame(w, x, t, off, length, u, i, k) ==
    /\ u = t /\ i = Len(w.frames[t]) + k
    /\ x.frames[u][i].off = off + (k - 1) * length
    /\ x.frames[u][i].length = length

LEMMA FrameCases ==
    ASSUME NEW w \in StateType, NEW x, NEW t \in AllTracks, NEW off \in Nat, NEW n \in Nat,
           NEW length \in Nat, AddsFrames(w, x, t, off, n, length), FramesBehind(w, off),
           NEW u \in Tracks, NEW i \in DOMAIN x.frames[u]
    PROVE  \/ OldFrame(w, x, off, u, i)
           \/ \E k \in 1 .. n : NewFrame(w, x, t, off, length, u, i, k)
<1> DEFINE m == Len(w.frames[t])
<1>1. m \in Nat /\ DOMAIN w.frames[t] = 1 .. m
  BY FramesType
<1>2. /\ \A v \in Tracks \ {t} : x.frames[v] = w.frames[v]
      /\ DOMAIN x.frames[t] = 1 .. m + n
      /\ \A j \in 1 .. m : x.frames[t][j] = w.frames[t][j]
      /\ \A k \in 1 .. n : /\ x.frames[t][m + k].off = off + (k - 1) * length
                           /\ x.frames[t][m + k].length = length
  BY DEF AddsFrames
<1> HIDE DEF m
<1>3. ASSUME i \in DOMAIN w.frames[u], x.frames[u][i] = w.frames[u][i]
      PROVE  OldFrame(w, x, off, u, i)
  <2>1. u \in AllTracks
    BY DEF AllTracks
  <2>2. w.frames[u][i].off \in Nat /\ w.frames[u][i].length \in Nat
    BY <1>3, <2>1, FramesType, Zenon
  <2>3. w.frames[u][i].off + w.frames[u][i].length <= off
    BY <1>3, Zenon DEF FramesBehind
  <2>4. QED
    BY <1>3, <2>2, <2>3 DEF OldFrame
<1>4. CASE u # t
  BY <1>2, <1>3, <1>4, Zenon
<1>5. CASE u = t /\ i \in 1 .. m
  BY <1>1, <1>2, <1>3, <1>5, Zenon
<1>6. CASE u = t /\ i \notin 1 .. m
  <2>1. PICK k \in 1 .. n : i = m + k
    <3>1. i \in 1 .. m + n
      BY <1>2, <1>6
    <3>2. i - m \in 1 .. n /\ i = m + (i - m)
      BY <1>1, <1>6, <3>1
    <3>3. QED
      BY <3>2
  <2>2. QED
    BY <1>2, <1>6, <2>1, Zenon DEF m, NewFrame
<1>7. QED
  BY <1>4, <1>5, <1>6


\* Frames that begin behind everything found belong to nobody else.
LEMMA AddFramesRange ==
    ASSUME NEW w \in StateType, NEW t \in Tracks, NEW off \in Nat, NEW n \in Nat,
           NEW length \in Nat, Book(w), Behind(w, off), NEW end \in Nat, off + n * length <= end
    PROVE  LET x == AddFrames(w, t, off, n, length)
           IN  Book(x) /\ Behind(x, end) /\ SameExclusions(w, x)
<1> DEFINE x == AddFrames(w, t, off, n, length)
           Begin(u, i) == x.frames[u][i].off
           End(u, i) == x.frames[u][i].off + x.frames[u][i].length
<1>1. t \in AllTracks
  BY DEF AllTracks
<1>2. SameExclusions(w, x)
  BY <1>1, AddFramesScan DEF SameExclusions
<1>3. AddsFrames(w, x, t, off, n, length)
  BY <1>1, AddFramesAdds
<1>4. FramesBehind(w, off)
  BY DEF Behind
<1> HIDE DEF x
<1>5. ASSUME NEW u \in Tracks, NEW i \in DOMAIN x.frames[u]
      PROVE  \/ OldFrame(w, x, off, u, i)
             \/ \E k \in 1 .. n : NewFrame(w, x, t, off, length, u, i, k)
  BY <1>1, <1>3, <1>4, FrameCases
<1>6. ASSUME NEW u, NEW i, NEW k \in 1 .. n, NewFrame(w, x, t, off, length, u, i, k)
      PROVE  /\ Begin(u, i) = off + (k - 1) * length
             /\ End(u, i) = off + k * length
             /\ (k - 1) * length \in Nat /\ k * length \in Nat
             /\ k * length <= n * length
             /\ Begin(u, i) \in Nat /\ End(u, i) \in Nat
             /\ off <= Begin(u, i) /\ End(u, i) <= end
  <2>1. /\ Begin(u, i) = off + (k - 1) * length
        /\ x.frames[u][i].length = length
    BY <1>6 DEF NewFrame
  <2>2. PICK p \in Nat : p = k - 1 /\ k = p + 1
    <3>1. k - 1 \in Nat /\ k = (k - 1) + 1
      OBVIOUS
    <3>2. QED
      BY <3>1
  <2>3. p * length \in Nat /\ (p + 1) * length = p * length + length
    OBVIOUS
  <2>4. k * length <= n * length /\ n * length \in Nat
    BY TimesMonotone
  <2>5. QED
    BY <2>1, <2>2, <2>3, <2>4
<1>7. ASSUME NEW u, NEW i, OldFrame(w, x, off, u, i)
      PROVE  Begin(u, i) \in Nat /\ End(u, i) \in Nat /\ End(u, i) <= off
  BY <1>7 DEF OldFrame
<1>8. off <= end
  <2>1. n * length \in Nat
    OBVIOUS
  <2>2. QED
    BY <2>1
<1>9. FramesBehind(x, end)
  <2> SUFFICES ASSUME NEW u \in Tracks, NEW i \in DOMAIN x.frames[u]
               PROVE  End(u, i) <= end
    BY DEF FramesBehind
  <2>1. CASE OldFrame(w, x, off, u, i)
    BY <1>7, <1>8, <2>1
  <2>2. ASSUME NEW k \in 1 .. n, NewFrame(w, x, t, off, length, u, i, k)
        PROVE  End(u, i) <= end
    BY <1>6, <2>2
  <2>3. QED
    BY <1>5, <2>1, <2>2
<1>10. Behind(x, end)
  <2>1. ASSUME NEW i \in DOMAIN w.excluded
        PROVE  w.excluded[i].start + w.excluded[i].length <= end
    <3>1. w.excluded[i].start + w.excluded[i].length <= off
      BY Zenon DEF Behind
    <3>2. w.excluded[i].start \in Int /\ w.excluded[i].length \in Int
      BY ExcludedType
    <3>3. QED
      BY <1>8, <3>1, <3>2
  <2>2. x.excluded = w.excluded
    BY <1>2 DEF SameExclusions
  <2>3. QED
    BY <1>9, <2>1, <2>2, Zenon DEF Behind
<1>11. ExclusionsApart(x) /\ Counted(x)
  BY <1>2 DEF SameExclusions, Book, ExclusionsApart, Counted, RangeBytes
<1>12. ASSUME NEW u \in Tracks, NEW i \in DOMAIN x.frames[u], NEW j \in DOMAIN x.excluded
       PROVE  Apart(Begin(u, i), End(u, i),
                    x.excluded[j].start, x.excluded[j].start + x.excluded[j].length)
  <2>1. j \in DOMAIN w.excluded /\ x.excluded[j] = w.excluded[j]
    BY <1>2 DEF SameExclusions
  <2>2. CASE OldFrame(w, x, off, u, i)
    <3>1. Apart(w.frames[u][i].off, w.frames[u][i].off + w.frames[u][i].length,
                w.excluded[j].start, w.excluded[j].start + w.excluded[j].length)
      BY <2>1, <2>2, Zenon DEF OldFrame, Book, FramesApart
    <3>2. QED
      BY <2>1, <2>2, <3>1 DEF OldFrame
  <2>3. ASSUME NEW k \in 1 .. n, NewFrame(w, x, t, off, length, u, i, k)
        PROVE  Apart(Begin(u, i), End(u, i),
                     x.excluded[j].start, x.excluded[j].start + x.excluded[j].length)
    <3>1. x.excluded[j].start + x.excluded[j].length <= off
      BY <2>1, Zenon DEF Behind
    <3>2. x.excluded[j].start \in Int /\ x.excluded[j].length \in Int
      BY <2>1, ExcludedType
    <3>3. off <= Begin(u, i) /\ Begin(u, i) \in Nat
      BY <1>6, <2>3
    <3>4. x.excluded[j].start + x.excluded[j].length <= Begin(u, i)
      BY <3>1, <3>2, <3>3
    <3>5. QED
      BY <3>4 DEF Apart
  <2>4. QED
    BY <1>5, <2>2, <2>3
<1>13. ASSUME NEW u \in Tracks, NEW v \in Tracks,
              NEW i \in DOMAIN x.frames[u], NEW j \in DOMAIN x.frames[v], u # v \/ i # j
       PROVE  Apart(Begin(u, i), End(u, i), Begin(v, j), End(v, j))
  <2>1. CASE OldFrame(w, x, off, u, i) /\ OldFrame(w, x, off, v, j)
    <3>1. Apart(w.frames[u][i].off, w.frames[u][i].off + w.frames[u][i].length,
                w.frames[v][j].off, w.frames[v][j].off + w.frames[v][j].length)
      BY <1>13, <2>1, Zenon DEF OldFrame, Book, FramesApart
    <3>2. QED
      BY <2>1, <3>1 DEF OldFrame
  <2>2. ASSUME NEW k \in 1 .. n, OldFrame(w, x, off, u, i),
               NewFrame(w, x, t, off, length, v, j, k)
        PROVE  Apart(Begin(u, i), End(u, i), Begin(v, j), End(v, j))
    <3>1. End(u, i) <= Begin(v, j)
      BY <1>6, <1>7, <2>2
    <3>2. QED
      BY <3>1 DEF Apart
  <2>3. ASSUME NEW k \in 1 .. n, NewFrame(w, x, t, off, length, u, i, k),
               OldFrame(w, x, off, v, j)
        PROVE  Apart(Begin(u, i), End(u, i), Begin(v, j), End(v, j))
    <3>1. End(v, j) <= Begin(u, i)
      BY <1>6, <1>7, <2>3
    <3>2. QED
      BY <3>1 DEF Apart
  <2>4. ASSUME NEW k \in 1 .. n, NEW l \in 1 .. n,
               NewFrame(w, x, t, off, length, u, i, k), NewFrame(w, x, t, off, length, v, j, l)
        PROVE  Apart(Begin(u, i), End(u, i), Begin(v, j), End(v, j))
    <3>1. k # l
      BY <1>13, <2>4 DEF NewFrame
    <3>2. /\ Begin(u, i) = off + (k - 1) * length /\ End(u, i) = off + k * length
          /\ Begin(v, j) = off + (l - 1) * length /\ End(v, j) = off + l * length
      BY <1>6, <2>4
    <3>3. CASE k < l
      <4>1. k \in Nat /\ l - 1 \in Nat /\ k <= l - 1
        BY <3>3
      <4>2. k * length <= (l - 1) * length /\ k * length \in Nat /\ (l - 1) * length \in Nat
        BY <4>1, TimesMonotone, Zenon
      <4>3. End(u, i) <= Begin(v, j)
        BY <3>2, <4>2
      <4>4. QED
        BY <4>3 DEF Apart
    <3>4. CASE l < k
      <4>1. l \in Nat /\ k - 1 \in Nat /\ l <= k - 1
        BY <3>4
      <4>2. l * length <= (k - 1) * length /\ l * length \in Nat /\ (k - 1) * length \in Nat
        BY <4>1, TimesMonotone, Zenon
      <4>3. End(v, j) <= Begin(u, i)
        BY <3>2, <4>2
      <4>4. QED
        BY <4>3 DEF Apart
    <3>5. QED
      BY <3>1, <3>3, <3>4
  <2>5. QED
    BY <1>5, <2>1, <2>2, <2>3, <2>4
<1>14. FramesApart(x)
  BY <1>12, <1>13, Zenon DEF FramesApart
<1>15. QED
  BY <1>2, <1>10, <1>11, <1>14 DEF Book, x


-----------------------------------------------------------------------------
(* What advanceOffset skipped is excluded                                  *)

LEMMA ExcludedEndRange ==
    ASSUME NEW w \in StateType, ExclusionsApart(w)
    PROVE  /\ ExcludedEnd(w) \in Nat /\ ExcludedEnd(w) <= Size
           /\ \A i \in DOMAIN w.excluded :
                w.excluded[i].start + w.excluded[i].length <= ExcludedEnd(w)
           /\ \A f \in Nat : Behind(w, f) => ExcludedEnd(w) <= f
<1> DEFINE n == Len(w.excluded)
           end == w.excluded[n].start + w.excluded[n].length
<1>1. n \in Nat /\ DOMAIN w.excluded = 1 .. n /\ (w.excluded = <<>> <=> n = 0)
  <2>1. w.excluded \in Seq([start : Int, length : Int])
    BY ExcludedType
  <2>2. QED
    BY <2>1
<1>2. CASE w.excluded = <<>>
  <2>1. ExcludedEnd(w) = 0 /\ n = 0
    BY <1>1, <1>2 DEF ExcludedEnd
  <2>2. DOMAIN w.excluded = {}
    BY <1>1, <2>1
  <2>3. QED
    BY <2>1, <2>2, SizeAssumption
<1>3. CASE w.excluded # <<>>
  <2>1. n \in 1 .. n /\ ExcludedEnd(w) = end
    BY <1>1, <1>3 DEF ExcludedEnd
  <2>2. \A i \in 1 .. n : w.excluded[i].start \in Int /\ w.excluded[i].length \in Int
    BY <1>1, ExcludedType
  <2> HIDE DEF n
  <2>3. /\ w.excluded[n].start >= 0 /\ w.excluded[n].length >= 0 /\ end <= Size
    BY <1>1, <2>1, Zenon DEF ExclusionsApart
  <2>4. end \in Nat
    BY <2>1, <2>2, <2>3
  <2>5. ASSUME NEW i \in 1 .. n
        PROVE  w.excluded[i].start + w.excluded[i].length <= end
    <3>1. CASE i = n
      BY <2>4, <3>1
    <3>2. CASE i # n
      <4>1. i < n
        BY <1>1, <3>2
      <4>2. w.excluded[i].start + w.excluded[i].length <= w.excluded[n].start
        BY <1>1, <2>1, <4>1, Zenon DEF ExclusionsApart
      <4>3. QED
        BY <2>1, <2>2, <2>3, <4>2
    <3>3. QED
      BY <3>1, <3>2
  <2>6. \A f \in Nat : Behind(w, f) => end <= f
    BY <1>1, <2>1, Zenon DEF Behind
  <2> HIDE DEF end
  <2>7. QED
    BY <1>1, <2>1, <2>3, <2>4, <2>5, <2>6
<1>4. QED
  BY <1>2, <1>3

LEMMA AfterAdvanceRange ==
    ASSUME NEW w \in StateType, Book(w), offset \in Nat, from \in Nat,
           Behind(w, offset - w.unknown_length),
           offset > from => from < Size, FramesBehind(w, from)
    PROVE  LET x == AfterAdvance(w)
           IN  /\ Book(x)
               /\ Behind(x, offset - w.unknown_length)
               /\ Grows(w, x, from)
<1> DEFINE first == IF ExcludedEnd(w) > from THEN ExcludedEnd(w) ELSE from
           ok == Assertt(w, offset >= first, "chkExcludeOverlap")
           x == AddToExclude(ok, first, offset - first)
<1>1. CASE ~(offset > from /\ w.unknown_length = 0)
  <2>1. AfterAdvance(w) = w
    BY <1>1 DEF AfterAdvance
  <2>2. Grows(w, w, from)
    BY GrowsNot DEF SameExclusions
  <2>3. QED
    BY <2>1, <2>2
<1>2. CASE offset > from /\ w.unknown_length = 0
  <2>1. AfterAdvance(w) = x
    BY <1>2 DEF AfterAdvance, ExcludeSkipped
  <2>2. Behind(w, offset)
    <3>1. offset - w.unknown_length = offset
      BY <1>2
    <3>2. QED
      BY <3>1
  <2>3. /\ ExcludedEnd(w) \in Nat /\ ExcludedEnd(w) <= Size /\ ExcludedEnd(w) <= offset
        /\ \A i \in DOMAIN w.excluded :
             w.excluded[i].start + w.excluded[i].length <= ExcludedEnd(w)
    BY <2>2, ExcludedEndRange DEF Book
  <2>4. /\ first \in Nat /\ first <= Size /\ first <= offset
        /\ from <= first /\ ExcludedEnd(w) <= first
    BY <1>2, <2>3, SizeAssumption
  <2> HIDE DEF first
  <2>5. Behind(w, first)
    <3>1. ASSUME NEW i \in DOMAIN w.excluded
          PROVE  w.excluded[i].start + w.excluded[i].length <= first
      <4>1. w.excluded[i].start \in Int /\ w.excluded[i].length \in Int
        BY ExcludedType
      <4>2. w.excluded[i].start + w.excluded[i].length <= ExcludedEnd(w)
        BY <2>3
      <4>3. QED
        BY <2>3, <2>4, <4>1, <4>2
    <3>2. ASSUME NEW t \in Tracks, NEW i \in DOMAIN w.frames[t]
          PROVE  w.frames[t][i].off + w.frames[t][i].length <= first
      <4>1. t \in AllTracks
        BY DEF AllTracks
      <4>2. w.frames[t][i].off \in Nat /\ w.frames[t][i].length \in Nat
        BY <4>1, FramesType, Zenon
      <4>3. w.frames[t][i].off + w.frames[t][i].length <= from
        BY DEF FramesBehind
      <4>4. QED
        BY <2>4, <4>2, <4>3
    <3>3. QED
      BY <3>1, <3>2 DEF Behind, FramesBehind
  <2>6. ok \in StateType /\ SameRanges(w, ok)
    BY FailedType, FailedRanges DEF Failures, Assertt
  <2>7. Book(ok) /\ Behind(ok, first)
    BY <2>4, <2>5, <2>6, SameRangesKept
  <2> HIDE DEF ok
  <2>8. offset - first \in Nat /\ first + (offset - first) = offset /\ first \in Int
          /\ first <= first
    BY <2>4
  <2>9. Book(x) /\ Behind(x, first + (offset - first)) /\ Grows(ok, x, first)
    BY <2>4, <2>6, <2>7, <2>8, AddToExcludeRange
  <2>10. x \in StateType
    BY <2>6, <2>8, AddToExcludeType
  <2>11. Grows(w, x, from)
    <3>1. Grows(w, ok, from)
      BY <2>6, GrowsNot DEF SameRanges
    <3>2. QED
      BY <2>4, <2>6, <2>8, <2>9, <2>10, <3>1, GrowsTrans
  <2>12. offset - w.unknown_length = offset
    BY <1>2
  <2> HIDE DEF x
  <2>13. QED
    BY <2>1, <2>8, <2>9, <2>11, <2>12
<1>3. QED
  BY <1>1, <1>2


-----------------------------------------------------------------------------
(* A match and a predicted chunk                                           *)

LEMMA AddMatchRange ==
    ASSUME NEW w \in StateType, job \in Jobs, NEW off \in Nat, NEW m,
           m.track \in Tracks, m.length \in Nat, m.pad \in Nat,
           m.pad # 0 => off + m.length <= Size,
           FreeEmpty(w), Book(w), w.unknown_length <= off, Behind(w, off - w.unknown_length),
           w.unknown_length > 0 => off - w.unknown_length <= Size
    PROVE  LET x == AddMatch(w, off, m)
           IN  /\ Book(x)
               /\ Behind(x, off + m.length + m.pad)
               /\ FreeEmpty(x)
               /\ Grows(w, x, off - w.unknown_length)
<1> DEFINE chk == ChkUnknownSequenceEnded(w, off)
           chunk == ChunkForMatch(w, m.track, off)
           added == AddFrames(chunk, m.track, off, 1, m.length)
           counted == [added EXCEPT !.current[m.track].n = @ + 1]
           padded == AddToExclude(counted, off + m.length, m.pad)
           done == [padded EXCEPT !.done_padding = TRUE]
           f == off - w.unknown_length
           end == off + m.length
<1>1. m.track \in AllTracks /\ m.track # Free
  BY TracksAssumption DEF AllTracks
<1>2. /\ f \in Nat /\ f <= off /\ end \in Nat /\ off <= end /\ off + 1 * m.length <= end
      /\ 1 \in Nat
  <2>1. w.unknown_length \in Nat
    BY DEF StateType
  <2>2. f \in Nat /\ f <= off
    BY <2>1
  <2>3. end \in Nat /\ off <= end /\ off + 1 * m.length <= end
    OBVIOUS
  <2>4. QED
    BY <2>2, <2>3
<1>3. chk \in StateType /\ chk.frames = w.frames
  BY ChkUnknownSequenceEndedType, ChkEndedScan
<1>4. Book(chk) /\ Behind(chk, off) /\ Grows(w, chk, f)
  BY ChkEndedRange
<1>5. chunk \in StateType /\ chunk.frames = w.frames /\ FreeEmpty(chunk)
        /\ SameExclusions(chk, chunk)
  BY ChunkForMatchType, ChunkForMatchBookkeeping
<1>6. AddMatch(w, off, m) = IF m.pad = 0 THEN counted ELSE done
  BY Zenon DEF AddMatch
<1> HIDE DEF chk, chunk, f, end
<1>7. Book(chunk) /\ Behind(chunk, off)
  BY <1>2, <1>3, <1>4, <1>5, SameRangesKept DEF SameRanges
<1>8. Book(added) /\ Behind(added, end) /\ SameExclusions(chunk, added)
  BY <1>2, <1>5, <1>7, AddFramesRange
<1>9. added \in StateType
  BY <1>1, <1>2, <1>5, AddFramesType, Zenon
<1>10. added.current = chunk.current
  BY <1>1, <1>5, AddFramesScan
<1> HIDE DEF added
<1>11. counted \in StateType /\ SameRanges(added, counted) /\ FreeEmpty(counted)
  <2>1. added.current \in [AllTracks -> ChunkRecord]
    BY <1>9 DEF StateType
  <2>2. [added.current EXCEPT ![m.track].n = @ + 1] \in [AllTracks -> ChunkRecord]
          /\ [added.current EXCEPT ![m.track].n = @ + 1][Free] = added.current[Free]
    BY <1>1, <2>1 DEF ChunkRecord, AllTracks
  <2>3. QED
    BY <1>5, <1>9, <1>10, <2>1, <2>2
    DEF StateType, SameRanges, SameExclusions, FreeEmpty
<1>12. Book(counted) /\ Behind(counted, end)
  BY <1>2, <1>8, <1>11, SameRangesKept
<1>13. SameExclusions(chk, counted)
  BY <1>5, <1>8, <1>11 DEF SameExclusions, SameRanges
<1>14. Grows(w, counted, f)
  <2>1. SameExclusions(w, w)
    BY DEF SameExclusions
  <2>2. QED
    BY <1>2, <1>4, <1>13, <2>1, SameRangesGrows
<1> HIDE DEF counted
<1>15. CASE m.pad = 0
  <2>1. end = off + m.length + m.pad
    BY <1>15 DEF end
  <2>2. QED
    BY <1>6, <1>11, <1>12, <1>14, <1>15, <2>1 DEF f
<1>16. CASE m.pad # 0
  <2>1. end <= Size /\ end <= end /\ end \in Int /\ end + m.pad = off + m.length + m.pad
    BY <1>2, <1>16 DEF end
  <2>2. padded = AddToExclude(counted, end, m.pad)
    BY DEF end
  <2>3. padded \in StateType
    BY <1>11, <2>1, <2>2, AddToExcludeType
  <2>4. Book(padded) /\ Behind(padded, end + m.pad) /\ Grows(counted, padded, end)
    BY <1>2, <1>11, <1>12, <2>1, <2>2, AddToExcludeRange
  <2>5. padded.current = counted.current
    BY <1>11, <2>2, AddToExcludeScan
  <2> HIDE DEF padded
  <2>6. done \in StateType /\ SameRanges(padded, done) /\ FreeEmpty(done)
    BY <1>11, <2>3, <2>5 DEF StateType, SameRanges, SameExclusions, FreeEmpty
  <2> HIDE DEF done
  <2>7. Book(done) /\ Behind(done, end + m.pad)
    BY <1>2, <2>4, <2>6, SameRangesKept
  <2>8. Grows(w, done, f)
    <3>1. Grows(w, padded, f)
      <4>1. f \in Int /\ end \in Int /\ f <= end
        BY <1>2
      <4>2. QED
        BY <1>11, <1>14, <2>3, <2>4, <4>1, GrowsTrans
    <3>2. SameExclusions(w, w)
      BY DEF SameExclusions
    <3>3. QED
      BY <1>2, <2>6, <3>1, <3>2, SameRangesGrows DEF SameRanges
  <2>9. QED
    BY <1>6, <1>16, <2>1, <2>6, <2>7, <2>8 DEF f
<1>17. QED
  BY <1>15, <1>16

LEMMA AddPredictedRange ==
    ASSUME NEW w \in StateType, job \in Jobs, NEW off \in Nat, NEW c, GoodChunk(c, off),
           c.track # Free,
           FreeEmpty(w), Book(w), w.unknown_length <= off, Behind(w, off - w.unknown_length),
           w.unknown_length > 0 => off - w.unknown_length <= Size
    PROVE  LET x == AddPredicted(w, off, c)
           IN  /\ Book(x)
               /\ Behind(x, off + c.size)
               /\ FreeEmpty(x) /\ x.unknown_length = 0
               /\ Grows(w, x, off - w.unknown_length)
<1> DEFINE chk == ChkUnknownSequenceEnded(w, off)
           ended == IF w.unknown_length = 0 THEN w ELSE CorrectChunkIdx(chk, c.track)
           started == OnNewChunkStarted(ended, c.track)
           filled == [started EXCEPT !.current[c.track] =
                         [off |-> off, already_excluded |-> started.total_excluded,
                          size |-> c.size, n |-> c.n]]
           x == AddFrames(filled, c.track, off, c.n, c.sample)
           f == off - w.unknown_length
           end == off + c.size
<1>1. /\ c.track \in AllTracks /\ c.track \in Tracks
      /\ c.size \in Nat /\ c.n \in Nat /\ c.sample \in Nat /\ c.n * c.sample <= c.size
  BY DEF GoodChunk, AllTracks
<1>2. f \in Nat /\ end \in Nat /\ off + c.n * c.sample <= end
  <2>1. PICK r \in Nat : r = c.n * c.sample
    BY <1>1
  <2>2. w.unknown_length \in Nat
    BY DEF StateType
  <2>3. QED
    BY <1>1, <2>1, <2>2
<1>3. /\ chk \in StateType /\ chk.frames = w.frames /\ chk.current = w.current
      /\ chk.unknown_length = 0 /\ (w.unknown_length = 0 => chk = w)
  BY ChkUnknownSequenceEndedType, ChkEndedScan DEF ChkUnknownSequenceEnded
<1>4. Book(chk) /\ Behind(chk, off) /\ Grows(w, chk, f)
  BY ChkEndedRange
<1>5. AddPredicted(w, off, c) = x
  BY Zenon DEF AddPredicted
<1> HIDE DEF chk, f, end
<1>6. ended \in StateType /\ Bookkeeping(chk, ended)
  <2>1. Bookkeeping(chk, chk)
    BY DEF Bookkeeping, SameScan, SameExclusions
  <2>2. CorrectChunkIdx(chk, c.track) \in StateType
          /\ Bookkeeping(chk, CorrectChunkIdx(chk, c.track))
    BY <1>3, CorrectChunkIdxType, CorrectBookkeeping
  <2>3. QED
    BY <1>3, <2>1, <2>2
<1> HIDE DEF ended
<1>7. started \in StateType /\ Bookkeeping(chk, started)
  <2>1. started \in StateType /\ Bookkeeping(ended, started)
    BY <1>6, OnNewChunkStartedType, OnNewBookkeeping
  <2>2. QED
    BY <1>6, <2>1, BookkeepingTrans
<1> HIDE DEF started
<1>8. filled \in StateType /\ SameScan(started, filled) /\ SameExclusions(started, filled)
        /\ filled.current[Free] = started.current[Free]
  <2>1. started.current \in [AllTracks -> ChunkRecord] /\ started.total_excluded \in Int
    BY <1>7 DEF StateType
  <2>2. [off |-> off, already_excluded |-> started.total_excluded,
         size |-> c.size, n |-> c.n] \in ChunkRecord
    BY <1>1, <2>1 DEF ChunkRecord
  <2>3. Free \in AllTracks
    BY DEF AllTracks
  <2>4. QED
    BY <1>1, <1>7, <2>1, <2>2, <2>3 DEF StateType, SameScan, SameExclusions
<1> HIDE DEF filled
<1>9. /\ FreeEmpty(filled) /\ SameRanges(chk, filled) /\ filled.unknown_length = 0
  BY <1>3, <1>7, <1>8 DEF FreeEmpty, Bookkeeping, SameScan, SameRanges, SameExclusions
<1>10. Book(filled) /\ Behind(filled, off)
  BY <1>4, <1>9, SameRangesKept
<1>11. Book(x) /\ Behind(x, end) /\ SameExclusions(filled, x)
  BY <1>1, <1>2, <1>8, <1>10, AddFramesRange
<1>12. FreeEmpty(x) /\ x.unknown_length = 0
  BY <1>1, <1>8, <1>9, AddFramesScan DEF FreeEmpty
<1>13. Grows(w, x, f)
  <2>1. SameExclusions(w, w) /\ SameExclusions(chk, x)
    BY <1>9, <1>11 DEF SameExclusions, SameRanges
  <2>2. QED
    BY <1>2, <1>4, <2>1, SameRangesGrows
<1> HIDE DEF x
<1>14. QED
  BY <1>5, <1>11, <1>12, <1>13 DEF f, end


-----------------------------------------------------------------------------
(* The invariant holds                                                     *)

LEMMA BehindMonotone ==
    ASSUME NEW w \in StateType, NEW f \in Int, NEW g \in Int, f <= g
    PROVE  /\ Behind(w, f) => Behind(w, g)
           /\ FramesBehind(w, f) => FramesBehind(w, g)
<1>1. ASSUME NEW i \in DOMAIN w.excluded, w.excluded[i].start + w.excluded[i].length <= f
      PROVE  w.excluded[i].start + w.excluded[i].length <= g
  <2>1. w.excluded[i].start \in Int /\ w.excluded[i].length \in Int
    BY ExcludedType
  <2>2. QED
    BY <1>1, <2>1
<1>2. ASSUME NEW t \in Tracks, NEW i \in DOMAIN w.frames[t],
             w.frames[t][i].off + w.frames[t][i].length <= f
      PROVE  w.frames[t][i].off + w.frames[t][i].length <= g
  <2>1. t \in AllTracks
    BY DEF AllTracks
  <2>2. w.frames[t][i].off \in Nat /\ w.frames[t][i].length \in Nat
    BY <2>1, FramesType, Zenon
  <2>3. QED
    BY <1>2, <2>2
<1>3. QED
  BY <1>1, <1>2 DEF Behind, FramesBehind

\* The step excluded nothing but what lies behind every frame.
Forward == \E f \in Int : FramesBehind(st, f) /\ Grows(st, st', f)

LEMMA RangeInit ==
    ASSUME Init PROVE RangeInv
<1>1. TypeInv /\ UnknownOnlyInFree
  BY InitType, UnknownInit
<1>2. /\ st = InitState /\ pc = "start" /\ offset = 0
      /\ st.excluded = <<>> /\ st.total_excluded = 0 /\ st.unknown_length = 0
      /\ \A t \in AllTracks : st.frames[t] = <<>>
      /\ st.current[Free].n = 0
  BY DEF Init, InitState, NoChunk, AllTracks
<1>3. DOMAIN st.excluded = {} /\ \A t \in Tracks : DOMAIN st.frames[t] = {}
  BY <1>2 DEF AllTracks
<1>4. RangeBytes(st) = {}
  BY <1>3 DEF RangeBytes
<1>5. Counted(st)
  BY <1>2, <1>4, FS_EmptySet DEF Counted
<1>6. ExclusionsApart(st) /\ FramesApart(st) /\ FramesBehind(st, 0) /\ Behind(st, 0)
  BY <1>3 DEF ExclusionsApart, FramesApart, FramesBehind, Behind
<1>7. Reached = 0
  BY <1>2 DEF Reached
<1>8. QED
  BY <1>1, <1>2, <1>5, <1>6, <1>7 DEF RangeInv, FreeEmpty, Book, UnknownInv, PlaceInv

\* What every step finds.
LEMMA RangeFacts ==
    ASSUME RangeInv
    PROVE  /\ job \in Jobs /\ st \in StateType /\ Size \in Nat \ {0}
           /\ offset \in Nat /\ from \in Nat /\ padding \in Nat
           /\ st.unknown_length \in Nat
           /\ Reached \in Nat /\ Reached <= offset
           /\ Reached = offset - st.unknown_length
           /\ FreeEmpty(st) /\ Book(st) /\ Behind(st, Reached)
           /\ FramesBehind(st, Reached)
           /\ pc = "try" => offset < Size
BY SizeAssumption DEF RangeInv, TypeInv, TypeOK, StateType, Reached, UnknownInv, Behind

LEMMA CalcStartOffsetRange ==
    ASSUME RangeInv, \A j \in Jobs : Orderly(j), CalcStartOffset
    PROVE  /\ FreeEmpty(st') /\ Book(st') /\ Behind(st', Reached')
           /\ UnknownInv' /\ PlaceInv' /\ Forward
<1>0. /\ job \in Jobs /\ st \in StateType /\ offset \in Nat
      /\ Reached \in Nat /\ FreeEmpty(st) /\ Book(st) /\ Behind(st, Reached)
      /\ FramesBehind(st, Reached) /\ Size \in Nat \ {0}
  BY RangeFacts
<1>1. offset = 0 /\ st.unknown_length = 0 /\ Reached = 0
  BY DEF CalcStartOffset, RangeInv, PlaceInv, Reached
<1>2. PICK p \in StartPoints :
        /\ offset' = p.off
        /\ st' = IF p.off = 0 THEN st ELSE AddUnknownSequence(st, p.skipped, p.off)
  BY DEF CalcStartOffset
<1>3. p.skipped = 0 /\ p.off \in Nat
  <2>1. job.first_rel = 0
    BY <1>0 DEF Orderly
  <2>2. QED
    BY <1>0, <2>1 DEF StartPoints
<1> DEFINE x == AddUnknownSequence(st, p.skipped, p.off)
<1>4. x \in StateType /\ SameScan(st, x) /\ x.current = st.current
  BY <1>0, <1>3, AddUnknownSequenceType, AddUnknownSequenceScan
<1>5. Book(x) /\ Behind(x, p.off) /\ Grows(st, x, 0)
  <2>1. 0 \in Nat /\ 0 \in Int /\ 0 <= 0 /\ 0 <= Size /\ 0 + p.off = p.off
    BY <1>0, <1>3
  <2>2. Behind(st, 0)
    BY <1>0, <1>1
  <2>3. QED
    BY <1>0, <1>3, <2>1, <2>2, AddUnknownSequenceRange
<1>6. Grows(st, st, 0)
  BY <1>0, GrowsNot DEF SameExclusions
<1> HIDE DEF x
<1>7. /\ st' \in StateType /\ FreeEmpty(st') /\ Book(st') /\ Behind(st', p.off)
      /\ Grows(st, st', 0) /\ st'.unknown_length = 0
  BY <1>0, <1>1, <1>2, <1>4, <1>5, <1>6 DEF FreeEmpty, SameScan, x
<1>8. Reached' = p.off
  BY <1>2, <1>3, <1>7 DEF Reached
<1>9. pc' = "advance"
  BY DEF CalcStartOffset
<1>10. Forward
  BY <1>0, <1>1, <1>7 DEF Forward
<1>11. UnknownInv'
  BY <1>2, <1>3, <1>7 DEF UnknownInv
<1>12. PlaceInv'
  BY <1>9 DEF PlaceInv
<1>13. QED
  BY <1>7, <1>8, <1>10, <1>11, <1>12

LEMMA GetChunkPaddingRange ==
    ASSUME RangeInv, GetChunkPadding
    PROVE  /\ FreeEmpty(st') /\ Book(st') /\ Behind(st', Reached')
           /\ UnknownInv' /\ PlaceInv' /\ Forward
<1>0. /\ job \in Jobs /\ st \in StateType /\ offset \in Nat /\ st.unknown_length \in Nat
      /\ Reached \in Nat /\ FreeEmpty(st) /\ Book(st) /\ Behind(st, Reached)
      /\ FramesBehind(st, Reached) /\ Size \in Nat \ {0} /\ Reached <= offset
  BY RangeFacts
<1>1. /\ st'.unknown_length = st.unknown_length /\ SameRanges(st, st')
      /\ st'.current = st.current
  BY <1>0 DEF GetChunkPadding, StateType, SameRanges, SameExclusions
<1>2. PICK pad \in Nat :
        /\ padding' = pad /\ from' = offset
        /\ offset' = IF offset < Size THEN offset + pad ELSE offset
  <2>1. TypeInv'
    BY NextType DEF RangeInv, Next
  <2>2. padding' \in Nat
    BY <2>1 DEF TypeInv, TypeOK
  <2>3. /\ from' = offset
        /\ offset' = IF offset < Size THEN offset + padding' ELSE offset
    BY DEF GetChunkPadding
  <2>4. QED
    BY <2>2, <2>3
<1>3. st.unknown_length > 0 => pad = 0
  <2> SUFFICES ASSUME st.unknown_length > 0 PROVE pad = 0
    OBVIOUS
  <2>1. st.last_track = Free /\ st.current[Free].n = 0
    BY <1>0 DEF RangeInv, UnknownOnlyInFree, FreeEmpty
  <2>2. ~CurrentChunkIsDone(st)
    BY <2>1 DEF CurrentChunkIsDone, ChunkProbablyAtEnd
  <2>3. QED
    BY <1>2, <2>2 DEF GetChunkPadding
<1>4. /\ offset' \in Nat /\ offset <= offset'
      /\ st.unknown_length > 0 => offset' = offset
      /\ offset' > from' => from' < Size
  BY <1>0, <1>2, <1>3
<1>5. Reached' \in Int /\ Reached <= Reached' /\ (st.unknown_length > 0 => Reached' = Reached)
  BY <1>0, <1>1, <1>4 DEF Reached
<1>6. st' \in StateType
  BY NextType DEF RangeInv, Next, TypeInv, TypeOK
<1>7. Book(st') /\ Behind(st', Reached) /\ FramesBehind(st', Reached)
  BY <1>0, <1>1, SameRangesKept
<1>8. Behind(st', Reached')
  BY <1>0, <1>5, <1>6, <1>7, BehindMonotone
<1>9. FramesBehind(st', offset)
  BY <1>0, <1>6, <1>7, BehindMonotone
<1>10. Forward
  <2>1. Grows(st, st', Reached)
    BY <1>0, <1>1, GrowsNot DEF SameRanges
  <2>2. QED
    BY <1>0, <2>1 DEF Forward
<1>11. UnknownInv'
  <2>1. job' = job
    BY DEF GetChunkPadding
  <2>2. QED
    BY <1>0, <1>1, <1>4, <1>5, <2>1 DEF UnknownInv, RangeInv
<1>12. PlaceInv'
  <2>1. pc' = "skip"
    BY DEF GetChunkPadding
  <2>2. QED
    BY <1>2, <1>4, <1>9, <2>1 DEF PlaceInv
<1>13. QED
  BY <1>0, <1>1, <1>7, <1>8, <1>10, <1>11, <1>12 DEF FreeEmpty


\* Without padding chunks, the steps of skipZeros stay within the content or within
\* the unknown bytes counted so far.
LEMMA SkipZerosRange ==
    ASSUME RangeInv, \A j \in Jobs : Orderly(j), SkipZeros
    PROVE  /\ FreeEmpty(st') /\ Book(st') /\ Behind(st', Reached')
           /\ UnknownInv' /\ PlaceInv' /\ Forward
<1>0. /\ job \in Jobs /\ st \in StateType /\ offset \in Nat /\ st.unknown_length \in Nat
      /\ Reached \in Nat /\ FreeEmpty(st) /\ Book(st) /\ Behind(st, Reached)
      /\ FramesBehind(st, Reached) /\ Size \in Nat \ {0} /\ Reached <= offset
      /\ Reached = offset - st.unknown_length /\ from \in Nat
  BY RangeFacts
<1>2. Bookkeeping(st, st')
  BY <1>0, AfterZerosBookkeeping DEF SkipZeros
<1>3. /\ st'.unknown_length = st.unknown_length /\ SameRanges(st, st') /\ FreeEmpty(st')
  BY <1>0, <1>2 DEF Bookkeeping, SameScan, SameRanges
<1>4. /\ offset < Size /\ offset' = offset + ZeroLength(st, offset)
      /\ pc = "skip" /\ pc' = pc /\ job' = job /\ from' = from
  BY DEF SkipZeros
<1>5. ~DoPaddingSkip
  BY <1>0 DEF Orderly, DoPaddingSkip
<1>6. /\ CalcStep(st, offset) \in Nat \ {0}
      /\ job.use_chunk_stats => CalcStep(st, offset) <= Size - offset
      /\ ~job.use_chunk_stats => CalcStep(st, offset) = job.step
  BY <1>0, <1>4, <1>5, CalcStepType
<1>7. PICK z \in Nat \ {0} :
        /\ offset' = offset + z
        /\ job.use_chunk_stats => z <= Size - offset
        /\ st.unknown_length > 0 /\ ~job.use_chunk_stats => z = job.step
  <2>1. ZeroLength(st, offset) \in Nat \ {0}
    BY <1>0, <1>4, ZeroLengthType
  <2>2. job.use_chunk_stats \/ st.unknown_length > 0
          => ZeroLength(st, offset) = CalcStep(st, offset)
    BY DEF ZeroLength
  <2>3. QED
    BY <1>4, <1>6, <2>1, <2>2
<1>8. job.use_chunk_stats \in BOOLEAN /\ job.step \in Nat
  BY <1>0, JobsAssumption DEF JobType
<1>9. Reached' = Reached + z
  BY <1>0, <1>3, <1>7 DEF Reached
<1>10. UnknownInv'
  <2>1. st'.unknown_length <= offset'
    BY <1>0, <1>3, <1>7 DEF RangeInv, UnknownInv
  <2>2. ASSUME st.unknown_length > 0
        PROVE  Reached' < Size
    <3>1. CASE job.use_chunk_stats
      BY <1>0, <1>7, <1>9, <2>2, <3>1
    <3>2. CASE ~job.use_chunk_stats
      <4>1. z <= st.unknown_length
        BY <1>7, <2>2, <3>2 DEF RangeInv, UnknownInv
      <4>2. QED
        BY <1>0, <1>4, <1>9, <4>1
    <3>3. QED
      BY <3>1, <3>2
  <2>3. st.unknown_length > 0 /\ ~job'.use_chunk_stats => st'.unknown_length >= job'.step
    BY <1>3, <1>4 DEF RangeInv, UnknownInv
  <2>4. QED
    BY <1>3, <2>1, <2>2, <2>3 DEF UnknownInv
<1>11. st' \in StateType
  BY NextType DEF RangeInv, Next, TypeInv, TypeOK
<1>12. Book(st') /\ Behind(st', Reached)
  BY <1>0, <1>3, SameRangesKept
<1>13. Behind(st', Reached')
  <2>1. Reached \in Int /\ Reached' \in Int /\ Reached <= Reached'
    BY <1>0, <1>9
  <2>2. QED
    BY <1>11, <1>12, <2>1, BehindMonotone
<1>14. PlaceInv'
  <2>1. from <= offset /\ FramesBehind(st, from)
    BY <1>4 DEF RangeInv, PlaceInv
  <2>2. FramesBehind(st', from)
    BY <1>0, <1>3, <2>1, SameRangesKept
  <2>3. from' <= offset' /\ from' < Size
    BY <1>0, <1>4, <1>7, <2>1
  <2>4. QED
    BY <1>4, <2>2, <2>3 DEF PlaceInv
<1>15. Forward
  <2>1. Grows(st, st', Reached)
    BY <1>0, <1>3, GrowsNot DEF SameRanges
  <2>2. QED
    BY <1>0, <2>1 DEF Forward
<1>16. QED
  BY <1>3, <1>10, <1>12, <1>13, <1>14, <1>15

\* From a state w that differs from st in the bookkeeping only.
LEMMA BookkeptFacts ==
    ASSUME RangeInv, NEW w \in StateType, Bookkeeping(st, w)
    PROVE  /\ FreeEmpty(w) /\ Book(w) /\ Behind(w, Reached)
           /\ w.unknown_length = st.unknown_length
           /\ SameRanges(st, w)
           /\ \A f \in Int : FramesBehind(st, f) => FramesBehind(w, f)
<1>1. FreeEmpty(st) /\ Book(st) /\ Behind(st, Reached) /\ Reached \in Int
  BY RangeFacts
<1>2. /\ FreeEmpty(w) /\ SameRanges(st, w) /\ w.unknown_length = st.unknown_length
  BY <1>1 DEF Bookkeeping, SameScan, SameRanges
<1>3. QED
  BY <1>1, <1>2, SameRangesKept

LEMMA SkipAtomRange ==
    ASSUME RangeInv, SkipAtom
    PROVE  /\ FreeEmpty(st') /\ Book(st') /\ Behind(st', Reached')
           /\ UnknownInv' /\ PlaceInv' /\ Forward
<1>0. /\ job \in Jobs /\ st \in StateType /\ offset \in Nat /\ st.unknown_length \in Nat
      /\ FramesBehind(st, Reached) /\ Size \in Nat \ {0}
      /\ Reached = offset - st.unknown_length /\ from \in Nat /\ Reached \in Nat
  BY RangeFacts
<1>1. PICK w \in ZeroTests : st' = ChkUnknownSequenceEnded(w, offset)
  BY DEF SkipAtom
<1>2. /\ offset < Size /\ pc = "skip" /\ pc' = pc /\ job' = job /\ from' = from
  BY DEF SkipAtom
<1>3. w \in StateType /\ Bookkeeping(st, w)
  BY <1>0, <1>2, ZeroTestsType, ZeroTestsBookkeeping
<1>4. /\ FreeEmpty(w) /\ Book(w) /\ Behind(w, Reached)
      /\ w.unknown_length = st.unknown_length /\ SameRanges(st, w)
  BY <1>3, BookkeptFacts
<1>5. /\ st.unknown_length <= offset
      /\ st.unknown_length > 0 => Reached < Size
      /\ from <= offset /\ FramesBehind(st, from)
  BY <1>2 DEF RangeInv, UnknownInv, PlaceInv
<1>6. /\ w.unknown_length <= offset /\ offset - w.unknown_length = Reached
      /\ w.unknown_length > 0 => offset - w.unknown_length <= Size
  BY <1>0, <1>4, <1>5
<1>7. Book(st') /\ Behind(st', offset) /\ Grows(w, st', Reached)
  BY <1>0, <1>1, <1>3, <1>4, <1>6, ChkEndedRange
<1>8. /\ st'.unknown_length = 0 /\ st'.frames = w.frames /\ FreeEmpty(st')
  BY <1>0, <1>1, <1>3, <1>4, ChkEndedScan DEF FreeEmpty
<1>9. PICK len \in Nat : offset' = offset + len
  <2>1. PICK len \in Skippable : offset' = offset + len
    BY DEF SkipAtom
  <2>2. len \in Nat
    BY SizeAssumption DEF Skippable
  <2>3. QED
    BY <2>1, <2>2
<1>10. Reached' = offset' /\ offset' \in Nat /\ offset <= offset'
  BY <1>0, <1>8, <1>9 DEF Reached
<1>11. st' \in StateType
  BY NextType DEF RangeInv, Next, TypeInv, TypeOK
<1>12. Behind(st', Reached')
  BY <1>0, <1>7, <1>10, <1>11, BehindMonotone
<1>13. PlaceInv'
  <2>1. FramesBehind(st', from)
    BY <1>4, <1>5, <1>8 DEF SameRanges, FramesBehind
  <2>2. from' <= offset' /\ from' < Size
    BY <1>0, <1>2, <1>5, <1>10
  <2>3. QED
    BY <1>2, <2>1, <2>2 DEF PlaceInv
<1>14. UnknownInv'
  BY <1>8, <1>10 DEF UnknownInv
<1>15. Forward
  <2>1. SameExclusions(st, w) /\ SameExclusions(st', st')
    BY <1>4 DEF SameRanges, SameExclusions
  <2>2. Grows(st, st', Reached)
    BY <1>0, <1>3, <1>7, <2>1, SameRangesGrows
  <2>3. QED
    BY <1>0, <2>2 DEF Forward
<1>16. QED
  BY <1>7, <1>8, <1>12, <1>13, <1>14, <1>15


LEMMA EndAdvanceRange ==
    ASSUME RangeInv, EndAdvance
    PROVE  /\ FreeEmpty(st') /\ Book(st') /\ Behind(st', Reached')
           /\ UnknownInv' /\ PlaceInv' /\ Forward
<1>0. /\ job \in Jobs /\ st \in StateType /\ offset \in Nat /\ from \in Nat
      /\ Reached = offset - st.unknown_length
  BY RangeFacts
<1>1. PICK w \in ZeroTests : st' = AfterAdvance(w)
  BY DEF EndAdvance
<1>2. /\ offset < Size /\ pc = "skip" /\ pc' = "try" /\ job' = job /\ offset' = offset
  BY DEF EndAdvance
<1>3. w \in StateType /\ Bookkeeping(st, w)
  BY <1>0, <1>2, ZeroTestsType, ZeroTestsBookkeeping
<1>4. /\ FreeEmpty(w) /\ Book(w) /\ Behind(w, Reached)
      /\ w.unknown_length = st.unknown_length /\ SameRanges(st, w)
  BY <1>3, BookkeptFacts
<1>5. /\ offset > from => from < Size
      /\ FramesBehind(st, from)
  BY <1>2 DEF RangeInv, PlaceInv
<1>6. FramesBehind(w, from) /\ Behind(w, offset - w.unknown_length)
  BY <1>0, <1>4, <1>5, SameRangesKept
<1>7. Book(st') /\ Behind(st', offset - w.unknown_length) /\ Grows(w, st', from)
  BY <1>0, <1>1, <1>3, <1>4, <1>5, <1>6, AfterAdvanceRange
<1>8. st'.unknown_length = st.unknown_length /\ FreeEmpty(st')
  BY <1>0, <1>1, <1>3, <1>4, AfterAdvanceScan DEF SameScan, FreeEmpty
<1>9. Reached' = Reached /\ Reached = offset - w.unknown_length
  BY <1>0, <1>2, <1>4, <1>8 DEF Reached
<1>10. Forward
  <2>1. SameExclusions(st, w) /\ SameExclusions(st', st') /\ from \in Int
    BY <1>0, <1>4 DEF SameRanges, SameExclusions
  <2>2. Grows(st, st', from)
    BY <1>0, <1>3, <1>7, <2>1, SameRangesGrows
  <2>3. QED
    BY <1>5, <2>1, <2>2 DEF Forward
<1>11. UnknownInv'
  BY <1>2, <1>8, <1>9 DEF RangeInv, UnknownInv
<1>12. PlaceInv'
  BY <1>2 DEF PlaceInv
<1>13. QED
  BY <1>7, <1>8, <1>9, <1>10, <1>11, <1>12

LEMMA ReachEndRange ==
    ASSUME RangeInv, ReachEnd
    PROVE  /\ FreeEmpty(st') /\ Book(st') /\ Behind(st', Reached')
           /\ UnknownInv' /\ PlaceInv' /\ Forward
<1>0. /\ job \in Jobs /\ st \in StateType /\ offset \in Nat /\ from \in Nat
      /\ Reached = offset - st.unknown_length /\ Reached \in Nat
      /\ st.unknown_length \in Nat /\ Size \in Nat \ {0}
      /\ FreeEmpty(st) /\ Book(st) /\ Behind(st, Reached)
  BY RangeFacts
<1> DEFINE w == AfterAdvance(st)
           x == PushBackLastChunk(w)
<1>1. st' = ChkUnknownSequenceEnded(x, offset) /\ pc = "skip" /\ pc' = "done"
        /\ offset' = offset
  BY DEF ReachEnd
<1>2. /\ offset > from => from < Size
      /\ FramesBehind(st, from)
      /\ from <= offset
      /\ st.unknown_length <= offset
      /\ st.unknown_length > 0 => Reached < Size
  BY <1>1 DEF RangeInv, PlaceInv, UnknownInv
<1>3. w \in StateType
  BY <1>0, AfterAdvanceType, Zenon
<1>4. Book(w) /\ Behind(w, Reached) /\ Grows(st, w, from)
  BY <1>0, <1>2, AfterAdvanceRange
<1>5. SameScan(st, w) /\ FreeEmpty(w)
  BY <1>0, AfterAdvanceScan DEF FreeEmpty
<1> HIDE DEF w
<1>6. x \in StateType /\ Bookkeeping(w, x)
  BY <1>3, PushBackLastChunkType, PushBackBookkeeping
<1> HIDE DEF x
<1>7. SameRanges(w, x) /\ FreeEmpty(x) /\ x.unknown_length = st.unknown_length
  BY <1>5, <1>6 DEF Bookkeeping, SameScan, SameRanges
<1>8. Book(x) /\ Behind(x, Reached)
  BY <1>0, <1>4, <1>7, SameRangesKept
<1>9. /\ x.unknown_length <= offset /\ offset - x.unknown_length = Reached
      /\ x.unknown_length > 0 => offset - x.unknown_length <= Size
  BY <1>0, <1>2, <1>7
<1>10. Book(st') /\ Behind(st', offset) /\ Grows(x, st', Reached)
  BY <1>0, <1>1, <1>6, <1>8, <1>9, ChkEndedRange
<1>11. st'.unknown_length = 0 /\ FreeEmpty(st')
  BY <1>0, <1>1, <1>6, <1>7, ChkEndedScan DEF FreeEmpty
<1>12. Reached' = offset
  BY <1>0, <1>1, <1>11 DEF Reached
<1>13. st' \in StateType
  BY NextType DEF RangeInv, Next, TypeInv, TypeOK
<1>14. Forward
  <2>1. Grows(st, x, from) /\ Grows(w, st', Reached)
    <3>1. SameExclusions(st, st) /\ SameExclusions(st', st')
      BY DEF SameExclusions
    <3>2. QED
      BY <1>0, <1>3, <1>4, <1>6, <1>7, <1>10, <3>1, SameRangesGrows DEF SameRanges
  <2>2. CASE st.unknown_length = 0
    <3>1. Reached = offset
      BY <1>0, <2>2
    <3>2. Grows(st, st', from)
      BY <1>0, <1>2, <1>6, <1>10, <1>13, <2>1, <3>1, GrowsTrans
    <3>3. QED
      BY <1>0, <1>2, <3>2 DEF Forward
  <2>3. CASE st.unknown_length # 0
    <3>1. w = st
      BY <2>3 DEF w, AfterAdvance
    <3>2. FramesBehind(st, Reached)
      BY <1>0 DEF Behind
    <3>3. QED
      BY <1>0, <2>1, <3>1, <3>2 DEF Forward
  <2>4. QED
    BY <2>2, <2>3
<1>15. UnknownInv'
  BY <1>0, <1>1, <1>11 DEF UnknownInv
<1>16. PlaceInv'
  BY <1>1 DEF PlaceInv
<1>17. QED
  BY <1>10, <1>11, <1>12, <1>14, <1>15, <1>16

LEMMA TryMatchRange ==
    ASSUME RangeInv, \A j \in Jobs : Orderly(j), TryMatch
    PROVE  /\ FreeEmpty(st') /\ Book(st') /\ Behind(st', Reached')
           /\ UnknownInv' /\ PlaceInv' /\ Forward
<1>0. /\ job \in Jobs /\ st \in StateType /\ offset \in Nat
      /\ Reached = offset - st.unknown_length /\ Reached \in Nat
      /\ FramesBehind(st, Reached) /\ offset < Size /\ Size \in Nat \ {0}
      /\ st.unknown_length \in Nat
  BY RangeFacts DEF TryMatch
<1>1. PICK asked \in BeforeMatch : \E m \in Matches(asked, offset) :
        /\ st' = AddMatch(AfterExpected(asked, m.track), offset, m)
        /\ offset' = offset + m.length + m.pad
  BY DEF TryMatch
<1>2. PICK m \in Matches(asked, offset) :
        /\ st' = AddMatch(AfterExpected(asked, m.track), offset, m)
        /\ offset' = offset + m.length + m.pad
  BY <1>1
<1>3. asked \in StateType /\ Bookkeeping(st, asked)
  BY <1>0, BeforeMatchType, BeforeMatchBookkeeping
<1>4. /\ m.track \in Tracks /\ m.length \in Nat \ {0} /\ m.pad \in Nat
      /\ m.pad # 0 => /\ job.ref[m.track].pkt_sz_gcd # 1
                      /\ job.ref[m.track].bounded => offset + m.length <= Size
  BY <1>0, <1>3, MatchesType
<1>5. m.pad # 0 => offset + m.length <= Size
  <2>1. job.ref[m.track].bounded \/ job.ref[m.track].pkt_sz_gcd = 1
    BY <1>0, <1>4 DEF Orderly
  <2>2. QED
    BY <1>4, <2>1
<1> DEFINE w == AfterExpected(asked, m.track)
<1>6. w \in StateType /\ Bookkeeping(st, w)
  BY <1>0, <1>3, <1>4, AfterExpectedType, AfterExpectedBookkeeping, BookkeepingTrans
<1>7. st' = AddMatch(w, offset, m)
  BY <1>2
<1> HIDE DEF w
<1>8. /\ FreeEmpty(w) /\ Book(w) /\ Behind(w, Reached)
      /\ w.unknown_length = st.unknown_length /\ SameRanges(st, w)
  BY <1>6, BookkeptFacts
<1>9. /\ w.unknown_length <= offset /\ offset - w.unknown_length = Reached
      /\ w.unknown_length > 0 => offset - w.unknown_length <= Size
  <2>1. /\ st.unknown_length <= offset
        /\ st.unknown_length > 0 => Reached < Size
    BY DEF RangeInv, UnknownInv
  <2>2. QED
    BY <1>0, <1>8, <2>1
<1>10. m.length \in Nat
  BY <1>4
<1>11. /\ Book(st') /\ Behind(st', offset + m.length + m.pad) /\ FreeEmpty(st')
       /\ Grows(w, st', Reached)
  BY <1>0, <1>4, <1>5, <1>6, <1>7, <1>8, <1>9, <1>10, AddMatchRange
<1>12. st'.unknown_length = 0
  BY <1>0, <1>4, <1>6, <1>7, <1>10, AddMatchUnknown
<1>13. Reached' = offset' /\ offset' \in Nat
  BY <1>0, <1>2, <1>4, <1>12 DEF Reached
<1>14. Forward
  <2>1. SameExclusions(st, w) /\ SameExclusions(st', st')
    BY <1>8 DEF SameRanges, SameExclusions
  <2>2. Grows(st, st', Reached)
    BY <1>0, <1>6, <1>11, <2>1, SameRangesGrows
  <2>3. QED
    BY <1>0, <2>2 DEF Forward
<1>15. UnknownInv' /\ PlaceInv'
  <2>1. pc' = "advance"
    BY DEF TryMatch
  <2>2. QED
    BY <1>12, <1>13, <2>1 DEF UnknownInv, PlaceInv
<1>16. QED
  BY <1>2, <1>11, <1>13, <1>14, <1>15


LEMMA TryChunkPredictionRange ==
    ASSUME RangeInv, \A j \in Jobs : Orderly(j), TryChunkPrediction
    PROVE  /\ FreeEmpty(st') /\ Book(st') /\ Behind(st', Reached')
           /\ UnknownInv' /\ PlaceInv' /\ Forward
<1>0. /\ job \in Jobs /\ st \in StateType /\ offset \in Nat
      /\ Reached = offset - st.unknown_length /\ Reached \in Nat
      /\ FramesBehind(st, Reached) /\ offset < Size /\ Size \in Nat \ {0}
      /\ st.unknown_length \in Nat
  BY RangeFacts DEF TryChunkPrediction
<1>1. PICK p \in Predictions(st, offset, FALSE) :
        /\ p.chunk # Nothing
        /\ st' = AddPredicted(Predicting(st, p), offset, p.chunk)
        /\ offset' = offset + p.chunk.size
  BY DEF TryChunkPrediction
<1>2. p.ignored \in BOOLEAN /\ GoodChunk(p.chunk, offset)
  <2>1. offset <= Size
    BY <1>0
  <2>2. QED
    BY <1>0, <1>1, <2>1, PredictionsGood, Zenon
<1>3. p.chunk.track # Free /\ p.chunk.size \in Nat
  BY <1>0, <1>2 DEF GoodChunk, MayPredict, Orderly
<1> DEFINE w == Predicting(st, p)
<1>4. w \in StateType /\ Bookkeeping(st, w)
  BY <1>0, <1>2, PredictingType, PredictingBookkeeping
<1>5. st' = AddPredicted(w, offset, p.chunk)
  BY <1>1
<1> HIDE DEF w
<1>6. /\ FreeEmpty(w) /\ Book(w) /\ Behind(w, Reached)
      /\ w.unknown_length = st.unknown_length /\ SameRanges(st, w)
  BY <1>4, BookkeptFacts
<1>7. /\ w.unknown_length <= offset /\ offset - w.unknown_length = Reached
      /\ w.unknown_length > 0 => offset - w.unknown_length <= Size
  <2>1. /\ st.unknown_length <= offset
        /\ st.unknown_length > 0 => Reached < Size
    BY DEF RangeInv, UnknownInv
  <2>2. QED
    BY <1>0, <1>6, <2>1
<1>8. /\ Book(st') /\ Behind(st', offset + p.chunk.size) /\ FreeEmpty(st')
      /\ st'.unknown_length = 0 /\ Grows(w, st', Reached)
  BY <1>0, <1>2, <1>3, <1>4, <1>5, <1>6, <1>7, AddPredictedRange
<1>9. Reached' = offset' /\ offset' \in Nat
  BY <1>0, <1>1, <1>3, <1>8 DEF Reached
<1>10. Forward
  <2>1. SameExclusions(st, w) /\ SameExclusions(st', st')
    BY <1>6 DEF SameRanges, SameExclusions
  <2>2. Grows(st, st', Reached)
    BY <1>0, <1>4, <1>8, <2>1, SameRangesGrows
  <2>3. QED
    BY <1>0, <2>2 DEF Forward
<1>11. UnknownInv' /\ PlaceInv'
  <2>1. pc' = "advance"
    BY DEF TryChunkPrediction
  <2>2. QED
    BY <1>8, <1>9, <2>1 DEF UnknownInv, PlaceInv
<1>12. QED
  BY <1>1, <1>8, <1>9, <1>10, <1>11

LEMMA StepThroughUnknownRange ==
    ASSUME RangeInv, \A j \in Jobs : Orderly(j), StepThroughUnknown
    PROVE  /\ FreeEmpty(st') /\ Book(st') /\ Behind(st', Reached')
           /\ UnknownInv' /\ PlaceInv' /\ Forward
<1>0. /\ job \in Jobs /\ st \in StateType /\ offset \in Nat
      /\ Reached = offset - st.unknown_length /\ Reached \in Nat
      /\ FramesBehind(st, Reached) /\ offset < Size /\ Size \in Nat \ {0}
      /\ st.unknown_length \in Nat /\ FreeEmpty(st) /\ Book(st) /\ Behind(st, Reached)
  BY RangeFacts DEF StepThroughUnknown
<1>1. PICK p \in Misses(st, offset, FALSE) :
        LET w == EnterUnknown(IF job.use_chunk_stats THEN Predicting(st, p) ELSE st)
        IN  /\ st' = [w EXCEPT !.unknown_length = @ + CalcStep(w, offset)]
            /\ offset' = offset + CalcStep(w, offset)
  BY DEF StepThroughUnknown
<1> DEFINE w == EnterUnknown(IF job.use_chunk_stats THEN Predicting(st, p) ELSE st)
<1>2. /\ w \in StateType /\ w.unknown_length = st.unknown_length
      /\ FreeEmpty(w) /\ SameRanges(st, w)
  BY <1>0, UnknownStepStart DEF StepThroughUnknown, RangeInv, SameRanges
<1>3. /\ st' = [w EXCEPT !.unknown_length = @ + CalcStep(w, offset)]
      /\ offset' = offset + CalcStep(w, offset)
  BY <1>1
<1> HIDE DEF w
<1>4. PICK step \in Nat \ {0} :
        /\ step = CalcStep(w, offset)
        /\ ~job.use_chunk_stats => step = job.step
  <2>1. ~DoPaddingSkip
    BY <1>0 DEF Orderly, DoPaddingSkip
  <2>2. QED
    BY <1>0, <1>2, <2>1, CalcStepType
<1>5. /\ st' = [w EXCEPT !.unknown_length = @ + step]
      /\ offset' = offset + step
  BY <1>3, <1>4
<1>6. /\ st'.unknown_length = st.unknown_length + step
      /\ SameRanges(st, st') /\ FreeEmpty(st')
  BY <1>2, <1>5 DEF StateType, SameRanges, SameExclusions, FreeEmpty
<1>7. Reached' = Reached
  BY <1>0, <1>4, <1>5, <1>6 DEF Reached
<1>8. Book(st') /\ Behind(st', Reached')
  BY <1>0, <1>6, <1>7, SameRangesKept
<1>9. Forward
  <2>1. Grows(st, st', Reached)
    BY <1>0, <1>6, GrowsNot DEF SameRanges
  <2>2. QED
    BY <1>0, <2>1 DEF Forward
<1>10. UnknownInv'
  <2>1. /\ st.unknown_length <= offset
        /\ st.unknown_length > 0 => Reached < Size
    BY DEF RangeInv, UnknownInv
  <2>2. Reached < Size
    BY <1>0, <2>1
  <2>3. st'.unknown_length <= offset'
    BY <1>0, <1>5, <1>6, <2>1
  <2>4. job' = job
    BY DEF StepThroughUnknown
  <2>5. ~job.use_chunk_stats => st'.unknown_length >= job.step
    BY <1>0, <1>4, <1>6
  <2>6. QED
    BY <1>7, <2>2, <2>3, <2>4, <2>5 DEF UnknownInv
<1>11. PlaceInv'
  BY DEF StepThroughUnknown, PlaceInv
<1>12. QED
  BY <1>6, <1>8, <1>9, <1>10, <1>11

LEMMA PrematureEndRange ==
    ASSUME RangeInv, PrematureEnd
    PROVE  /\ FreeEmpty(st') /\ Book(st') /\ Behind(st', Reached')
           /\ UnknownInv' /\ PlaceInv' /\ Forward
<1>0. /\ job \in Jobs /\ st \in StateType /\ Reached = offset - st.unknown_length
      /\ Reached \in Nat /\ FramesBehind(st, Reached)
      /\ FreeEmpty(st) /\ Book(st) /\ Behind(st, Reached)
  BY RangeFacts
<1>1. PICK p \in Misses(st, offset, FALSE) :
        LET w == EnterUnknown(IF job.use_chunk_stats THEN Predicting(st, p) ELSE st)
        IN  st' = [w EXCEPT !.content_size = offset]
  BY DEF PrematureEnd
<1> DEFINE w == EnterUnknown(IF job.use_chunk_stats THEN Predicting(st, p) ELSE st)
<1>2. /\ w \in StateType /\ w.unknown_length = st.unknown_length
      /\ FreeEmpty(w) /\ SameRanges(st, w)
  BY <1>0, UnknownStepStart DEF PrematureEnd, RangeInv, SameRanges
<1>3. st' = [w EXCEPT !.content_size = offset]
  BY <1>1
<1> HIDE DEF w
<1>4. st'.unknown_length = st.unknown_length /\ SameRanges(st, st') /\ FreeEmpty(st')
  BY <1>2, <1>3 DEF StateType, SameRanges, SameExclusions, FreeEmpty
<1>5. offset' = offset /\ job' = job /\ pc' = "done"
  BY DEF PrematureEnd
<1>6. Reached' = Reached
  BY <1>0, <1>4, <1>5 DEF Reached
<1>7. Book(st') /\ Behind(st', Reached')
  BY <1>0, <1>4, <1>6, SameRangesKept
<1>8. Forward
  <2>1. Grows(st, st', Reached)
    BY <1>0, <1>4, GrowsNot DEF SameRanges
  <2>2. QED
    BY <1>0, <2>1 DEF Forward
<1>9. UnknownInv'
  BY <1>4, <1>5, <1>6 DEF RangeInv, UnknownInv
<1>10. PlaceInv'
  BY <1>5 DEF PlaceInv
<1>11. QED
  BY <1>4, <1>7, <1>8, <1>9, <1>10

LEMMA ThrowRange ==
    ASSUME RangeInv, ThrowBeyondEnd
    PROVE  /\ FreeEmpty(st') /\ Book(st') /\ Behind(st', Reached')
           /\ UnknownInv' /\ PlaceInv' /\ Forward
<1>0. /\ st \in StateType /\ Reached \in Nat /\ FramesBehind(st, Reached)
      /\ FreeEmpty(st) /\ Book(st) /\ Behind(st, Reached)
  BY RangeFacts
<1>1. FreeEmpty(st') /\ SameScan(st, st') /\ SameExclusions(st, st') /\ SameRanges(st, st')
  BY <1>0, ThrowBookkeeping DEF Bookkeeping, SameScan, SameRanges
<1>2. job' = job /\ pc' = pc /\ offset' = offset /\ from' = from
  BY DEF ThrowBeyondEnd
<1>3. Reached' = Reached
  BY <1>1, <1>2 DEF Reached, SameScan
<1>4. Book(st') /\ Behind(st', Reached')
  BY <1>0, <1>1, <1>3, SameRangesKept
<1>5. Grows(st, st', Reached)
  BY <1>0, <1>1, GrowsNot
<1>6. UnknownInv' /\ PlaceInv'
  BY <1>1, <1>2, <1>3 DEF RangeInv, UnknownInv, PlaceInv, SameScan, FramesBehind
<1>7. QED
  BY <1>0, <1>1, <1>4, <1>5, <1>6 DEF Forward

LEMMA RangeNext ==
    ASSUME RangeInv, \A j \in Jobs : Orderly(j), [Next]_vars
    PROVE  RangeInv' /\ Forward
<1>1. TypeInv' /\ UnknownOnlyInFree'
  BY NextType, UnknownNext DEF RangeInv
<1>2. CASE UNCHANGED vars
  <2>1. /\ job' = job /\ pc' = pc /\ offset' = offset /\ from' = from /\ st' = st
    BY <1>2 DEF vars
  <2>2. Reached' = Reached
    BY <2>1 DEF Reached
  <2>3. Forward
    BY <2>1, RangeFacts, GrowsNot DEF Forward, SameExclusions
  <2>4. RangeInv'
    BY <1>1, <2>1, <2>2 DEF RangeInv, UnknownInv, PlaceInv
  <2>5. QED
    BY <2>3, <2>4
<1>3. CASE Next
  <2>1. /\ FreeEmpty(st') /\ Book(st') /\ Behind(st', Reached')
        /\ UnknownInv' /\ PlaceInv' /\ Forward
    BY <1>3, CalcStartOffsetRange, GetChunkPaddingRange, SkipZerosRange, SkipAtomRange,
       EndAdvanceRange, ReachEndRange, TryMatchRange, TryChunkPredictionRange,
       StepThroughUnknownRange, PrematureEndRange, ThrowRange DEF Next
  <2>2. QED
    BY <1>1, <2>1 DEF RangeInv
<1>4. QED
  BY <1>2, <1>3


-----------------------------------------------------------------------------
(* What follows from it                                                    *)

LEMMA RangeInvariant ==
    ASSUME \A j \in Jobs : Orderly(j)
    PROVE  Spec => []RangeInv
<1>1. Init => RangeInv
  BY RangeInit
<1>2. RangeInv /\ [Next]_vars => RangeInv'
  BY RangeNext
<1>3. QED
  BY <1>1, <1>2, PTL DEF Spec

\* The exclusions that BufferedAtom::write walks front to back are in file order and
\* apart, and end where the scan stands or at the end of the content.
THEOREM ExclusionsAreInOrder ==
    ASSUME \A j \in Jobs : Orderly(j)
    PROVE  Spec => []ExclusionsInOrder
<1>1. ASSUME RangeInv PROVE ExclusionsInOrder
  <2>0. /\ st \in StateType /\ offset \in Nat /\ Reached \in Nat /\ Reached <= offset
        /\ ExclusionsApart(st) /\ Behind(st, Reached) /\ Size \in Nat
    BY <1>1, RangeFacts DEF Book
  <2>1. ASSUME NEW i \in DOMAIN st.excluded
        PROVE  /\ st.excluded[i].start >= 0 /\ st.excluded[i].length >= 0
               /\ st.excluded[i].start + st.excluded[i].length <= Min({offset, Size})
    <3>1. st.excluded[i].start \in Int /\ st.excluded[i].length \in Int
      BY <2>0, ExcludedType
    <3>2. st.excluded[i].start + st.excluded[i].length <= Reached
      BY <2>0, Zenon DEF Behind
    <3>3. /\ st.excluded[i].start >= 0 /\ st.excluded[i].length >= 0
          /\ st.excluded[i].start + st.excluded[i].length <= Size
      BY <2>0, Zenon DEF ExclusionsApart
    <3>4. Min({offset, Size}) \in {offset, Size}
      <4>1. {offset, Size} \subseteq Nat /\ {offset, Size} # {}
        BY <2>0
      <4>2. QED
        BY <4>1, NatMin
    <3>5. QED
      BY <2>0, <3>1, <3>2, <3>3, <3>4
  <2>2. QED
    BY <2>0, <2>1, Zenon DEF ExclusionsInOrder, ExclusionsApart
<1>2. QED
  BY <1>1, RangeInvariant, PTL

\* total_excluded_yet_, from which the length of the repaired mdat is computed, is
\* the number of bytes that the exclusions name.
THEOREM TotalIsCounted ==
    ASSUME \A j \in Jobs : Orderly(j)
    PROVE  Spec => []TotalIsExcluded
<1>1. RangeInv => TotalIsExcluded
  BY DEF RangeInv, Book, Counted, RangeBytes, TotalIsExcluded, ExcludedBytes
<1>2. QED
  BY <1>1, RangeInvariant, PTL

LEMMA ApartRanges ==
    ASSUME NEW a \in Int, NEW k \in Int, NEW b \in Int, NEW m \in Int,
           Apart(a, a + k, b, b + m)
    PROVE  (a .. a + k - 1) \cap (b .. b + m - 1) = {}
BY DEF Apart

\* No byte of a frame is left out of the repaired mdat, and no byte is in two frames.
THEOREM EveryFrameIsKept ==
    ASSUME \A j \in Jobs : Orderly(j)
    PROVE  Spec => []FramesAreKept
<1>1. ASSUME RangeInv PROVE FramesAreKept
  <2>0. st \in StateType /\ FramesApart(st)
    BY <1>1, RangeFacts DEF Book
  <2>1. ASSUME NEW t \in Tracks, NEW i \in DOMAIN st.frames[t]
        PROVE  st.frames[t][i].off \in Nat /\ st.frames[t][i].length \in Nat
    <3>1. t \in AllTracks
      BY DEF AllTracks
    <3>2. QED
      BY <2>0, <3>1, FramesType, Zenon
  <2>2. ASSUME NEW t \in Tracks, NEW i \in DOMAIN st.frames[t], NEW j \in DOMAIN st.excluded
        PROVE  FrameBytes(st.frames[t][i]) \cap Bytes(st.excluded[j]) = {}
    <3>1. st.excluded[j].start \in Int /\ st.excluded[j].length \in Int
      BY <2>0, ExcludedType
    <3>2. Apart(st.frames[t][i].off, st.frames[t][i].off + st.frames[t][i].length,
                st.excluded[j].start, st.excluded[j].start + st.excluded[j].length)
      BY <2>0, Zenon DEF FramesApart
    <3>3. st.frames[t][i].off \in Int /\ st.frames[t][i].length \in Int
      BY <2>1
    <3>4. QED
      BY <3>1, <3>2, <3>3, ApartRanges, Zenon DEF FrameBytes, Bytes
  <2>3. ASSUME NEW f \in Found
        PROVE  FrameBytes(f) \cap ExcludedBytes = {}
    <3>1. PICK t \in Tracks : f \in Elements(st.frames[t])
      BY DEF Found
    <3>2. PICK i \in DOMAIN st.frames[t] : f = st.frames[t][i]
      BY <3>1 DEF Elements
    <3>3. \A j \in DOMAIN st.excluded : FrameBytes(f) \cap Bytes(st.excluded[j]) = {}
      BY <2>2, <3>2
    <3>4. QED
      BY <3>3 DEF ExcludedBytes
  <2>4. ASSUME NEW t \in Tracks, NEW u \in Tracks,
               NEW i \in DOMAIN st.frames[t], NEW j \in DOMAIN st.frames[u], t # u \/ i # j
        PROVE  FrameBytes(st.frames[t][i]) \cap FrameBytes(st.frames[u][j]) = {}
    <3>1. Apart(st.frames[t][i].off, st.frames[t][i].off + st.frames[t][i].length,
                st.frames[u][j].off, st.frames[u][j].off + st.frames[u][j].length)
      BY <2>0, <2>4, Zenon DEF FramesApart
    <3>2. st.frames[t][i].off \in Nat /\ st.frames[t][i].length \in Nat
      BY <2>1
    <3>3. st.frames[u][j].off \in Nat /\ st.frames[u][j].length \in Nat
      BY <2>1
    <3>4. /\ st.frames[t][i].off \in Int /\ st.frames[t][i].length \in Int
          /\ st.frames[u][j].off \in Int /\ st.frames[u][j].length \in Int
      BY <3>2, <3>3
    <3>5. QED
      BY <3>1, <3>4, ApartRanges, Zenon DEF FrameBytes
  <2>5. QED
    BY <2>3, <2>4, Zenon DEF FramesAreKept
<1>2. QED
  BY <1>1, RangeInvariant, PTL

\* What a step excludes lies behind every frame found before, so the count that a
\* chunk copied when it began (already_excluded_) does not go stale.
THEOREM ExclusionsComeBehind ==
    ASSUME \A j \in Jobs : Orderly(j)
    PROVE  Spec => ExcludesOnlyBehindFrames
<1>1. ASSUME RangeInv, [Next]_vars
      PROVE  [\A i \in DOMAIN st'.excluded \ DOMAIN st.excluded :
                \A f \in Found : st'.excluded[i].start >= f.off + f.length]_vars
  <2>0. st \in StateType /\ st' \in StateType
    BY <1>1, RangeFacts, NextType DEF RangeInv, TypeInv, TypeOK
  <2>1. PICK g \in Int : FramesBehind(st, g) /\ Grows(st, st', g)
    BY <1>1, RangeNext DEF Forward
  <2>2. ASSUME NEW i \in DOMAIN st'.excluded \ DOMAIN st.excluded, NEW f \in Found
        PROVE  st'.excluded[i].start >= f.off + f.length
    <3>1. PICK t \in Tracks : f \in Elements(st.frames[t])
      BY DEF Found
    <3>2. PICK k \in DOMAIN st.frames[t] : f = st.frames[t][k]
      BY <3>1 DEF Elements
    <3>3. f.off \in Nat /\ f.length \in Nat
      <4>1. t \in AllTracks
        BY DEF AllTracks
      <4>2. QED
        BY <2>0, <3>2, <4>1, FramesType, Zenon
    <3>4. f.off + f.length <= g
      BY <2>1, <3>2 DEF FramesBehind
    <3>5. st'.excluded[i].start >= g
      BY <2>1 DEF Grows
    <3>6. st'.excluded[i].start \in Int
      BY <2>0, ExcludedType
    <3>7. QED
      BY <3>3, <3>4, <3>5, <3>6
  <2>3. QED
    BY <2>2
<1>2. QED
  BY <1>1, RangeInvariant, PTL DEF Spec, ExcludesOnlyBehindFrames
=============================================================================
